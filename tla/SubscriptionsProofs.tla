------------------------ MODULE SubscriptionsProofs ------------------------
(***************************************************************************)
(* Subscriptions keeps its types and mentions only those who asked; while  *)
(* messages do not overlap it forgets nobody and tells nobody twice: for   *)
(* every number of users, guilds, servers, channels, goroutines, faults.   *)
(***************************************************************************)
EXTENDS Subscriptions, FiniteSetTheorems, TLAPS

\* The rows on their way to a message: in the table, in a query result, in
\* the map (filed under their own guild and server).
OnTheWay ==
    /\ rows \subseteq asked
    /\ \A h \in Rounds : left[h] \subseteq asked
    /\ \A g \in Guilds, s \in Servers : \A m \in memory[g][s] :
          m.row \in asked /\ m.row.guild = g /\ m.row.server = s

Inv == TypeOK /\ OnTheWay /\ OnlyTheAsked

\* The table, the map and the messages are empty at the start.
LEMMA SubsInit == Init => Inv
<1> SUFFICES ASSUME Init PROVE Inv
  OBVIOUS
<1>1. errors \in Nat /\ restarts \in Nat /\ errors + restarts <= MaxFaults
  BY SubscriptionsAssumption DEF Init
<1>2. memory \in [Guilds -> [Servers -> SUBSET Mention]]
      /\ \A g \in Guilds, s \in Servers : memory[g][s] = {}
  BY DEF Init, Empty
<1>3. at \in [Asks \cup Rounds -> Stages]
  BY DEF Init, Stages
<1>4. TypeOK
  <2>1. /\ rows = {} /\ asked = {} /\ told = {} /\ skipped = {}
        /\ key \in [Asks -> Row] /\ server \in [Rounds -> Servers]
        /\ left \in [Rounds -> SUBSET Row] /\ channels \in [Rounds -> SUBSET Channels]
        /\ due \in [Rounds -> SUBSET Row] /\ overlap \in BOOLEAN /\ raced \in BOOLEAN
    BY DEF Init
  <2> QED
    BY <1>1, <1>2, <1>3, <2>1 DEF TypeOK
<1>5. OnTheWay /\ OnlyTheAsked
  BY <1>2 DEF Init, OnTheWay, OnlyTheAsked
<1> QED
  BY <1>4, <1>5 DEF Inv

\* The type invariant of what Goto leaves behind.
LEMMA GotoTypes ==
    ASSUME TypeOK, NEW h \in Asks \cup Rounds, NEW next \in Stages, Goto(h, next)
    PROVE  /\ at' \in [Asks \cup Rounds -> Stages]
           /\ overlap' \in BOOLEAN /\ raced' \in BOOLEAN
BY DEF Goto, GotoAll, TypeOK

\* A step that files, queries or sends nothing.
LEMMA QuietStep ==
    ASSUME Inv, UNCHANGED <<memory, key, server, asked, told>>, rows' \subseteq rows,
           TypeOK', left' = left
    PROVE  Inv'
BY DEF Inv, OnTheWay, OnlyTheAsked

\* What a callback of h does to the map: h's own mentions stay, and the new one
\* is filed under the guild and the server of its row.
LEMMA MapOfCallback ==
    ASSUME TypeOK, NEW h \in Rounds, NEW r \in left[h], NEW lost \in SUBSET Others(h, r.guild),
           memory' = [memory EXCEPT ![r.guild] = [s \in Servers |->
              (@[s] \ lost) \cup {m \in {[row |-> r, flush |-> h]} : s = r.server}]]
    PROVE  /\ memory' \in [Guilds -> [Servers -> SUBSET Mention]]
           /\ \A g \in Guilds, s \in Servers :
                 /\ \A m \in memory'[g][s] :
                       \/ m \in memory[g][s]
                       \/ m = [row |-> r, flush |-> h] /\ g = r.guild /\ s = r.server
                 /\ \A m \in memory[g][s] : m.flush = h => m \in memory'[g][s]
           /\ [row |-> r, flush |-> h] \in memory'[r.guild][r.server]
<1> DEFINE mention == [row |-> r, flush |-> h]
           kept == [s \in Servers |->
                      (memory[r.guild][s] \ lost) \cup {m \in {mention} : s = r.server}]
<1>1. r \in Row /\ r.guild \in Guilds /\ r.server \in Servers /\ mention \in Mention
  BY DEF TypeOK, Row, Mention
<1>2. memory' = [memory EXCEPT ![r.guild] = kept]
  OBVIOUS
<1>3. \A m \in lost : m.flush # h
  BY DEF Others
<1> HIDE DEF mention
<1>4. \A s \in Servers : /\ kept[s] \in SUBSET Mention
                         /\ \A m \in kept[s] : m \in memory[r.guild][s]
                                                \/ (m = mention /\ s = r.server)
                         /\ \A m \in memory[r.guild][s] : m.flush = h => m \in kept[s]
                         /\ s = r.server => mention \in kept[s]
  BY <1>1, <1>3 DEF TypeOK
<1>5. kept \in [Servers -> SUBSET Mention]
  BY <1>4
<1> HIDE DEF kept
<1>6. /\ memory'[r.guild] = kept
      /\ \A g \in Guilds : g # r.guild => memory'[g] = memory[g]
  BY <1>1, <1>2 DEF TypeOK
<1>7. memory' \in [Guilds -> [Servers -> SUBSET Mention]]
  BY <1>1, <1>2, <1>5 DEF TypeOK
<1>8. ASSUME NEW g \in Guilds, NEW s \in Servers
      PROVE  /\ \A m \in memory'[g][s] :
                   m \in memory[g][s] \/ (m = mention /\ g = r.guild /\ s = r.server)
             /\ \A m \in memory[g][s] : m.flush = h => m \in memory'[g][s]
  <2>1. CASE g = r.guild
    BY <1>4, <1>6, <2>1
  <2>2. CASE g # r.guild
    BY <1>6, <2>2
  <2> QED
    BY <2>1, <2>2
<1>9. mention \in memory'[r.guild][r.server]
  BY <1>1, <1>4, <1>6
<1> QED
  BY <1>7, <1>8, <1>9 DEF mention

\* Every step, failing ones and restarts included, keeps Inv.
LEMMA SubsNext == Inv /\ [Next]_vars => Inv'
<1> SUFFICES ASSUME Inv, [Next]_vars
             PROVE  Inv'
  OBVIOUS
<1> USE DEF locals, ghosts, faults
<1>1. TypeOK
  BY DEF Inv
<1>2. ASSUME NEW a \in Asks, AskOnce(a) \/ SelectOnetimeSub(a)
      PROVE  Inv'
  <2>1. PICK next \in Stages : Goto(a, next)
    BY <1>2 DEF AskOnce, SelectOnetimeSub, Stages
  <2>2. UNCHANGED <<rows, memory, locals, ghosts, faults>>
    BY <1>2 DEF AskOnce, SelectOnetimeSub
  <2>3. TypeOK'
    BY <1>1, <2>1, <2>2, GotoTypes DEF TypeOK
  <2> QED
    BY <2>2, <2>3, QuietStep
<1>3. ASSUME NEW a \in Asks, CreateOnetimeSub(a)
      PROVE  Inv'
  <2>1. Goto(a, "ended") /\ "ended" \in Stages
    BY <1>3 DEF CreateOnetimeSub, Stages
  <2>2. /\ rows' = rows \cup {key[a]} /\ asked' = asked \cup {key[a]} /\ key[a] \in Row
        /\ UNCHANGED <<memory, locals, due, told, skipped, faults>>
    BY <1>1, <1>3 DEF CreateOnetimeSub, TypeOK
  <2>3. TypeOK'
    BY <1>1, <2>1, <2>2, GotoTypes DEF TypeOK
  <2>4. OnTheWay' /\ OnlyTheAsked'
    BY <2>2 DEF Inv, OnTheWay, OnlyTheAsked
  <2> QED
    BY <2>3, <2>4 DEF Inv
<1>4. ASSUME NEW h \in Rounds, RoundStatus(h)
      PROVE  Inv'
  <2>1. PICK next \in Stages : Goto(h, next)
    BY <1>4 DEF RoundStatus, Stages
  <2>2. /\ channels' \in [Rounds -> SUBSET Channels]
        /\ due' \in [Rounds -> SUBSET Row]
        /\ UNCHANGED <<rows, memory, key, server, left, asked, told, skipped, faults>>
    BY <1>1, <1>4 DEF RoundStatus, TypeOK
  <2>3. TypeOK'
    BY <1>1, <2>1, <2>2, GotoTypes DEF TypeOK
  <2> QED
    BY <2>2, <2>3, QuietStep
<1>5. ASSUME NEW h \in Rounds, ClearMemory(h)
      PROVE  Inv'
  <2>1. Goto(h, "query") /\ "query" \in Stages
    BY <1>5 DEF ClearMemory, Stages
  <2>2. /\ memory' \in [Guilds -> [Servers -> SUBSET Mention]]
        /\ \A g \in Guilds, s \in Servers : memory'[g][s] = {}
        /\ UNCHANGED <<rows, locals, ghosts, faults>>
    BY <1>5 DEF ClearMemory, Empty
  <2>3. TypeOK'
    BY <1>1, <2>1, <2>2, GotoTypes DEF TypeOK
  <2>4. OnTheWay' /\ OnlyTheAsked'
    BY <2>2 DEF Inv, OnTheWay, OnlyTheAsked
  <2> QED
    BY <2>3, <2>4 DEF Inv
<1>6. ASSUME NEW h \in Rounds, QuerySubs(h)
      PROVE  Inv'
  <2>1. Goto(h, "collect") /\ "collect" \in Stages
    BY <1>6 DEF QuerySubs, QueryFrom, Stages
  <2>2. /\ left' = [left EXCEPT ![h] = {r \in rows : r.server = server[h]}]
        /\ UNCHANGED <<rows, memory, key, server, channels, ghosts, faults>>
    BY <1>6 DEF QuerySubs, QueryFrom
  <2>3. left' \in [Rounds -> SUBSET Row] /\ \A i \in Rounds : left'[i] \subseteq asked
    BY <1>1, <2>2 DEF Inv, OnTheWay, TypeOK
  <2>4. TypeOK'
    BY <1>1, <2>1, <2>2, <2>3, GotoTypes DEF TypeOK
  <2>5. OnTheWay' /\ OnlyTheAsked'
    BY <2>2, <2>3 DEF Inv, OnTheWay, OnlyTheAsked
  <2> QED
    BY <2>4, <2>5 DEF Inv
<1>7. ASSUME NEW h \in Rounds, CollectSub(h)
      PROVE  Inv'
  <2>1. PICK r \in left[h], lost \in SUBSET Mention :
           /\ lost \subseteq Others(h, r.guild)
           /\ left' = [left EXCEPT ![h] = @ \ {r}]
           /\ memory' = [memory EXCEPT ![r.guild] = [s \in Servers |->
                 (@[s] \ lost) \cup {m \in {[row |-> r, flush |-> h]} : s = r.server}]]
    <3>1. \A r \in left[h] : Others(h, r.guild) \subseteq Mention
      BY <1>1 DEF TypeOK, Row, Others
    <3> QED
      BY <1>7, <3>1 DEF CollectSub
  <2>2. /\ Goto(h, "collect") /\ "collect" \in Stages
        /\ UNCHANGED <<rows, key, server, channels, ghosts, faults>>
    BY <1>7 DEF CollectSub, Stages
  <2>3. r \in Row /\ r \in asked /\ r.guild \in Guilds /\ r.server \in Servers
    BY <1>1 DEF Inv, OnTheWay, TypeOK, Row
  <2> DEFINE mention == [row |-> r, flush |-> h]
  <2>4. mention.row = r
    OBVIOUS
  <2>5. ASSUME NEW g \in Guilds, NEW s \in Servers, NEW m \in memory'[g][s]
        PROVE  m \in memory[g][s] \/ (m = mention /\ g = r.guild /\ s = r.server)
    BY <1>1, <2>1, MapOfCallback
  <2>6. memory' \in [Guilds -> [Servers -> SUBSET Mention]]
    BY <1>1, <2>1, MapOfCallback
  <2> HIDE DEF mention
  <2>7. left' \in [Rounds -> SUBSET Row] /\ \A i \in Rounds : left'[i] \subseteq asked
    BY <1>1, <2>1 DEF Inv, OnTheWay, TypeOK
  <2>8. TypeOK'
    BY <1>1, <2>2, <2>6, <2>7, GotoTypes DEF TypeOK
  <2>9. \A g \in Guilds, s \in Servers : \A m \in memory'[g][s] :
           m.row \in asked /\ m.row.guild = g /\ m.row.server = s
    <3> SUFFICES ASSUME NEW g \in Guilds, NEW s \in Servers, NEW m \in memory'[g][s]
                 PROVE  m.row \in asked /\ m.row.guild = g /\ m.row.server = s
      OBVIOUS
    <3>1. m \in memory[g][s] \/ (m = mention /\ g = r.guild /\ s = r.server)
      BY <2>5
    <3> QED
      BY <2>3, <2>4, <3>1 DEF Inv, OnTheWay
  <2>10. OnTheWay' /\ OnlyTheAsked'
    BY <2>2, <2>7, <2>9 DEF Inv, OnTheWay, OnlyTheAsked
  <2> QED
    BY <2>8, <2>10 DEF Inv
<1>8. ASSUME NEW h \in Rounds, RemoveOnetimeSubs(h)
      PROVE  Inv'
  <2>1. Goto(h, "send") /\ "send" \in Stages
    BY <1>8 DEF RemoveOnetimeSubs, Stages
  <2>2. /\ rows' \subseteq rows
        /\ UNCHANGED <<memory, locals, ghosts, faults>>
    BY <1>8 DEF RemoveOnetimeSubs
  <2>3. TypeOK'
    BY <1>1, <2>1, <2>2, GotoTypes DEF TypeOK
  <2> QED
    BY <2>2, <2>3, QuietStep
<1>9. ASSUME NEW h \in Rounds, NEW c \in Channels, SendMessage(h, c)
      PROVE  Inv'
  <2>1. PICK next \in Stages : Goto(h, next)
    BY <1>9 DEF SendMessage, SendTo, Stages
  <2> DEFINE mentions == memory[GuildOf[c]][server[h]]
             sent == {[row |-> m.row, flush |-> m.flush, channel |-> c, by |-> h] :
                         m \in mentions}
  <2>2. /\ told' = told \cup sent
        /\ channels' \in [Rounds -> SUBSET Channels]
        /\ UNCHANGED <<rows, memory, key, server, left, asked, due, skipped, faults>>
    BY <1>1, <1>9 DEF SendMessage, SendTo, TypeOK
  <2>3. GuildOf[c] \in Guilds /\ server[h] \in Servers /\ mentions \subseteq Mention
    BY <1>1, SubscriptionsAssumption DEF TypeOK
  <2>4. \A n \in sent : /\ n \in Notice /\ n.row \in asked
                        /\ n.row.guild = GuildOf[n.channel]
                        /\ n.row.server = server[n.by]
    BY <2>3 DEF Inv, OnTheWay, Notice, Mention
  <2> HIDE DEF sent, mentions
  <2>5. TypeOK'
    BY <1>1, <2>1, <2>2, <2>4, GotoTypes DEF TypeOK
  <2>6. OnTheWay' /\ OnlyTheAsked'
    BY <2>2, <2>4 DEF Inv, OnTheWay, OnlyTheAsked
  <2> QED
    BY <2>5, <2>6 DEF Inv
<1>10. ASSUME NEW h \in Rounds, NEW c \in Channels, SkipChannel(h, c)
       PROVE  Inv'
  <2>1. PICK next \in Stages : Goto(h, next)
    BY <1>10 DEF SkipChannel, SendTo, Stages
  <2>2. /\ told' = told
        /\ channels' \in [Rounds -> SUBSET Channels]
        /\ skipped' \subseteq Rounds \X Channels
        /\ UNCHANGED <<rows, memory, key, server, left, asked, due>>
    BY <1>1, <1>10 DEF SkipChannel, SendTo, TypeOK
  <2>3. errors' \in Nat /\ restarts' \in Nat /\ errors' + restarts' <= MaxFaults
    BY <1>1, <1>10, SubscriptionsAssumption DEF SkipChannel, TypeOK
  <2>4. TypeOK'
    BY <1>1, <2>1, <2>2, <2>3, GotoTypes DEF TypeOK
  <2> QED
    BY <2>2, <2>4, QuietStep
<1>11. ASSUME NEW h \in Asks \cup Rounds, StatementFails(h)
       PROVE  Inv'
  <2>1. PICK next \in Stages : Goto(h, next)
    BY <1>11 DEF StatementFails, Stages
  <2>2. UNCHANGED <<rows, memory, locals, ghosts>>
    BY <1>11 DEF StatementFails
  <2>3. errors' \in Nat /\ restarts' \in Nat /\ errors' + restarts' <= MaxFaults
    BY <1>1, <1>11, SubscriptionsAssumption DEF StatementFails, TypeOK
  <2>4. TypeOK'
    BY <1>1, <2>1, <2>2, <2>3, GotoTypes DEF TypeOK
  <2> QED
    BY <2>2, <2>4, QuietStep
<1>12. ASSUME NEW h \in Rounds, ResultBreaksOff(h)
       PROVE  Inv'
  <2>1. Goto(h, "collect") /\ "collect" \in Stages
    BY <1>12 DEF ResultBreaksOff, Stages
  <2>2. /\ left' = [left EXCEPT ![h] = {}]
        /\ UNCHANGED <<rows, memory, key, server, channels, ghosts>>
    BY <1>12 DEF ResultBreaksOff
  <2>3. left' \in [Rounds -> SUBSET Row] /\ \A i \in Rounds : left'[i] \subseteq asked
    BY <1>1, <2>2 DEF Inv, OnTheWay, TypeOK
  <2>4. errors' \in Nat /\ restarts' \in Nat /\ errors' + restarts' <= MaxFaults
    BY <1>1, <1>12, SubscriptionsAssumption DEF ResultBreaksOff, TypeOK
  <2>5. TypeOK'
    BY <1>1, <2>1, <2>2, <2>3, <2>4, GotoTypes DEF TypeOK
  <2>6. OnTheWay' /\ OnlyTheAsked'
    BY <2>2, <2>3 DEF Inv, OnTheWay, OnlyTheAsked
  <2> QED
    BY <2>5, <2>6 DEF Inv
<1>13. ASSUME NEW g \in Rounds, NEW h \in Rounds, ClearUnder(g, h)
       PROVE  Inv'
  <2>1. /\ at' \in [Asks \cup Rounds -> Stages]
        /\ overlap' \in BOOLEAN /\ raced' \in BOOLEAN
    BY <1>1, <1>13 DEF ClearUnder, GotoAll, TypeOK, Stages
  <2>2. /\ memory' \in [Guilds -> [Servers -> SUBSET Mention]]
        /\ \A i \in Guilds, s \in Servers : memory'[i][s] = {}
        /\ UNCHANGED <<rows, locals, ghosts, faults>>
    BY <1>13 DEF ClearUnder, Empty
  <2>3. TypeOK'
    BY <1>1, <2>1, <2>2 DEF TypeOK
  <2>4. OnTheWay' /\ OnlyTheAsked'
    BY <2>2 DEF Inv, OnTheWay, OnlyTheAsked
  <2> QED
    BY <2>3, <2>4 DEF Inv
<1>14. ASSUME Restart
       PROVE  Inv'
  <2>1. at' \in [Asks \cup Rounds -> Stages]
    BY <1>1, <1>14 DEF Restart, TypeOK, Stages
  <2>2. /\ memory' \in [Guilds -> [Servers -> SUBSET Mention]]
        /\ \A g \in Guilds, s \in Servers : memory'[g][s] = {}
        /\ UNCHANGED <<rows, locals, ghosts, overlap, raced>>
    BY <1>14 DEF Restart, Empty
  <2>3. errors' \in Nat /\ restarts' \in Nat /\ errors' + restarts' <= MaxFaults
    BY <1>1, <1>14, SubscriptionsAssumption DEF Restart, TypeOK
  <2>4. TypeOK'
    BY <1>1, <2>1, <2>2, <2>3 DEF TypeOK
  <2>5. OnTheWay' /\ OnlyTheAsked'
    BY <2>2 DEF Inv, OnTheWay, OnlyTheAsked
  <2> QED
    BY <2>4, <2>5 DEF Inv
<1>15. CASE UNCHANGED vars
  BY <1>15 DEF vars, Inv, TypeOK, OnTheWay, OnlyTheAsked
<1> QED
  BY <1>2, <1>3, <1>4, <1>5, <1>6, <1>7, <1>8, <1>9, <1>10, <1>11, <1>12, <1>13,
     <1>14, <1>15 DEF Next

\* Inv holds in every reachable state.
LEMMA SubsCorrect == Spec => []Inv
BY SubsInit, SubsNext, PTL DEF Spec

\* The table, the map and the goroutines keep their types.
THEOREM SubscriptionsTypeCorrect == Spec => []TypeOK
<1>1. Inv => TypeOK
  BY DEF Inv
<1> QED
  BY <1>1, SubsCorrect, PTL

\* Whatever overlaps, fails or restarts, a round message mentions in a guild
\* only those who asked there about its server (discord_main.go:530-574).
THEOREM OnlyTheAskedAreTold == Spec => []OnlyTheAsked
<1>1. Inv => OnlyTheAsked
  BY DEF Inv
<1> QED
  BY <1>1, SubsCorrect, PTL
-----------------------------------------------------------------------------
(***************************************************************************)
(* Who is mentioned, and how often.                                        *)
(***************************************************************************)

\* overlap and raced have not missed anything.
OverlapIsSeen ==
    ~overlap => \A g, h \in Rounds : Active(g) /\ Active(h) => g = h
RaceIsSeen ==
    ~raced => \A a, b \in Asks :
        Active(a) /\ Active(b) /\ SameKey(key[a], key[b]) => a = b

\* A row is inserted once, and its goroutine has ended.
AskedOnce ==
    /\ \A a \in Asks : key[a].by = a
    /\ \A r \in asked : at[r.by] = "ended"

\* A message is done with the channels it has sent to or skipped, and has not
\* touched one before it sends.
DoneWith(h, c) == at[h] \in {"send", "ended"} /\ c \notin channels[h]

Progress ==
    /\ \A n \in told : DoneWith(n.by, n.channel)
    /\ \A p \in skipped : DoneWith(p[1], p[2])
    /\ \A h \in Rounds : at[h] \in {"clear", "query", "collect"} =>
          channels[h] = {c \in Channels : BoundTo[c] = server[h]}
    /\ \A h \in Rounds : \A r \in due[h] : r.server = server[h]
    /\ \A h \in Rounds : at[h] = "collect" => \A r \in left[h] : r.server = server[h]
    /\ \A h \in Rounds : at[h] \notin {"select", "create"}

FaultsSeen == IsFiniteSet(skipped) /\ Cardinality(skipped) <= errors + restarts

Books == OverlapIsSeen /\ RaceIsSeen /\ AskedOnce /\ Progress /\ FaultsSeen

\* The rows a flush has read: some still in the result, the others filed.
Filed(m) == \E g \in Guilds, s \in Servers : m \in memory[g][s]
Read(h, r) == (at[h] = "collect" /\ r \in left[h]) \/ \E m \in Mention : Filed(m) /\ m.row = r

\* A message that is alone finds in the map what its own flush has read.
OwnFlush ==
    ~overlap => \A h \in Rounds : at[h] \in {"query", "collect", "send"} =>
        \A m \in Mention : Filed(m) =>
            at[h] # "query" /\ m.flush = h /\ m.row.server = server[h]

\* What was mentioned is not in the table any more; what is being read still
\* is, and what is being sent is not and was sent by nobody else.
GoneWhenTold ==
    ~overlap /\ errors = 0 =>
        /\ \A n \in told : n.row \notin rows
        /\ \A h \in Rounds :
              /\ at[h] = "collect" => \A r \in Row : Read(h, r) => r \in rows
              /\ at[h] = "send" => \A r \in Row : Read(h, r) =>
                    r \notin rows /\ \A n \in told : n.row = r => n.by = h

\* The table holds one row of a user, guild and server, and so does a flush.
OneRowOfAKey ==
    ~raced =>
        /\ \A q, r \in rows : SameKey(q, r) => q = r
        /\ \A a \in Asks : at[a] = "create" => \A r \in rows : ~SameKey(r, key[a])
OneReadOfAKey ==
    ~overlap /\ ~raced => \A h \in Rounds : at[h] \in {"collect", "send"} =>
        \A q, r \in Row : Read(h, q) /\ Read(h, r) /\ SameKey(q, r) => q = r

\* Nothing has failed but lookups of channels.
OnlySkipped == errors + restarts = Cardinality(skipped)

\* Goroutine h has yet to mention r in channel c, or has.
Pending(h, r, c) ==
    \/ c \in channels[h]
    \/ \E n \in told : n.row = r /\ n.channel = c /\ n.by = h

\* Where the rows are that were there when the message came.
Followed ==
    ~overlap /\ OnlySkipped => \A h \in Rounds : \A r \in due[h] :
        /\ at[h] \in {"clear", "query"} => r \in rows
        /\ at[h] = "collect" =>
              r \in left[h] \/ \E m \in memory[r.guild][r.server] : m.row = r
        /\ at[h] = "send" => \E m \in memory[r.guild][r.server] : m.row = r
        /\ at[h] \in {"send", "ended"} => \A c \in Channels :
              BoundTo[c] = server[h] /\ GuildOf[c] = r.guild /\ <<h, c>> \notin skipped
                 => Pending(h, r, c) /\ (at[h] = "ended" => c \notin channels[h])

\* All a message says of the mentions.
Flush ==
    /\ OwnFlush /\ GoneWhenTold /\ OneRowOfAKey /\ OneReadOfAKey /\ Followed
    /\ OncePerChannel /\ NobodyTwice


\* What a step of goroutine h leaves alone, and what overlap and raced say.
LEMMA StepOf ==
    ASSUME Inv, NEW h \in Asks \cup Rounds, NEW next \in Stages, Goto(h, next)
    PROVE  /\ at'[h] = next
           /\ \A g \in (Asks \cup Rounds) \ {h} : at'[g] = at[g]
           /\ OverlapIsSeen' /\ RaceIsSeen'
           /\ overlap \in BOOLEAN /\ raced \in BOOLEAN
           /\ ~overlap' => ~overlap
           /\ ~raced' => ~raced
BY DEF Goto, GotoAll, Inv, TypeOK, OverlapIsSeen, RaceIsSeen

LEMMA BooksInit == Init => Books
<1> SUFFICES ASSUME Init PROVE Books
  OBVIOUS
<1>1. FaultsSeen
  BY FS_EmptySet DEF Init, FaultsSeen
<1>2. Progress
  BY DEF Init, Progress, DoneWith
<1>3. OverlapIsSeen /\ RaceIsSeen /\ AskedOnce
  BY DEF Init, OverlapIsSeen, RaceIsSeen, AskedOnce, Active
<1> QED
  BY <1>1, <1>2, <1>3 DEF Books

\* What the steps of goroutine h have in common.
LEMMA BooksStep ==
    ASSUME Inv, Books, NEW h \in Asks \cup Rounds, NEW next \in Stages, Goto(h, next),
           UNCHANGED <<key, server>>, at[h] # "ended", FaultsSeen',
           \A r \in asked' : r \in asked \/ (r.by = h /\ next = "ended"),
           \A n \in told' : \/ n \in told
                            \/ /\ n.by = h /\ n.channel \notin channels'[h]
                               /\ next \in {"send", "ended"},
           \A p \in skipped' : \/ p \in skipped
                               \/ /\ p[1] = h /\ p[2] \notin channels'[h]
                                  /\ next \in {"send", "ended"},
           \A g \in Rounds \ {h} : /\ channels'[g] = channels[g] /\ due'[g] = due[g]
                                   /\ left'[g] = left[g],
           h \in Rounds =>
              /\ at[h] = "send" => next \in {"send", "ended"}
              /\ channels'[h] \subseteq channels[h] \/ at[h] = "idle"
              /\ next \in {"clear", "query", "collect"} =>
                    channels'[h] = {c \in Channels : BoundTo[c] = server[h]}
              /\ \A r \in due'[h] : r.server = server[h]
              /\ next = "collect" => \A r \in left'[h] : r.server = server[h]
              /\ next \notin {"select", "create"}
    PROVE  Books'
<1>1. /\ at'[h] = next
      /\ \A g \in (Asks \cup Rounds) \ {h} : at'[g] = at[g]
      /\ OverlapIsSeen' /\ RaceIsSeen'
  BY StepOf
<1>2. /\ \A r \in asked : r.by \in Asks
      /\ \A n \in told : n.by \in Rounds
      /\ \A p \in skipped : p[1] \in Rounds
  BY DEF Inv, TypeOK, Row, Notice
<1>3. AskedOnce'
  BY <1>1, <1>2 DEF Books, AskedOnce
<1>4. \A g \in Rounds, c \in Channels : DoneWith(g, c) => DoneWith(g, c)'
  BY <1>1 DEF DoneWith
<1>5. \A n \in told' : DoneWith(n.by, n.channel)'
  <2> SUFFICES ASSUME NEW n \in told' PROVE DoneWith(n.by, n.channel)'
    OBVIOUS
  <2>1. CASE n \in told
    BY <1>2, <1>4, <2>1 DEF Books, Progress, Inv, TypeOK, Notice
  <2>2. CASE n \notin told
    BY <1>1, <2>2 DEF DoneWith
  <2> QED
    BY <2>1, <2>2
<1>6. \A p \in skipped' : DoneWith(p[1], p[2])'
  <2> SUFFICES ASSUME NEW p \in skipped' PROVE DoneWith(p[1], p[2])'
    OBVIOUS
  <2>1. CASE p \in skipped
    BY <1>2, <1>4, <2>1 DEF Books, Progress, Inv, TypeOK
  <2>2. CASE p \notin skipped
    BY <1>1, <2>2 DEF DoneWith
  <2> QED
    BY <2>1, <2>2
<1>7. ASSUME NEW g \in Rounds
      PROVE  /\ at'[g] \in {"clear", "query", "collect"} =>
                    channels'[g] = {c \in Channels : BoundTo[c] = server'[g]}
             /\ \A r \in due'[g] : r.server = server'[g]
             /\ at'[g] = "collect" => \A r \in left'[g] : r.server = server'[g]
             /\ at'[g] \notin {"select", "create"}
  <2>1. CASE g = h
    BY <1>1, <2>1
  <2>2. CASE g # h
    BY <1>1, <2>2 DEF Books, Progress
  <2> QED
    BY <2>1, <2>2
<1> QED
  BY <1>1, <1>3, <1>5, <1>6, <1>7 DEF Books, Progress

\* Sending to channel c, or skipping it.
LEMMA SendBooks ==
    ASSUME Inv, Books, NEW h \in Rounds, NEW c \in Channels, NEW mentions,
           SendTo(h, c, mentions), FaultsSeen',
           skipped' \subseteq skipped \cup {<<h, c>>}
    PROVE  Books'
<1>1. /\ at[h] = "send" /\ c \in channels[h]
      /\ channels'[h] = channels[h] \ {c}
      /\ \A g \in Rounds \ {h} : channels'[g] = channels[g]
      /\ UNCHANGED <<rows, memory, key, server, left, asked, due>>
  BY DEF SendTo, Inv, TypeOK
<1>2. PICK next \in {"send", "ended"} : Goto(h, next)
  BY DEF SendTo
<1>3. \A n \in told' : n \in told \/ (n.by = h /\ n.channel = c)
  BY DEF SendTo
<1>4. \A p \in skipped' : p \in skipped \/ (p[1] = h /\ p[2] = c)
  OBVIOUS
<1>5. next \in Stages
  BY DEF Stages
<1>6. \A r \in due[h] : r.server = server[h]
  BY DEF Books, Progress
<1> QED
  BY <1>1, <1>2, <1>3, <1>4, <1>5, <1>6, BooksStep

\* A clear under a callback is an overlap, and changes nothing of !sub_once.
LEMMA UnderOverlap ==
    ASSUME Inv, Books, NEW g \in Rounds, NEW h \in Rounds, ClearUnder(g, h)
    PROVE  /\ overlap' /\ RaceIsSeen'
           /\ ~raced' => ~raced
           /\ \A a \in Asks : at'[a] = at[a]
<1>1. /\ at[g] = "clear" /\ at[h] = "collect" /\ key' = key
      /\ at' = [at EXCEPT ![g] = "query", ![h] = "send"]
      /\ overlap' = (overlap \/ \E i, j \in Rounds : i # j /\ Active(i)' /\ Active(j)')
      /\ raced' = (raced \/ \E a, b \in Asks : /\ a # b /\ Active(a)' /\ Active(b)'
                                               /\ SameKey(key'[a], key'[b]))
  BY DEF ClearUnder, GotoAll, locals
<1>2. Asks \cap Rounds = {} /\ raced \in BOOLEAN /\ overlap \in BOOLEAN
  BY SubscriptionsAssumption DEF Inv, TypeOK
<1>3. g # h /\ at'[g] = "query" /\ at'[h] = "send" /\ \A a \in Asks : at'[a] = at[a]
  BY <1>1, <1>2 DEF Inv, TypeOK
<1>4. Active(g)' /\ Active(h)'
  BY <1>3 DEF Active
<1>5. overlap'
  BY <1>1, <1>3, <1>4
<1>6. RaceIsSeen' /\ (~raced' => ~raced)
  BY <1>1, <1>2 DEF RaceIsSeen
<1> QED
  BY <1>3, <1>5, <1>6

LEMMA BooksNext == Inv /\ Books /\ [Next]_vars => Books'
<1> SUFFICES ASSUME Inv, Books, [Next]_vars PROVE Books'
  OBVIOUS
<1> USE DEF locals, ghosts, faults
<1>0. /\ Stages = {"idle", "select", "create", "clear", "query", "collect", "send", "ended"}
      /\ Asks \cap Rounds = {} /\ FaultsSeen
      /\ IsFiniteSet(skipped) /\ Cardinality(skipped) \in Nat
      /\ errors \in Nat /\ restarts \in Nat /\ Cardinality(skipped) <= errors + restarts
  BY SubscriptionsAssumption, FS_CardinalityType DEF Stages, Books, FaultsSeen, Inv, TypeOK
<1>1. UNCHANGED <<skipped, faults>> => FaultsSeen'
  BY <1>0 DEF FaultsSeen
<1>2. \A h \in Rounds : \A r \in due[h] : r.server = server[h]
  BY DEF Books, Progress
<1>3. \A h \in Rounds : at[h] \in {"clear", "query", "collect"} =>
          channels[h] = {c \in Channels : BoundTo[c] = server[h]}
  BY DEF Books, Progress
<1>4. ASSUME NEW a \in Asks, AskOnce(a) \/ SelectOnetimeSub(a)
      PROVE  Books'
  <2>1. PICK next \in Stages : Goto(a, next)
    BY <1>0, <1>4 DEF AskOnce, SelectOnetimeSub
  <2>2. UNCHANGED <<rows, memory, locals, ghosts, faults>> /\ at[a] # "ended"
    BY <1>4 DEF AskOnce, SelectOnetimeSub
  <2> QED
    BY <1>0, <1>1, <2>1, <2>2, BooksStep
<1>5. ASSUME NEW a \in Asks, CreateOnetimeSub(a)
      PROVE  Books'
  <2>1. key[a].by = a
    BY DEF Books, AskedOnce
  <2> QED
    BY <1>0, <1>1, <1>5, <2>1, BooksStep DEF CreateOnetimeSub
<1>6. ASSUME NEW h \in Rounds, RoundStatus(h)
      PROVE  Books'
  <2>1. PICK next \in {"clear", "ended"} : Goto(h, next)
    BY <1>6 DEF RoundStatus
  <2>2. /\ at[h] = "idle"
        /\ channels'[h] = {c \in Channels : BoundTo[c] = server[h]}
        /\ due'[h] = {r \in rows : r.server = server[h]}
        /\ \A g \in Rounds \ {h} : channels'[g] = channels[g] /\ due'[g] = due[g]
        /\ UNCHANGED <<rows, memory, key, server, left, asked, told, skipped, faults>>
    BY <1>6 DEF RoundStatus, Inv, TypeOK
  <2> QED
    BY <1>0, <1>1, <2>1, <2>2, BooksStep
<1>7. ASSUME NEW h \in Rounds, ClearMemory(h)
      PROVE  Books'
  BY <1>0, <1>1, <1>2, <1>3, <1>7, BooksStep DEF ClearMemory
<1>8. ASSUME NEW h \in Rounds, QuerySubs(h)
      PROVE  Books'
  <2>1. /\ left'[h] = {r \in rows : r.server = server[h]}
        /\ \A g \in Rounds \ {h} : left'[g] = left[g]
    BY <1>8 DEF QuerySubs, QueryFrom, Inv, TypeOK
  <2> QED
    BY <1>0, <1>1, <1>2, <1>3, <1>8, <2>1, BooksStep DEF QuerySubs, QueryFrom
<1>9. ASSUME NEW h \in Rounds, CollectSub(h)
      PROVE  Books'
  <2>1. /\ left'[h] \subseteq left[h]
        /\ \A g \in Rounds \ {h} : left'[g] = left[g]
    BY <1>9 DEF CollectSub, Inv, TypeOK
  <2>2. at[h] = "collect" /\ Goto(h, "collect")
        /\ UNCHANGED <<rows, key, server, channels, ghosts, faults>>
    BY <1>9 DEF CollectSub
  <2>3. \A r \in left[h] : r.server = server[h]
    BY <2>2 DEF Books, Progress
  <2> QED
    BY <1>0, <1>1, <1>2, <1>3, <2>1, <2>2, <2>3, BooksStep
<1>10. ASSUME NEW h \in Rounds, RemoveOnetimeSubs(h)
       PROVE  Books'
  BY <1>0, <1>1, <1>2, <1>10, BooksStep DEF RemoveOnetimeSubs
<1>11. ASSUME NEW h \in Rounds, NEW c \in Channels, SendMessage(h, c)
       PROVE  Books'
  BY <1>1, <1>11, SendBooks DEF SendMessage
<1>12. ASSUME NEW h \in Rounds, NEW c \in Channels, SkipChannel(h, c)
       PROVE  Books'
  <2>1. /\ skipped' = skipped \cup {<<h, c>>} /\ errors' = errors + 1 /\ restarts' = restarts
    BY <1>12 DEF SkipChannel
  <2>2. IsFiniteSet(skipped') /\ Cardinality(skipped') \in Nat
        /\ Cardinality(skipped') <= Cardinality(skipped) + 1
    <3>1. /\ IsFiniteSet(skipped \cup {<<h, c>>})
          /\ Cardinality(skipped \cup {<<h, c>>}) =
                IF <<h, c>> \in skipped THEN Cardinality(skipped) ELSE Cardinality(skipped) + 1
      BY <1>0, FS_AddElement
    <3> QED
      BY <1>0, <2>1, <3>1
  <2>3. FaultsSeen'
    BY <1>0, <2>1, <2>2 DEF FaultsSeen
  <2> QED
    BY <1>12, <2>1, <2>3, SendBooks DEF SkipChannel
<1>13. ASSUME NEW h \in Asks \cup Rounds, StatementFails(h)
       PROVE  Books'
  <2>1. PICK next \in {"send", "ended"} : Goto(h, next) /\ (h \in Rounds => next = "send")
    BY <1>0, <1>13 DEF StatementFails
  <2>2. /\ errors' = errors + 1
        /\ UNCHANGED <<rows, memory, locals, ghosts, restarts>>
        /\ at[h] \notin {"idle", "send", "ended"}
    BY <1>13 DEF StatementFails
  <2>3. FaultsSeen'
    BY <1>0, <2>2 DEF FaultsSeen
  <2> QED
    BY <1>0, <1>2, <2>1, <2>2, <2>3, BooksStep
<1>14. ASSUME NEW h \in Rounds, ResultBreaksOff(h)
       PROVE  Books'
  <2>1. /\ left'[h] = {}
        /\ \A g \in Rounds \ {h} : left'[g] = left[g]
    BY <1>14 DEF ResultBreaksOff, Inv, TypeOK
  <2>2. /\ at[h] = "collect" /\ Goto(h, "collect") /\ errors' = errors + 1
        /\ UNCHANGED <<rows, memory, key, server, channels, ghosts, restarts>>
    BY <1>14 DEF ResultBreaksOff
  <2>3. FaultsSeen'
    BY <1>0, <2>2 DEF FaultsSeen
  <2> QED
    BY <1>0, <1>2, <1>3, <2>1, <2>2, <2>3, BooksStep
<1>15. ASSUME NEW g \in Rounds, NEW h \in Rounds, ClearUnder(g, h)
       PROVE  Books'
  <2>1. /\ at[g] = "clear" /\ at'[g] = "query" /\ at[h] = "collect" /\ at'[h] = "send"
        /\ \A i \in (Asks \cup Rounds) \ {g, h} : at'[i] = at[i]
        /\ UNCHANGED <<rows, locals, ghosts, faults>>
    BY <1>15 DEF ClearUnder, GotoAll, Inv, TypeOK
  <2>2. overlap' /\ RaceIsSeen'
    BY <1>15, UnderOverlap
  <2>3. OverlapIsSeen'
    BY <2>2 DEF OverlapIsSeen
  <2>4. /\ \A r \in asked : r.by \in Asks
        /\ \A n \in told : n.by \in Rounds
        /\ \A p \in skipped : p[1] \in Rounds
    BY DEF Inv, TypeOK, Row, Notice
  <2>5. AskedOnce'
    BY <1>0, <2>1, <2>4 DEF Books, AskedOnce
  <2>6. \A i \in Rounds, c \in Channels : DoneWith(i, c) => DoneWith(i, c)'
    BY <2>1 DEF DoneWith
  <2>7. /\ \A n \in told' : DoneWith(n.by, n.channel)'
        /\ \A p \in skipped' : DoneWith(p[1], p[2])'
    BY <2>1, <2>6 DEF Books, Progress, Inv, TypeOK, Notice
  <2>8. Progress'
    BY <2>1, <2>7 DEF Books, Progress
  <2> QED
    BY <1>1, <2>1, <2>2, <2>3, <2>5, <2>8 DEF Books
<1>16. ASSUME Restart
       PROVE  Books'
  <2>1. /\ \A h \in Asks \cup Rounds : /\ at'[h] \in {"idle", "ended"}
                                       /\ at[h] # "idle" => at'[h] = "ended"
        /\ UNCHANGED <<rows, locals, ghosts, overlap, raced, errors>>
        /\ restarts' = restarts + 1
    BY <1>16 DEF Restart, Active
  <2>2. FaultsSeen'
    BY <1>0, <2>1 DEF FaultsSeen
  <2>3. OverlapIsSeen' /\ RaceIsSeen'
    BY <2>1 DEF OverlapIsSeen, RaceIsSeen, Active
  <2>4. /\ \A r \in asked : r.by \in Asks
        /\ \A n \in told : n.by \in Rounds
        /\ \A p \in skipped : p[1] \in Rounds
    BY DEF Inv, TypeOK, Row, Notice
  <2>5. AskedOnce'
    BY <2>1, <2>4 DEF Books, AskedOnce
  <2>6. Progress'
    BY <2>1, <2>4 DEF Books, Progress, DoneWith
  <2> QED
    BY <2>2, <2>3, <2>5, <2>6 DEF Books
<1>17. CASE UNCHANGED vars
  BY <1>17 DEF vars, Books, OverlapIsSeen, RaceIsSeen, AskedOnce, Progress, DoneWith, FaultsSeen, Active
<1> QED
  BY <1>4, <1>5, <1>6, <1>7, <1>8, <1>9, <1>10, <1>11, <1>12, <1>13, <1>14, <1>15,
     <1>16, <1>17 DEF Next

LEMMA BooksCorrect == Spec => []Books
<1>1. Inv /\ Books /\ [Next]_vars => Books'
  BY BooksNext
<1> QED
  BY <1>1, BooksInit, SubsCorrect, PTL DEF Spec

LEMMA FlushInit == Init => Flush
<1> SUFFICES ASSUME Init PROVE Flush
  OBVIOUS
<1>1. \A h \in Asks \cup Rounds : at[h] = "idle"
  BY DEF Init
<1>2. OwnFlush /\ GoneWhenTold /\ OneRowOfAKey /\ OneReadOfAKey /\ Followed
  BY <1>1 DEF Init, OwnFlush, GoneWhenTold, OneRowOfAKey, OneReadOfAKey, Followed
<1>3. OncePerChannel /\ NobodyTwice
  BY DEF Init, OncePerChannel, NobodyTwice
<1> QED
  BY <1>2, <1>3 DEF Flush

\* Whoever shares the bot with an active message is not at work himself.
LEMMA OthersRest ==
    ASSUME Inv, OverlapIsSeen, ~overlap, NEW h \in Rounds, Active(h), NEW g \in Rounds, g # h
    PROVE  at[g] \in {"idle", "ended"}
BY DEF OverlapIsSeen, Active

\* A row filed or in a result was asked for.
LEMMA ReadIsAsked ==
    ASSUME Inv, NEW h \in Rounds, NEW r, Read(h, r)
    PROVE  r \in asked
BY DEF Inv, OnTheWay, Read, Filed

\* A step of !sub_once: the messages are where they were.
LEMMA AskFlush ==
    ASSUME Inv, Books, Flush, NEW a \in Asks,
           AskOnce(a) \/ SelectOnetimeSub(a) \/ CreateOnetimeSub(a)
    PROVE  Flush'
<1> USE DEF locals, ghosts, faults
<1>1. PICK next \in {"select", "create", "ended"} : Goto(a, next)
  BY DEF AskOnce, SelectOnetimeSub, CreateOnetimeSub
<1>2. next \in Stages /\ Asks \cap Rounds = {}
  BY SubscriptionsAssumption DEF Stages
<1>3. /\ at'[a] = next /\ \A b \in Asks \ {a} : at'[b] = at[b]
      /\ \A h \in Rounds : at'[h] = at[h]
      /\ ~overlap' => ~overlap
      /\ ~raced' => ~raced
  BY <1>1, <1>2, StepOf
<1>4. /\ UNCHANGED <<memory, key, server, left, channels, due, told, skipped, errors, restarts>>
      /\ rows' = rows \/ (rows' = rows \cup {key[a]} /\ at[a] = "create")
      /\ rows \subseteq rows'
  BY DEF AskOnce, SelectOnetimeSub, CreateOnetimeSub
<1>5. \A h \in Rounds, r \in Row : Read(h, r)' <=> Read(h, r)
  BY <1>3, <1>4 DEF Read, Filed
<1>6. key[a] \notin asked \/ rows' = rows
  BY <1>4 DEF Books, AskedOnce
<1>7. OwnFlush'
  BY <1>3, <1>4 DEF Flush, OwnFlush, Filed
<1>8. GoneWhenTold'
  <2> SUFFICES ASSUME ~overlap', errors' = 0
               PROVE  /\ \A n \in told' : n.row \notin rows'
                      /\ \A h \in Rounds :
                            /\ at'[h] = "collect" => \A r \in Row : Read(h, r)' => r \in rows'
                            /\ at'[h] = "send" => \A r \in Row : Read(h, r)' =>
                                  r \notin rows' /\ \A n \in told' : n.row = r => n.by = h
    BY DEF GoneWhenTold
  <2>1. /\ \A n \in told : n.row \notin rows
        /\ \A h \in Rounds :
              /\ at[h] = "collect" => \A r \in Row : Read(h, r) => r \in rows
              /\ at[h] = "send" => \A r \in Row : Read(h, r) =>
                    r \notin rows /\ \A n \in told : n.row = r => n.by = h
    BY <1>3, <1>4 DEF Flush, GoneWhenTold
  <2>2. \A n \in told : n.row \in asked
    BY DEF Inv, OnlyTheAsked
  <2>3. \A r \in asked : r \notin rows => r \notin rows'
    BY <1>4, <1>6
  <2>4. \A h \in Rounds, r \in Row : Read(h, r) => r \in asked
    BY ReadIsAsked
  <2> QED
    BY <1>3, <1>4, <1>5, <2>1, <2>2, <2>3, <2>4
<1>9. OneRowOfAKey'
  <2> SUFFICES ASSUME ~raced'
               PROVE  /\ \A q, r \in rows' : SameKey(q, r) => q = r
                      /\ \A b \in Asks : at'[b] = "create" =>
                            \A r \in rows' : ~SameKey(r, key[b])
    BY <1>4 DEF OneRowOfAKey
  <2>1. /\ \A q, r \in rows : SameKey(q, r) => q = r
        /\ \A b \in Asks : at[b] = "create" => \A r \in rows : ~SameKey(r, key[b])
    BY <1>3 DEF Flush, OneRowOfAKey
  <2>2. ASSUME NEW q \in rows', NEW r \in rows', SameKey(q, r)
        PROVE  q = r
    BY <1>4, <2>1, <2>2 DEF SameKey
  <2>3. ASSUME NEW b \in Asks, at'[b] = "create", NEW r \in rows', SameKey(r, key[b])
        PROVE  FALSE
    <3>1. CASE b = a
      BY <1>1, <1>2, <1>3, <1>4, <2>3, <3>1 DEF AskOnce, SelectOnetimeSub, CreateOnetimeSub, Goto, GotoAll, Inv, TypeOK
    <3>2. CASE b # a
      <4>1. r \notin rows
        BY <1>3, <2>1, <2>3, <3>2
      <4>2. r = key[a] /\ Active(a) /\ Active(b)
        BY <1>3, <1>4, <2>3, <3>2, <4>1 DEF Active
      <4> QED
        BY <1>3, <2>3, <3>2, <4>2 DEF Books, RaceIsSeen
    <3> QED
      BY <3>1, <3>2
  <2> QED
    BY <2>2, <2>3
<1>10. OneReadOfAKey'
  BY <1>3, <1>5 DEF Flush, OneReadOfAKey
<1>11. Followed'
  BY <1>3, <1>4 DEF Flush, Followed, OnlySkipped, Pending
<1>12. OncePerChannel' /\ NobodyTwice'
  BY <1>3, <1>4 DEF Flush, OncePerChannel, NobodyTwice
<1> QED
  BY <1>7, <1>8, <1>9, <1>10, <1>11, <1>12 DEF Flush

\* A message that comes: it has read nothing and sent nothing.
LEMMA RoundFlush ==
    ASSUME Inv, Books, Flush, NEW h \in Rounds, RoundStatus(h)
    PROVE  Flush'
<1> USE DEF locals, ghosts, faults
<1>1. PICK next \in {"clear", "ended"} : Goto(h, next)
                     /\ (next = "ended" => {c \in Channels : BoundTo[c] = server[h]} = {})
  BY DEF RoundStatus
<1>2. next \in Stages /\ Asks \cap Rounds = {}
  BY SubscriptionsAssumption DEF Stages
<1>3. /\ at'[h] = next /\ \A g \in Rounds \ {h} : at'[g] = at[g]
      /\ \A a \in Asks : at'[a] = at[a]
      /\ ~overlap' => ~overlap
      /\ ~raced' => ~raced
  BY <1>1, <1>2, StepOf
<1>4. /\ due'[h] = {r \in rows : r.server = server[h]}
      /\ \A g \in Rounds \ {h} : channels'[g] = channels[g] /\ due'[g] = due[g]
      /\ UNCHANGED <<rows, memory, key, server, left, asked, told, skipped, errors, restarts>>
  BY DEF RoundStatus, Inv, TypeOK
<1>5. \A g \in Rounds \ {h}, r \in Row : Read(g, r)' <=> Read(g, r)
  BY <1>3, <1>4 DEF Read, Filed
<1>6. OwnFlush'
  BY <1>3, <1>4 DEF Flush, OwnFlush, Filed
<1>7. GoneWhenTold'
  BY <1>3, <1>4, <1>5 DEF Flush, GoneWhenTold
<1>8. OneRowOfAKey'
  BY <1>3, <1>4 DEF Flush, OneRowOfAKey
<1>9. OneReadOfAKey'
  BY <1>3, <1>5 DEF Flush, OneReadOfAKey
<1>10. Followed'
  <2> SUFFICES ASSUME ~overlap', OnlySkipped', NEW g \in Rounds, NEW r \in due'[g]
               PROVE  /\ at'[g] \in {"clear", "query"} => r \in rows'
                      /\ at'[g] = "collect" =>
                            r \in left'[g] \/ \E m \in memory'[r.guild][r.server] : m.row = r
                      /\ at'[g] = "send" => \E m \in memory'[r.guild][r.server] : m.row = r
                      /\ at'[g] \in {"send", "ended"} => \A c \in Channels :
                            BoundTo[c] = server'[g] /\ GuildOf[c] = r.guild /\ <<g, c>> \notin skipped'
                               => Pending(g, r, c)' /\ (at'[g] = "ended" => c \notin channels'[g])
    BY DEF Followed
  <2>1. CASE g = h
    BY <1>1, <1>3, <1>4, <2>1
  <2>2. CASE g # h
    BY <1>3, <1>4, <2>2 DEF Flush, Followed, OnlySkipped, Pending
  <2> QED
    BY <2>1, <2>2
<1>11. OncePerChannel' /\ NobodyTwice'
  BY <1>3, <1>4 DEF Flush, OncePerChannel, NobodyTwice
<1> QED
  BY <1>6, <1>7, <1>8, <1>9, <1>10, <1>11 DEF Flush

\* The flush empties the map, and others are not at work.
LEMMA ClearFlush ==
    ASSUME Inv, Books, Flush, NEW h \in Rounds, ClearMemory(h)
    PROVE  Flush'
<1> USE DEF locals, ghosts, faults
<1>1. /\ at[h] = "clear" /\ Goto(h, "query") /\ "query" \in Stages
      /\ UNCHANGED <<rows, key, server, left, channels, due, told, skipped, errors, restarts>>
      /\ \A g \in Guilds, s \in Servers : memory'[g][s] = {}
  BY DEF ClearMemory, Stages, Empty
<1>2. /\ at'[h] = "query" /\ \A g \in (Asks \cup Rounds) \ {h} : at'[g] = at[g]
      /\ ~overlap' => ~overlap
      /\ ~raced' => ~raced
  BY <1>1, StepOf
<1>3. ~overlap' => \A g \in Rounds \ {h} : at'[g] \in {"idle", "ended"}
  BY <1>1, <1>2, OthersRest DEF Active, Books
<1>4. \A m : ~Filed(m)'
  BY <1>1 DEF Filed
<1>5. OwnFlush' /\ OneReadOfAKey'
  BY <1>2, <1>3, <1>4 DEF OwnFlush, OneReadOfAKey
<1>6. GoneWhenTold'
  BY <1>1, <1>2, <1>3 DEF Flush, GoneWhenTold
<1>7. OneRowOfAKey'
  <2>1. \A a \in Asks : at'[a] = "create" => at[a] = "create"
    BY <1>2
  <2> QED
    BY <1>1, <1>2, <2>1 DEF Flush, OneRowOfAKey
<1>8. Followed'
  <2> SUFFICES ASSUME ~overlap', OnlySkipped', NEW g \in Rounds, NEW r \in due[g]
               PROVE  /\ at'[g] \in {"clear", "query"} => r \in rows
                      /\ at'[g] \notin {"collect", "send"}
                      /\ at'[g] = "ended" => \A c \in Channels :
                            BoundTo[c] = server[g] /\ GuildOf[c] = r.guild /\ <<g, c>> \notin skipped
                               => Pending(g, r, c)' /\ c \notin channels[g]
    BY <1>1, <1>2, <1>3 DEF Followed
  <2>1. CASE g = h
    BY <1>1, <1>2, <2>1 DEF Flush, Followed, OnlySkipped
  <2>2. CASE g # h
    BY <1>1, <1>2, <1>3, <2>2 DEF Flush, Followed, OnlySkipped, Pending
  <2> QED
    BY <2>1, <2>2
<1>9. OncePerChannel' /\ NobodyTwice'
  BY <1>1, <1>2 DEF Flush, OncePerChannel, NobodyTwice
<1> QED
  BY <1>5, <1>6, <1>7, <1>8, <1>9 DEF Flush

\* A step of an active message that sends nothing and is not at rest after it:
\* what remains to be shown is about the message itself.
LEMMA ReadingFlush ==
    ASSUME Inv, Books, Flush, NEW h \in Rounds, NEW next \in {"collect", "send"}, Goto(h, next),
           Active(h), rows' \subseteq rows,
           UNCHANGED <<key, server, due, told, skipped>>,
           \A g \in Rounds \ {h} : channels'[g] = channels[g],
           errors' = 0 => errors = 0, OnlySkipped' => OnlySkipped,
           ~overlap' /\ ~overlap => \A m \in Mention : Filed(m)' =>
              m.flush = h /\ m.row.server = server[h],
           ~overlap' /\ ~overlap /\ errors' = 0 => \A r \in Row : Read(h, r)' =>
              /\ next = "collect" => r \in rows'
              /\ next = "send" => r \notin rows' /\ \A n \in told : n.row # r,
           ~overlap' /\ ~overlap /\ ~raced => \A q, r \in Row :
              Read(h, q)' /\ Read(h, r)' /\ SameKey(q, r) => q = r,
           ~overlap' /\ ~overlap /\ OnlySkipped' => \A r \in due[h] :
              /\ \/ next = "collect" /\ r \in left'[h]
                 \/ \E m \in memory'[r.guild][r.server] : m.row = r
              /\ next = "send" => \A c \in Channels :
                    BoundTo[c] = server[h] => c \in channels'[h]
    PROVE  Flush'
<1>1. next \in Stages
  BY DEF Stages
<1>2. /\ at'[h] = next /\ \A g \in (Asks \cup Rounds) \ {h} : at'[g] = at[g]
      /\ ~overlap' => ~overlap
      /\ ~raced' => ~raced
  BY <1>1, StepOf
<1>3. ~overlap' => \A g \in Rounds \ {h} : at'[g] \in {"idle", "ended"}
  BY <1>2, OthersRest DEF Books
<1>4. OwnFlush'
  BY <1>2, <1>3 DEF OwnFlush
<1>5. GoneWhenTold'
  <2> SUFFICES ASSUME ~overlap', errors' = 0
               PROVE  /\ \A n \in told : n.row \notin rows'
                      /\ \A g \in Rounds :
                            /\ at'[g] = "collect" => \A r \in Row : Read(g, r)' => r \in rows'
                            /\ at'[g] = "send" => \A r \in Row : Read(g, r)' =>
                                  r \notin rows' /\ \A n \in told : n.row = r => n.by = g
    BY DEF GoneWhenTold
  <2>1. \A n \in told : n.row \notin rows'
    BY <1>2 DEF Flush, GoneWhenTold
  <2> QED
    BY <1>2, <1>3, <2>1
<1>6. OneRowOfAKey'
  <2>1. \A a \in Asks : at'[a] = "create" => at[a] = "create"
    BY <1>2
  <2> QED
    BY <1>2, <2>1 DEF Flush, OneRowOfAKey
<1>7. OneReadOfAKey'
  BY <1>2, <1>3 DEF OneReadOfAKey
<1>8. Followed'
  <2> SUFFICES ASSUME ~overlap', OnlySkipped', NEW g \in Rounds, NEW r \in due[g]
               PROVE  /\ at'[g] \in {"clear", "query"} => r \in rows'
                      /\ at'[g] = "collect" =>
                            r \in left'[g] \/ \E m \in memory'[r.guild][r.server] : m.row = r
                      /\ at'[g] = "send" => \E m \in memory'[r.guild][r.server] : m.row = r
                      /\ at'[g] \in {"send", "ended"} => \A c \in Channels :
                            BoundTo[c] = server[g] /\ GuildOf[c] = r.guild /\ <<g, c>> \notin skipped
                               => Pending(g, r, c)' /\ (at'[g] = "ended" => c \notin channels'[g])
    BY DEF Followed
  <2>1. CASE g = h
    BY <1>2, <2>1 DEF Pending
  <2>2. CASE g # h
    BY <1>2, <1>3, <2>2 DEF Flush, Followed, Pending
  <2> QED
    BY <2>1, <2>2
<1>9. OncePerChannel' /\ NobodyTwice'
  BY <1>2 DEF Flush, OncePerChannel, NobodyTwice
<1> QED
  BY <1>4, <1>5, <1>6, <1>7, <1>8, <1>9 DEF Flush

\* The query finds the rows of the server; the map is still empty.
LEMMA QueryFlush ==
    ASSUME Inv, Books, Flush, NEW h \in Rounds, QuerySubs(h)
    PROVE  Flush'
<1> USE DEF locals, ghosts, faults
<1>1. /\ at[h] = "query" /\ Goto(h, "collect") /\ Active(h)
      /\ left'[h] = {r \in rows : r.server = server[h]}
      /\ UNCHANGED <<rows, memory, key, server, channels, due, told, skipped, errors, restarts>>
  BY DEF QuerySubs, QueryFrom, Active, Inv, TypeOK
<1>2. ~overlap => \A m \in Mention : ~Filed(m)'
  BY <1>1 DEF Flush, OwnFlush, Filed
<1>3. ~overlap => \A r \in Row : Read(h, r)' => r \in rows
  BY <1>1, <1>2 DEF Read
<1>4. ~overlap /\ OnlySkipped => \A r \in due[h] : r \in left'[h]
  BY <1>1 DEF Flush, Followed, Books, Progress
<1> QED
  BY <1>1, <1>2, <1>3, <1>4, ReadingFlush DEF OnlySkipped, Flush, OneRowOfAKey

\* A row goes from the result to the map.
LEMMA CollectFlush ==
    ASSUME Inv, Books, Flush, NEW h \in Rounds, CollectSub(h)
    PROVE  Flush'
<1> USE DEF locals, ghosts, faults
<1>0. TypeOK /\ \A r \in left[h] : Others(h, r.guild) \subseteq Mention
  BY DEF Inv, TypeOK, Row, Others
<1>1. PICK r \in left[h], lost \in SUBSET Mention :
         /\ lost \subseteq Others(h, r.guild)
         /\ left' = [left EXCEPT ![h] = @ \ {r}]
         /\ memory' = [memory EXCEPT ![r.guild] = [s \in Servers |->
               (@[s] \ lost) \cup {m \in {[row |-> r, flush |-> h]} : s = r.server}]]
  BY <1>0 DEF CollectSub
<1>2. /\ at[h] = "collect" /\ Goto(h, "collect") /\ Active(h)
      /\ UNCHANGED <<rows, key, server, channels, due, told, skipped, errors, restarts>>
  BY DEF CollectSub, Active
<1>3. r \in Row /\ r.guild \in Guilds /\ r.server \in Servers /\ r.server = server[h]
      /\ left'[h] = left[h] \ {r}
  BY <1>1, <1>2 DEF Inv, TypeOK, Row, Books, Progress
<1> DEFINE mention == [row |-> r, flush |-> h]
<1>4. /\ \A g \in Guilds, s \in Servers :
            /\ \A m \in memory'[g][s] : m \in memory[g][s] \/ m = mention
            /\ \A m \in memory[g][s] : m.flush = h => m \in memory'[g][s]
      /\ mention \in memory'[r.guild][r.server]
  BY <1>0, <1>1, MapOfCallback
<1>5. mention.row = r /\ mention.flush = h
  OBVIOUS
<1> HIDE DEF mention
<1>6. \A m : Filed(m)' => Filed(m) \/ m = mention
  BY <1>4 DEF Filed
<1>7. at'[h] = "collect"
  BY <1>2 DEF Goto, GotoAll, Inv, TypeOK
<1>8. \A q \in Row : Read(h, q)' => Read(h, q)
  BY <1>2, <1>3, <1>5, <1>6, <1>7 DEF Read
<1>9. ~overlap => \A m \in Mention : Filed(m)' => m.flush = h /\ m.row.server = server[h]
  BY <1>2, <1>3, <1>5, <1>6 DEF Flush, OwnFlush
<1>10. ASSUME ~overlap, OnlySkipped, NEW q \in due[h]
       PROVE  q \in left'[h] \/ \E m \in memory'[q.guild][q.server] : m.row = q
  <2>1. q \in left[h] \/ \E m \in memory[q.guild][q.server] : m.row = q
    BY <1>2, <1>10 DEF Flush, Followed
  <2>2. q.guild \in Guilds /\ q.server \in Servers
    BY DEF Inv, TypeOK, Row
  <2>3. \A m \in memory[q.guild][q.server] : m \in memory'[q.guild][q.server]
    <3>1. \A m \in memory[q.guild][q.server] : m \in Mention /\ Filed(m)
      BY <2>2 DEF Inv, TypeOK, Filed
    <3>2. \A m \in memory[q.guild][q.server] : m.flush = h
      BY <1>2, <1>10, <3>1 DEF Flush, OwnFlush
    <3> QED
      BY <1>4, <2>2, <3>2
  <2> QED
    BY <1>3, <1>4, <1>5, <2>1, <2>3
<1>11. /\ ~overlap /\ errors = 0 => \A q \in Row : Read(h, q)' => q \in rows
       /\ ~overlap /\ ~raced => \A p, q \in Row :
              Read(h, p)' /\ Read(h, q)' /\ SameKey(p, q) => p = q
  BY <1>2, <1>8 DEF Flush, GoneWhenTold, OneReadOfAKey
<1> QED
  BY <1>2, <1>9, <1>10, <1>11, ReadingFlush DEF OnlySkipped

\* The rows that were read are deleted, then sent.
LEMMA RemoveFlush ==
    ASSUME Inv, Books, Flush, NEW h \in Rounds, RemoveOnetimeSubs(h)
    PROVE  Flush'
<1> USE DEF locals, ghosts, faults
<1>1. /\ at[h] = "collect" /\ left[h] = {} /\ Goto(h, "send") /\ Active(h)
      /\ rows' = {r \in rows : r.server # server[h]}
      /\ UNCHANGED <<memory, key, server, left, channels, due, told, skipped, errors, restarts>>
  BY DEF RemoveOnetimeSubs, Active
<1>2. at'[h] = "send"
  BY <1>1 DEF Goto, GotoAll, Inv, TypeOK
<1>3. \A m : Filed(m)' <=> Filed(m)
  BY <1>1 DEF Filed
<1>4. \A r \in Row : Read(h, r)' => Read(h, r) /\ \E m \in Mention : Filed(m) /\ m.row = r
  BY <1>1, <1>2, <1>3 DEF Read
<1>5. ASSUME ~overlap, errors = 0, NEW r \in Row, Read(h, r)'
      PROVE  r \notin rows' /\ \A n \in told : n.row # r
  <2>1. r.server = server[h] /\ r \in rows
    BY <1>1, <1>4, <1>5 DEF Flush, OwnFlush, GoneWhenTold
  <2> QED
    BY <1>1, <1>5, <2>1 DEF Flush, GoneWhenTold
<1>6. \A c \in Channels : BoundTo[c] = server[h] => c \in channels[h]
  BY <1>1 DEF Books, Progress
<1>7. ~overlap /\ OnlySkipped => \A r \in due[h] : \E m \in memory[r.guild][r.server] : m.row = r
  BY <1>1 DEF Flush, Followed
<1>8. /\ ~overlap => \A m \in Mention : Filed(m)' => m.flush = h /\ m.row.server = server[h]
      /\ ~overlap /\ ~raced => \A p, q \in Row :
              Read(h, p)' /\ Read(h, q)' /\ SameKey(p, q) => p = q
  BY <1>1, <1>3, <1>4 DEF Flush, OwnFlush, OneReadOfAKey
<1> QED
  BY <1>1, <1>5, <1>6, <1>7, <1>8, ReadingFlush DEF OnlySkipped

\* Sending to a channel what the map holds for it: nobody was mentioned there
\* by this message, nor these rows by another.
LEMMA SendFlush ==
    ASSUME Inv, Books, Flush, NEW h \in Rounds, NEW c \in Channels, SendMessage(h, c)
    PROVE  Flush'
<1> USE DEF locals, ghosts, faults
<1> DEFINE mentions == memory[GuildOf[c]][server[h]]
           sent == {[row |-> m.row, flush |-> m.flush, channel |-> c, by |-> h] : m \in mentions}
<1>1. /\ at[h] = "send" /\ c \in channels[h] /\ Active(h)
      /\ channels'[h] = channels[h] \ {c}
      /\ \A g \in Rounds \ {h} : channels'[g] = channels[g]
      /\ told' = told \cup sent
      /\ UNCHANGED <<rows, memory, key, server, left, asked, due, skipped, errors, restarts>>
  BY DEF SendMessage, SendTo, Active, Inv, TypeOK
<1>2. PICK next \in {"send", "ended"} :
         Goto(h, next) /\ (next = "ended" <=> channels[h] = {c})
  BY DEF SendMessage, SendTo
<1>3. next \in Stages
  BY DEF Stages
<1>4. /\ at'[h] = next /\ \A g \in (Asks \cup Rounds) \ {h} : at'[g] = at[g]
      /\ ~overlap' => ~overlap
      /\ ~raced' => ~raced
  BY <1>2, <1>3, StepOf
<1>5. ~overlap' => \A g \in Rounds \ {h} : at'[g] \in {"idle", "ended"}
  BY <1>1, <1>4, OthersRest DEF Books
<1>6. GuildOf[c] \in Guilds /\ server[h] \in Servers /\ mentions \subseteq Mention
      /\ \A m \in mentions : Filed(m)
  BY SubscriptionsAssumption DEF Inv, TypeOK, Filed
<1>7. \A n \in sent : /\ n.channel = c /\ n.by = h
                      /\ \E m \in mentions : n = [row |-> m.row, flush |-> m.flush,
                                                  channel |-> c, by |-> h]
                                             /\ n.row = m.row /\ n.flush = m.flush
  OBVIOUS
<1>m. \A m \in mentions : [row |-> m.row, flush |-> m.flush, channel |-> c, by |-> h] \in sent
  OBVIOUS
<1> HIDE DEF sent, mentions
<1>8. \A n \in sent : n.row \in Row /\ Read(h, n.row)
  BY <1>6, <1>7 DEF Read, Mention
<1>9. ~overlap => \A n \in sent : n.flush = h
  BY <1>1, <1>6, <1>7 DEF Flush, OwnFlush
<1>10. \A n \in told : n.by = h => n.channel # c
  BY <1>1 DEF Books, Progress, DoneWith
<1>11. ~overlap => \A m, n \in sent : m.row = n.row => m = n
  <2> SUFFICES ASSUME ~overlap, NEW m \in sent, NEW n \in sent, m.row = n.row
               PROVE  m = n
    OBVIOUS
  <2>1. m.flush = h /\ n.flush = h
    BY <1>9
  <2> QED
    BY <1>7, <2>1
<1>12. OwnFlush'
  BY <1>1, <1>4, <1>5 DEF Flush, OwnFlush, Filed
<1>13. \A g \in Rounds, r \in Row : Read(g, r)' => Read(g, r)
  BY <1>1, <1>2, <1>4 DEF Read, Filed
<1>14. GoneWhenTold'
  <2> SUFFICES ASSUME ~overlap', errors' = 0
               PROVE  /\ \A n \in told' : n.row \notin rows
                      /\ at'[h] = "send" => \A r \in Row : Read(h, r)' =>
                            r \notin rows /\ \A n \in told' : n.row = r => n.by = h
    BY <1>1, <1>4, <1>5 DEF GoneWhenTold
  <2>1. /\ \A n \in told : n.row \notin rows
        /\ \A r \in Row : Read(h, r) => r \notin rows /\ \A n \in told : n.row = r => n.by = h
    BY <1>1, <1>4 DEF Flush, GoneWhenTold
  <2> QED
    BY <1>1, <1>7, <1>8, <1>13, <2>1
<1>15. OneRowOfAKey'
  <2>1. \A a \in Asks : at'[a] = "create" => at[a] = "create"
    BY <1>2, <1>4
  <2> QED
    BY <1>1, <1>4, <2>1 DEF Flush, OneRowOfAKey
<1>16. OneReadOfAKey'
  BY <1>1, <1>4, <1>5, <1>13 DEF Flush, OneReadOfAKey
<1>17. Followed'
  <2> SUFFICES ASSUME ~overlap', OnlySkipped', NEW g \in Rounds, NEW r \in due[g]
               PROVE  /\ at'[g] \in {"clear", "query"} => r \in rows'
                      /\ at'[g] = "collect" =>
                            r \in left'[g] \/ \E m \in memory'[r.guild][r.server] : m.row = r
                      /\ at'[g] = "send" => \E m \in memory'[r.guild][r.server] : m.row = r
                      /\ at'[g] \in {"send", "ended"} => \A d \in Channels :
                            BoundTo[d] = server[g] /\ GuildOf[d] = r.guild /\ <<g, d>> \notin skipped
                               => Pending(g, r, d)' /\ (at'[g] = "ended" => d \notin channels'[g])
    BY <1>1 DEF Followed
  <2>1. CASE g = h
    <3>1. /\ \E m \in memory[r.guild][r.server] : m.row = r
          /\ \A d \in Channels :
                BoundTo[d] = server[h] /\ GuildOf[d] = r.guild /\ <<h, d>> \notin skipped
                   => Pending(h, r, d)
      BY <1>1, <1>4, <2>1 DEF Flush, Followed, OnlySkipped
    <3>2. at'[h] \in {"send", "ended"} /\ (at'[h] = "ended" => channels'[h] = {})
      BY <1>1, <1>2, <1>4
    <3>3. ASSUME NEW d \in Channels, BoundTo[d] = server[h], GuildOf[d] = r.guild,
                 <<h, d>> \notin skipped
          PROVE  Pending(h, r, d)'
      <4>1. CASE d = c
        <5>1. r.server = server[h]
          BY <2>1 DEF Books, Progress
        <5>2. PICK m \in mentions : m.row = r
          BY <3>1, <3>3, <4>1, <5>1 DEF mentions
        <5> DEFINE n == [row |-> m.row, flush |-> m.flush, channel |-> c, by |-> h]
        <5>3. n \in told' /\ n.row = r /\ n.channel = c /\ n.by = h
          BY <1>1, <1>m, <5>2
        <5> QED
          BY <4>1, <5>3 DEF Pending
      <4>2. CASE d # c
        BY <1>1, <3>1, <3>3, <4>2 DEF Pending
      <4> QED
        BY <4>1, <4>2
    <3> QED
      BY <1>1, <2>1, <3>1, <3>2, <3>3
  <2>2. CASE g # h
    BY <1>1, <1>4, <1>5, <2>2 DEF Flush, Followed, OnlySkipped, Pending
  <2> QED
    BY <2>1, <2>2
<1>18. OncePerChannel'
  <2> SUFFICES ASSUME ~overlap', errors' = 0, NEW m \in told', NEW n \in sent,
                      m.row = n.row, m.channel = n.channel
               PROVE  m = n
    <3>1. \A m, n \in told : m.row = n.row /\ m.channel = n.channel /\ ~overlap' /\ errors' = 0 => m = n
      BY <1>1, <1>4 DEF Flush, OncePerChannel
    <3> QED
      BY <1>1, <3>1 DEF OncePerChannel
  <2>1. CASE m \in sent
    BY <1>4, <1>11, <2>1
  <2>2. CASE m \in told
    <3>1. m.by = h
      BY <1>1, <1>4, <1>8, <2>2 DEF Flush, GoneWhenTold
    <3> QED
      BY <1>7, <1>10, <2>2, <3>1
  <2> QED
    BY <1>1, <2>1, <2>2
<1>19. NobodyTwice'
  <2> SUFFICES ASSUME ~overlap', ~raced', NEW m \in told', NEW n \in sent,
                      SameKey(m.row, n.row), m.channel = n.channel, m.by = n.by
               PROVE  m = n
    <3>1. \A m, n \in told : SameKey(m.row, n.row) /\ m.channel = n.channel /\ m.by = n.by
             /\ ~overlap' /\ ~raced' => m = n
      BY <1>1, <1>4 DEF Flush, NobodyTwice
    <3>2. \A m, n \in told' : SameKey(m.row, n.row) => SameKey(n.row, m.row)
      BY DEF SameKey
    <3> QED
      BY <1>1, <3>1, <3>2 DEF NobodyTwice
  <2>1. m \in sent
    BY <1>1, <1>7, <1>10
  <2>2. m.row = n.row
    BY <1>1, <1>4, <1>8, <2>1 DEF Flush, OneReadOfAKey
  <2> QED
    BY <1>4, <1>11, <2>1, <2>2
<1> QED
  BY <1>12, <1>14, <1>15, <1>16, <1>17, <1>18, <1>19 DEF Flush

\* A channel that cannot be looked up is counted with the faults.
LEMMA SkipFlush ==
    ASSUME Inv, Books, Flush, NEW h \in Rounds, NEW c \in Channels, SkipChannel(h, c)
    PROVE  Flush'
<1> USE DEF locals, ghosts, faults
<1>1. /\ at[h] = "send" /\ c \in channels[h] /\ Active(h)
      /\ channels'[h] = channels[h] \ {c}
      /\ \A g \in Rounds \ {h} : channels'[g] = channels[g]
      /\ told' = told /\ skipped' = skipped \cup {<<h, c>>} /\ errors' = errors + 1
      /\ UNCHANGED <<rows, memory, key, server, left, asked, due, restarts>>
  BY DEF SkipChannel, SendTo, Active, Inv, TypeOK
<1>2. PICK next \in {"send", "ended"} :
         Goto(h, next) /\ (next = "ended" <=> channels[h] = {c})
  BY DEF SkipChannel, SendTo
<1>3. next \in Stages
  BY DEF Stages
<1>4. /\ at'[h] = next /\ \A g \in (Asks \cup Rounds) \ {h} : at'[g] = at[g]
      /\ ~overlap' => ~overlap
      /\ ~raced' => ~raced
  BY <1>2, <1>3, StepOf
<1>5. ~overlap' => \A g \in Rounds \ {h} : at'[g] \in {"idle", "ended"}
  BY <1>1, <1>4, OthersRest DEF Books
<1>6. errors' # 0
  BY <1>1 DEF Inv, TypeOK
<1>7. OnlySkipped' => OnlySkipped
  <2>1. /\ IsFiniteSet(skipped) /\ Cardinality(skipped) \in Nat
        /\ Cardinality(skipped) <= errors + restarts /\ errors \in Nat /\ restarts \in Nat
    BY FS_CardinalityType DEF Books, FaultsSeen, Inv, TypeOK
  <2>2. Cardinality(skipped \cup {<<h, c>>}) =
           IF <<h, c>> \in skipped THEN Cardinality(skipped) ELSE Cardinality(skipped) + 1
    BY <2>1, FS_AddElement
  <2> QED
    BY <1>1, <2>1, <2>2 DEF OnlySkipped
<1>8. \A g \in Rounds, r \in Row : Read(g, r)' => Read(g, r)
  BY <1>1, <1>2, <1>4 DEF Read, Filed
<1>9. OwnFlush' /\ OneReadOfAKey'
  BY <1>1, <1>4, <1>5, <1>8 DEF Flush, OwnFlush, OneReadOfAKey, Filed
<1>10. GoneWhenTold' /\ OncePerChannel'
  BY <1>6 DEF GoneWhenTold, OncePerChannel
<1>11. OneRowOfAKey'
  <2>1. \A a \in Asks : at'[a] = "create" => at[a] = "create"
    BY <1>2, <1>4
  <2> QED
    BY <1>1, <1>4, <2>1 DEF Flush, OneRowOfAKey
<1>12. NobodyTwice'
  BY <1>1, <1>4 DEF Flush, NobodyTwice
<1>13. Followed'
  <2> SUFFICES ASSUME ~overlap', OnlySkipped', NEW g \in Rounds, NEW r \in due[g]
               PROVE  /\ at'[g] \in {"clear", "query"} => r \in rows'
                      /\ at'[g] = "collect" =>
                            r \in left'[g] \/ \E m \in memory'[r.guild][r.server] : m.row = r
                      /\ at'[g] = "send" => \E m \in memory'[r.guild][r.server] : m.row = r
                      /\ at'[g] \in {"send", "ended"} => \A d \in Channels :
                            BoundTo[d] = server[g] /\ GuildOf[d] = r.guild /\ <<g, d>> \notin skipped'
                               => Pending(g, r, d)' /\ (at'[g] = "ended" => d \notin channels'[g])
    BY <1>1 DEF Followed
  <2>1. CASE g = h
    <3>1. /\ \E m \in memory[r.guild][r.server] : m.row = r
          /\ \A d \in Channels :
                BoundTo[d] = server[h] /\ GuildOf[d] = r.guild /\ <<h, d>> \notin skipped
                   => Pending(h, r, d)
      BY <1>1, <1>4, <1>7, <2>1 DEF Flush, Followed
    <3>2. at'[h] \in {"send", "ended"} /\ (at'[h] = "ended" => channels'[h] = {})
      BY <1>1, <1>2, <1>4
    <3>3. ASSUME NEW d \in Channels, BoundTo[d] = server[h], GuildOf[d] = r.guild,
                 <<h, d>> \notin skipped'
          PROVE  Pending(h, r, d)'
      BY <1>1, <3>1, <3>3 DEF Pending
    <3> QED
      BY <1>1, <2>1, <3>1, <3>2, <3>3
  <2>2. CASE g # h
    <3>1. \A d : <<g, d>> \notin skipped' => <<g, d>> \notin skipped
      BY <1>1
    <3> QED
      BY <1>1, <1>4, <1>5, <1>7, <2>2, <3>1 DEF Flush, Followed, Pending
  <2> QED
    BY <2>1, <2>2
<1> QED
  BY <1>9, <1>10, <1>11, <1>12, <1>13 DEF Flush

\* A failing statement is a fault that is not a skipped channel.
LEMMA FailFlush ==
    ASSUME Inv, Books, Flush, NEW h \in Asks \cup Rounds, StatementFails(h)
    PROVE  Flush'
<1> USE DEF locals, ghosts, faults
<1>0. Asks \cap Rounds = {} /\ Stages = {"idle", "select", "create", "clear", "query", "collect",
                                         "send", "ended"}
  BY SubscriptionsAssumption DEF Stages
<1>1. /\ UNCHANGED <<rows, memory, key, server, left, channels, asked, due, told, skipped, restarts>>
      /\ errors' = errors + 1
      /\ Active(h)
      /\ Goto(h, IF h \in Asks THEN "ended" ELSE "send")
      /\ at[h] \in {"select", "create", "query", "collect"}
  BY DEF StatementFails, Active
<1>2. /\ at'[h] = (IF h \in Asks THEN "ended" ELSE "send")
      /\ \A g \in (Asks \cup Rounds) \ {h} : at'[g] = at[g]
      /\ ~overlap' => ~overlap
      /\ ~raced' => ~raced
  BY <1>0, <1>1, StepOf
<1>3. errors' # 0 /\ ~OnlySkipped'
  <2>1. /\ Cardinality(skipped) \in Nat
        /\ Cardinality(skipped) <= errors + restarts /\ errors \in Nat /\ restarts \in Nat
    BY FS_CardinalityType DEF Books, FaultsSeen, Inv, TypeOK
  <2> QED
    BY <1>1, <2>1 DEF OnlySkipped
<1>4. h \in Rounds => at[h] \in {"query", "collect"}
  BY <1>1 DEF Books, Progress
<1>5. \A m : Filed(m)' <=> Filed(m)
  BY <1>1 DEF Filed
<1>6. \A g \in Rounds, r \in Row : Read(g, r)' => Read(g, r)
  BY <1>0, <1>1, <1>2, <1>5 DEF Read
<1>7. OwnFlush'
  BY <1>0, <1>1, <1>2, <1>4, <1>5 DEF Flush, OwnFlush
<1>8. OneReadOfAKey'
  <2> SUFFICES ASSUME ~overlap', ~raced', NEW g \in Rounds, at'[g] \in {"collect", "send"},
                      NEW q \in Row, NEW r \in Row, Read(g, q)', Read(g, r)', SameKey(q, r)
               PROVE  q = r
    BY DEF OneReadOfAKey
  <2>1. at[g] # "query"
    BY <1>0, <1>2, <1>5 DEF Flush, OwnFlush, Read
  <2>2. at[g] \in {"collect", "send"}
    BY <1>0, <1>2, <1>4, <2>1
  <2> QED
    BY <1>2, <1>6, <2>2 DEF Flush, OneReadOfAKey
<1>9. OneRowOfAKey'
  <2>1. \A a \in Asks : at'[a] = "create" => at[a] = "create"
    BY <1>2
  <2> QED
    BY <1>1, <1>2, <2>1 DEF Flush, OneRowOfAKey
<1>10. GoneWhenTold' /\ OncePerChannel' /\ Followed'
  BY <1>3 DEF GoneWhenTold, OncePerChannel, Followed
<1>11. NobodyTwice'
  BY <1>1, <1>2 DEF Flush, NobodyTwice
<1> QED
  BY <1>7, <1>8, <1>9, <1>10, <1>11 DEF Flush

\* A result that breaks off leaves fewer rows to be read.
LEMMA BreakFlush ==
    ASSUME Inv, Books, Flush, NEW h \in Rounds, ResultBreaksOff(h)
    PROVE  Flush'
<1> USE DEF locals, ghosts, faults
<1>1. /\ at[h] = "collect" /\ Goto(h, "collect") /\ Active(h)
      /\ left'[h] = {}
      /\ errors' = errors + 1
      /\ UNCHANGED <<rows, memory, key, server, channels, asked, due, told, skipped, restarts>>
  BY DEF ResultBreaksOff, Active, Inv, TypeOK
<1>2. at'[h] = "collect"
  BY <1>1 DEF Goto, GotoAll, Inv, TypeOK
<1>3. errors' # 0 /\ ~OnlySkipped'
  <2>1. /\ Cardinality(skipped) \in Nat
        /\ Cardinality(skipped) <= errors + restarts /\ errors \in Nat /\ restarts \in Nat
    BY FS_CardinalityType DEF Books, FaultsSeen, Inv, TypeOK
  <2> QED
    BY <1>1, <2>1 DEF OnlySkipped
<1>4. \A m : Filed(m)' <=> Filed(m)
  BY <1>1 DEF Filed
<1>5. \A r \in Row : Read(h, r)' => Read(h, r)
  BY <1>1, <1>2, <1>4 DEF Read
<1>6. /\ ~overlap => \A m \in Mention : Filed(m)' => m.flush = h /\ m.row.server = server[h]
      /\ ~overlap /\ ~raced => \A p, q \in Row :
              Read(h, p)' /\ Read(h, q)' /\ SameKey(p, q) => p = q
  BY <1>1, <1>4, <1>5 DEF Flush, OwnFlush, OneReadOfAKey
<1> QED
  BY <1>1, <1>3, <1>6, ReadingFlush

\* A clear under a callback is an overlap: nothing is said of who is mentioned.
LEMMA UnderFlush ==
    ASSUME Inv, Books, Flush, NEW g \in Rounds, NEW h \in Rounds, ClearUnder(g, h)
    PROVE  Flush'
<1>1. overlap' /\ (~raced' => ~raced) /\ \A a \in Asks : at'[a] = at[a]
  BY UnderOverlap
<1>2. rows' = rows /\ key' = key
  BY DEF ClearUnder, locals
<1>3. OneRowOfAKey'
  BY <1>1, <1>2 DEF Flush, OneRowOfAKey
<1>4. OwnFlush' /\ GoneWhenTold' /\ OneReadOfAKey' /\ Followed'
  BY <1>1 DEF OwnFlush, GoneWhenTold, OneReadOfAKey, Followed
<1>5. OncePerChannel' /\ NobodyTwice'
  BY <1>1 DEF OncePerChannel, NobodyTwice
<1> QED
  BY <1>3, <1>4, <1>5 DEF Flush

\* A restart is a fault as well; it ends all work and empties the map.
LEMMA RestartFlush ==
    ASSUME Inv, Books, Flush, Restart
    PROVE  Flush'
<1> USE DEF locals, ghosts, faults
<1>1. /\ \A h \in Asks \cup Rounds : at'[h] \in {"idle", "ended"}
      /\ UNCHANGED <<rows, key, server, told, skipped, overlap, raced, errors>>
      /\ restarts' = restarts + 1
  BY DEF Restart, Active
<1>2. ~OnlySkipped'
  <2>1. /\ Cardinality(skipped) \in Nat
        /\ Cardinality(skipped) <= errors + restarts /\ errors \in Nat /\ restarts \in Nat
    BY FS_CardinalityType DEF Books, FaultsSeen, Inv, TypeOK
  <2> QED
    BY <1>1, <2>1 DEF OnlySkipped
<1>3. OwnFlush' /\ OneReadOfAKey' /\ Followed'
  BY <1>1, <1>2 DEF OwnFlush, OneReadOfAKey, Followed
<1>4. OneRowOfAKey' /\ GoneWhenTold'
  BY <1>1 DEF Flush, OneRowOfAKey, GoneWhenTold
<1>5. OncePerChannel' /\ NobodyTwice'
  BY <1>1 DEF Flush, OncePerChannel, NobodyTwice
<1> QED
  BY <1>3, <1>4, <1>5 DEF Flush

LEMMA FlushNext == Inv /\ Books /\ Flush /\ [Next]_vars => Flush'
<1> SUFFICES ASSUME Inv, Books, Flush, [Next]_vars PROVE Flush'
  OBVIOUS
<1>1. CASE UNCHANGED vars
  <2> USE <1>1 DEF vars
  <2>1. OwnFlush' /\ GoneWhenTold'
    BY DEF Flush, OwnFlush, GoneWhenTold, Read, Filed
  <2>2. OneRowOfAKey' /\ OneReadOfAKey'
    BY DEF Flush, OneRowOfAKey, OneReadOfAKey, Read, Filed
  <2>3. Followed'
    BY DEF Flush, Followed, Pending, OnlySkipped
  <2>4. OncePerChannel' /\ NobodyTwice'
    BY DEF Flush, OncePerChannel, NobodyTwice
  <2> QED
    BY <2>1, <2>2, <2>3, <2>4 DEF Flush
<1> QED
  BY <1>1, AskFlush, RoundFlush, ClearFlush, QueryFlush, CollectFlush, RemoveFlush, SendFlush,
     SkipFlush, FailFlush, BreakFlush, UnderFlush, RestartFlush DEF Next

LEMMA FlushCorrect == Spec => []Flush
<1>1. Inv /\ Books /\ Flush /\ [Next]_vars => Flush'
  BY FlushNext
<1> QED
  BY <1>1, FlushInit, SubsCorrect, BooksCorrect, PTL DEF Spec

\* While round messages do not overlap and nothing fails, a request is
\* mentioned once in a channel, whenever the bot dies: its row is gone before
\* anything is sent (discord_main.go:530-574, 1133-1168).
THEOREM RequestsAreToldOnce == Spec => []OncePerChannel
<1>1. Flush => OncePerChannel
  BY DEF Flush
<1> QED
  BY <1>1, FlushCorrect, PTL

\* While neither messages nor calls of one user overlap, no message mentions a
\* user twice in a channel, whatever fails (discord_main.go:1133-1168).
THEOREM NobodyIsToldTwice == Spec => []NobodyTwice
<1>1. Flush => NobodyTwice
  BY DEF Flush
<1> QED
  BY <1>1, FlushCorrect, PTL

\* While messages do not overlap and nothing fails but lookups of channels, a
\* message that has ended has mentioned every request that was there when it
\* came, in each of its channels that was found (discord_main.go:530-574).
THEOREM NobodyIsForgotten == Spec => []NoneForgotten
<1>1. Flush => NoneForgotten
  BY DEF Flush, Followed, OnlySkipped, Pending, NoneForgotten
<1> QED
  BY <1>1, FlushCorrect, PTL
=============================================================================
