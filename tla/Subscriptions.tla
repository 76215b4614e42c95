--------------------------- MODULE Subscriptions ---------------------------
(***************************************************************************)
(* One-time subscriptions: !sub_once and the round messages that mention   *)
(* its callers (discord_main.go:530-574, 1133-1168).                       *)
(*                                                                         *)
(* !sub_once puts a row in DISCORD_ONETIME_SUBSCRIPTIONS.  A roundstatus   *)
(* webhook of a server flushes: it empties the map                         *)
(* discord_onetime_subscriptions of ALL servers, reads the server's rows   *)
(* into it, deletes the server's rows, and then sends the message to each  *)
(* of the server's channels with the mentions the map holds for it.        *)
(*                                                                         *)
(* Every command and every webhook is a goroutine; one statement of SQL is *)
(* one step.  The map has no lock.  A clear in the middle of a callback is *)
(* one in front of or behind it, or makes it panic (ClearUnder); callbacks *)
(* that overlap lose entries of each other (CollectSub); what the runtime  *)
(* finds out (concurrent map writes) kills the process, which is Restart.  *)
(***************************************************************************)
EXTENDS Naturals, FiniteSets

CONSTANTS
    Users, Guilds, Servers,
    Channels,
    GuildOf,        \* GuildOf[c]: the guild channel c is in
    BoundTo,        \* BoundTo[c]: the server whose bot_status goes to c
    Asks,           \* goroutines running !sub_once
    Rounds,         \* goroutines running a roundstatus webhook
    MaxFaults       \* bound: failing calls and restarts of the bot

ASSUME SubscriptionsAssumption ==
    /\ GuildOf \in [Channels -> Guilds]
    /\ BoundTo \in [Channels -> Servers]
    /\ Asks \cap Rounds = {}
    /\ MaxFaults \in Nat

\* A row names the call that inserted it, so that two equal rows stay two.
Row == [user : Users, guild : Guilds, server : Servers, by : Asks]

\* A mention in the map: the row, and the flush that read it.
Mention == [row : Row, flush : Rounds]

\* A mention that was sent: also the channel, and the round message.
Notice == [row : Row, flush : Rounds, channel : Channels, by : Rounds]

VARIABLES
    rows,       \* DISCORD_ONETIME_SUBSCRIPTIONS
    memory,     \* discord_onetime_subscriptions[guild][server]
    at,         \* the step each goroutine is about to run
    key,        \* the row a !sub_once is about
    server,     \* the server of a round message
    left,       \* the rows of the query result its flush has yet to read
    channels,   \* the channels it has yet to send to
    asked,      \* ghost: every row ever inserted
    due,        \* ghost: the rows of its server when the message came
    told,       \* ghost: the mentions sent
    skipped,    \* ghost: the channels whose lookup failed
    overlap,    \* ghost: two round messages were at work at once
    raced,      \* ghost: two !sub_once of one user, guild and server were
    errors, restarts

vars == <<rows, memory, at, key, server, left, channels, asked, due, told,
          skipped, overlap, raced, errors, restarts>>

locals == <<key, server, left, channels>>
ghosts == <<asked, due, told, skipped>>
faults == <<errors, restarts>>

Stages == {"idle", "select", "create", "clear", "query", "collect", "send",
           "ended"}

Active(h) == at[h] \notin {"idle", "ended"}
Quiet == \A h \in Asks \cup Rounds : ~Active(h)

SameKey(q, r) == q.user = r.user /\ q.guild = r.guild /\ q.server = r.server

\* The goroutines go on to the steps of goes; the last conjunct of an action.
GotoAll(goes) ==
    /\ at' = goes
    /\ overlap' = (overlap \/ \E g, i \in Rounds : g # i /\ Active(g)' /\ Active(i)')
    /\ raced' = (raced \/ \E a, b \in Asks : /\ a # b /\ Active(a)' /\ Active(b)'
                                             /\ SameKey(key'[a], key'[b]))

Goto(h, next) == GotoAll([at EXCEPT ![h] = next])

Empty == [g \in Guilds |-> [s \in Servers |-> {}]]

Init ==
    /\ rows = {} /\ memory = Empty
    /\ at = [h \in Asks \cup Rounds |-> "idle"]
    /\ key \in [Asks -> Row] /\ \A a \in Asks : key[a].by = a
    /\ server \in [Rounds -> Servers]
    /\ left = [h \in Rounds |-> {}]
    /\ channels = [h \in Rounds |-> {}]
    /\ asked = {} /\ due = [h \in Rounds |-> {}] /\ told = {} /\ skipped = {}
    /\ overlap = FALSE /\ raced = FALSE
    /\ errors = 0 /\ restarts = 0

-----------------------------------------------------------------------------
(* !sub_once: subscribe_user_once.                                         *)

AskOnce(a) ==
    /\ at[a] = "idle"
    /\ UNCHANGED <<rows, memory, locals, ghosts, faults>>
    /\ Goto(a, "select")

\* Mutant: a row is created whether or not there is one.
SelectIgnored(a) ==
    /\ at[a] = "select"
    /\ UNCHANGED <<rows, memory, locals, ghosts, faults>>
    /\ Goto(a, "create")

\* "OK" at once when the caller has a row already.
SelectOnetimeSub(a) ==
    /\ at[a] = "select"
    /\ UNCHANGED <<rows, memory, locals, ghosts, faults>>
    /\ Goto(a, IF \E r \in rows : SameKey(r, key[a]) THEN "ended" ELSE "create")

CreateOnetimeSub(a) ==
    /\ at[a] = "create"
    /\ rows' = rows \cup {key[a]}
    /\ asked' = asked \cup {key[a]}
    /\ UNCHANGED <<memory, locals, due, told, skipped, faults>>
    /\ Goto(a, "ended")

-----------------------------------------------------------------------------
(* A round message: Discord_subsriber_message_send.                        *)

\* The flush is only reached when the server has a channel.
RoundStatus(h) ==
    LET own == {c \in Channels : BoundTo[c] = server[h]} IN
    /\ at[h] = "idle"
    /\ channels' = [channels EXCEPT ![h] = own]
    /\ due' = [due EXCEPT ![h] = {r \in rows : r.server = server[h]}]
    /\ UNCHANGED <<rows, memory, key, server, left, asked, told, skipped, faults>>
    /\ Goto(h, IF own = {} THEN "ended" ELSE "clear")

\* Mutant: what an earlier flush collected stays in the map.
ClearNothing(h) ==
    /\ at[h] = "clear"
    /\ UNCHANGED <<rows, memory, locals, ghosts, faults>>
    /\ Goto(h, "query")

\* Mutant: the map of a guild is dropped and never made again.
ClearGuilds(h) ==
    /\ at[h] = "clear"
    /\ memory' = [g \in {} |-> {}]
    /\ UNCHANGED <<rows, locals, ghosts, faults>>
    /\ Goto(h, "query")

ClearMemory(h) ==
    /\ at[h] = "clear"
    /\ memory' = Empty
    /\ UNCHANGED <<rows, locals, ghosts, faults>>
    /\ Goto(h, "query")

\* The clear takes the guild's map from under a callback of h, which has found
\* or made it and looks it up once more: writing to no map panics, h recovers
\* and sends its message, its rows undeleted.
ClearUnder(g, h) ==
    /\ at[g] = "clear" /\ at[h] = "collect" /\ left[h] # {}
    /\ memory' = Empty
    /\ UNCHANGED <<rows, locals, ghosts, faults>>
    /\ GotoAll([at EXCEPT ![g] = "query", ![h] = "send"])

QueryFrom(h, result) ==
    /\ at[h] = "query"
    /\ left' = [left EXCEPT ![h] = result]
    /\ UNCHANGED <<rows, memory, key, server, channels, ghosts, faults>>
    /\ Goto(h, "collect")

\* Mutant: only one row is read.
QueryFirst(h) ==
    \E r \in rows : r.server = server[h] /\ QueryFrom(h, {r})

QuerySubs(h) == QueryFrom(h, {r \in rows : r.server = server[h]})

\* Mutant: the mention is filed without its guild.
CollectEverywhere(h) ==
    \E r \in left[h] :
        /\ at[h] = "collect"
        /\ left' = [left EXCEPT ![h] = @ \ {r}]
        /\ memory' = [g \in Guilds |->
              [memory[g] EXCEPT ![r.server] = @ \cup {[row |-> r, flush |-> h]}]]
        /\ UNCHANGED <<rows, key, server, channels, ghosts, faults>>
        /\ Goto(h, "collect")

\* What the map of guild g holds of others, who are at work beside h: h's own
\* clear has left nothing older.
Others(h, g) == {m \in UNION {memory[g][s] : s \in Servers} : m.flush # h}

\* closure_callback, once for each row.  What another callback files between
\* the lookups and the write is lost: the server's line is written back without
\* it, or the guild's map replaced by the one h has made.
CollectSub(h) ==
    \E r \in left[h] : \E lost \in SUBSET Others(h, r.guild) :
        /\ at[h] = "collect"
        /\ left' = [left EXCEPT ![h] = @ \ {r}]
        /\ memory' = [memory EXCEPT ![r.guild] = [s \in Servers |->
              (@[s] \ lost) \cup {m \in {[row |-> r, flush |-> h]} : s = r.server}]]
        /\ UNCHANGED <<rows, key, server, channels, ghosts, faults>>
        /\ Goto(h, "collect")

RemoveOnetimeSubs(h) ==
    /\ at[h] = "collect" /\ left[h] = {}
    /\ rows' = {r \in rows : r.server # server[h]}
    /\ UNCHANGED <<memory, locals, ghosts, faults>>
    /\ Goto(h, "send")

\* One round of the loop over the channels; after the last one it is done.
SendTo(h, c, mentions) ==
    /\ at[h] = "send" /\ c \in channels[h]
    /\ channels' = [channels EXCEPT ![h] = @ \ {c}]
    /\ told' = told \cup {[row |-> m.row, flush |-> m.flush, channel |-> c, by |-> h] :
                             m \in mentions}
    /\ UNCHANGED <<rows, memory, key, server, left, asked, due>>
    /\ Goto(h, IF channels[h] = {c} THEN "ended" ELSE "send")

SendMessage(h, c) ==
    /\ SendTo(h, c, memory[GuildOf[c]][server[h]])
    /\ UNCHANGED <<skipped, faults>>

-----------------------------------------------------------------------------
(* Failures.                                                               *)

\* dsession.Channel or dsession.Guild fails: the loop goes on without c.
SkipChannel(h, c) ==
    /\ errors + restarts < MaxFaults
    /\ SendTo(h, c, {})
    /\ skipped' = skipped \cup {<<h, c>>}
    /\ errors' = errors + 1
    /\ UNCHANGED restarts

\* A failing statement, or Scan, panics: subscribe_user_once answers "FAIL", the
\* flush recovers and the message is sent with what the map holds by then.
StatementFails(h) ==
    /\ errors + restarts < MaxFaults
    /\ at[h] \in {"select", "create", "query", "collect"}
    /\ errors' = errors + 1
    /\ UNCHANGED <<rows, memory, locals, ghosts, restarts>>
    /\ Goto(h, IF h \in Asks THEN "ended" ELSE "send")

\* Nobody asks the result of a query for its error: when it breaks off, the
\* loop over the rows ends as if there were no more, and all are deleted.
ResultBreaksOff(h) ==
    /\ errors + restarts < MaxFaults
    /\ at[h] = "collect" /\ left[h] # {}
    /\ left' = [left EXCEPT ![h] = {}]
    /\ errors' = errors + 1
    /\ UNCHANGED <<rows, memory, key, server, channels, ghosts, restarts>>
    /\ Goto(h, "collect")

Restart ==
    /\ errors + restarts < MaxFaults
    /\ memory' = Empty
    /\ at' = [h \in Asks \cup Rounds |-> IF Active(h) THEN "ended" ELSE at[h]]
    /\ restarts' = restarts + 1
    /\ UNCHANGED <<rows, locals, ghosts, overlap, raced, errors>>

-----------------------------------------------------------------------------
Next ==
    \/ \E a \in Asks : AskOnce(a) \/ SelectOnetimeSub(a) \/ CreateOnetimeSub(a)
    \/ \E h \in Rounds : \/ RoundStatus(h) \/ ClearMemory(h) \/ QuerySubs(h)
                         \/ CollectSub(h) \/ RemoveOnetimeSubs(h) \/ ResultBreaksOff(h)
    \/ \E g, h \in Rounds : ClearUnder(g, h)
    \/ \E h \in Rounds, c \in Channels : SendMessage(h, c) \/ SkipChannel(h, c)
    \/ \E h \in Asks \cup Rounds : StatementFails(h)
    \/ Restart

Spec == Init /\ [][Next]_vars

-----------------------------------------------------------------------------
(***************************************************************************)
(* Properties.                                                             *)
(***************************************************************************)

\* The table, the map shared by all servers and the locals keep their types;
\* every guild and server can be looked up in the map at any step.
TypeOK ==
    /\ rows \subseteq Row
    /\ memory \in [Guilds -> [Servers -> SUBSET Mention]]
    /\ at \in [Asks \cup Rounds -> Stages]
    /\ key \in [Asks -> Row] /\ server \in [Rounds -> Servers]
    /\ left \in [Rounds -> SUBSET Row] /\ channels \in [Rounds -> SUBSET Channels]
    /\ asked \subseteq Row /\ due \in [Rounds -> SUBSET Row]
    /\ told \subseteq Notice /\ skipped \subseteq Rounds \X Channels
    /\ overlap \in BOOLEAN /\ raced \in BOOLEAN
    /\ errors \in Nat /\ restarts \in Nat /\ errors + restarts <= MaxFaults

\* Whatever overlaps, fails or restarts, a message of a server mentions in a
\* guild only those who asked in that guild about that server: the map is
\* shared by all of them, and any flush empties it under the others.
OnlyTheAsked ==
    \A n \in told : /\ n.row \in asked
                    /\ n.row.guild = GuildOf[n.channel]
                    /\ n.row.server = server[n.by]

\* A request is mentioned at most once in a channel, even when the bot dies
\* anywhere in between: the rows are deleted before anything is sent.  Two
\* overlapping messages, or a failing delete, do mention it again.
OncePerChannel ==
    ~overlap /\ errors = 0 =>
        \A m, n \in told : m.row = n.row /\ m.channel = n.channel => m = n

\* A message mentions a user at most once, whatever fails: subscribe_user_once
\* looks for a row first, which two calls of one user at once defeat.
NobodyTwice ==
    ~overlap /\ ~raced =>
        \A m, n \in told : /\ SameKey(m.row, n.row)
                           /\ m.channel = n.channel /\ m.by = n.by
                           => m = n

\* While round messages do not overlap, and nothing but lookups of channels
\* fails, one that has ended has mentioned every request that was there when it
\* came, in all its channels of the guild that could be looked up.
NoneForgotten ==
    ~overlap /\ errors + restarts = Cardinality(skipped) =>
        \A h \in Rounds : at[h] = "ended" =>
            \A r \in due[h], c \in Channels :
                /\ BoundTo[c] = server[h] /\ GuildOf[c] = r.guild
                /\ <<h, c>> \notin skipped
                => \E n \in told : n.row = r /\ n.channel = c /\ n.by = h

\* "tells bot to notify you next time round is about to start"
\* (discord_commands.go:990): who was told OK is in the table until a message
\* has mentioned him.
AskedIsTold ==
    Quiet => \A r \in asked : r \in rows \/ \E n \in told : n.row = r
=============================================================================
