--------------------------- MODULE ComponentsProofs ---------------------------
(***************************************************************************)
(* Proofs about the union of components, for every instance of each: any   *)
(* channels and feeds, configuration entries and nicknames, donators and   *)
(* cooldowns, texts and their newlines, messages and limits, lengths of    *)
(* requests and responses, any number of goroutines, failures and restarts.*)
(*                                                                         *)
(* A section per component finds what the component's own steps keep; the  *)
(* last section says so of the union, whose steps are those of the         *)
(* component at work (AtStart, AtWork, UnionInv).                          *)
(***************************************************************************)
EXTENDS Components, BansProofs, FiniteSetTheorems, WellFoundedInduction, TLAPS

-----------------------------------------------------------------------------
(* The union: each component starts and moves as its own module says.      *)

LEMMA AtStart ==
    ASSUME UnionInit
    PROVE  /\ part = "bans" => Init
           /\ part = "channels" => Ch!Init
           /\ part = "configs" => Co!Init
           /\ part = "donators" => Do!Init
           /\ part = "moderators" => Mo!Init
           /\ part = "embeds" => Se!Init
           /\ part = "long messages" => Lm!Init
           /\ part = "byond wire" => Bw!Init
           /\ part = "dispatch" => Di!Init
  BY DEF UnionInit, Starts

\* While a component is at work its own steps are all there is.
LEMMA AtWork ==
    ASSUME [UnionNext]_union_vars
    PROVE  /\ UNCHANGED part
           /\ part = "bans" => [Next]_vars
           /\ part = "channels" => [Ch!Next]_(Ch!vars)
           /\ part = "configs" => [Co!Next]_(Co!vars)
           /\ part = "donators" => [Do!Next]_(Do!vars)
           /\ part = "moderators" => [Mo!Next]_(Mo!vars)
           /\ part = "embeds" => [Se!Next]_(Se!vars)
           /\ part = "long messages" => [Lm!Next]_(Lm!vars)
           /\ part = "byond wire" => [Bw!Next]_(Bw!vars)
           /\ part = "dispatch" => [Di!Next]_(Di!vars)
  <1>1. CASE UnionNext
    BY <1>1 DEF UnionNext, Frame
  <1>2. CASE UNCHANGED union_vars
    BY <1>2 DEF union_vars, vars, Ch!vars, Co!vars, Do!vars, Mo!vars, Se!vars, Lm!vars, Bw!vars, Di!vars
  <1> QED
    BY <1>1, <1>2

-----------------------------------------------------------------------------
(* Finite sets of numbers have a greatest element: a smallest nonempty     *)
(* subset without one would have one when an element is taken away.        *)

Less == {p \in Nat \X Nat : p[1] < p[2]}

LEMMA HasLeast ==
    ASSUME NEW S \in SUBSET Nat, S # {}
    PROVE  \E x \in S : \A y \in S : ~(y < x)
<1>1. IsWellFoundedOn(Less, Nat)
  BY NatLessThanWellFounded DEF OpToRel, Less
<1>2. \E x \in S : \A y \in S : <<y, x>> \notin Less
  BY <1>1, WFMin
<1> QED
  BY <1>2 DEF Less

LEMMA HasGreatest ==
    ASSUME NEW S, IsFiniteSet(S), S \subseteq Int, S # {}
    PROVE  \E m \in S : \A x \in S : m >= x
<1> DEFINE Bad == {T \in SUBSET S : T # {} /\ \A m \in T : \E x \in T : ~(m >= x)}
           Sizes == {Cardinality(T) : T \in Bad}
<1> SUFFICES ASSUME Bad # {} PROVE FALSE
  OBVIOUS
<1>1. \A T \in SUBSET S : IsFiniteSet(T) /\ Cardinality(T) \in Nat
  BY FS_Subset, FS_CardinalityType
<1>2. Sizes \subseteq Nat /\ Sizes # {}
  BY <1>1
<1>3. PICK k \in Sizes : \A j \in Sizes : ~(j < k)
  BY <1>2, HasLeast
<1>4. PICK T \in Bad : Cardinality(T) = k
  BY <1>3
<1>5. PICK x \in T : TRUE
  BY <1>4
<1>6. Cardinality(T \ {x}) = Cardinality(T) - 1
  BY <1>1, <1>4, <1>5, FS_RemoveElement
<1>7. T \ {x} \notin Bad
  <2> SUFFICES ASSUME T \ {x} \in Bad PROVE FALSE
    OBVIOUS
  <2>1. k \in Nat /\ k - 1 \in Sizes
    BY <1>1, <1>4, <1>6
  <2> HIDE DEF Sizes
  <2> QED
    BY <1>3, <2>1
<1>8. \E m \in T : \A y \in T : m >= y
  <2>1. CASE T = {x}
    BY <1>4, <1>5, <2>1
  <2>2. ASSUME T # {x} PROVE \E m \in T : \A y \in T : m >= y
    <3>1. PICK m \in T \ {x} : \A y \in T \ {x} : m >= y
      BY <1>4, <1>5, <1>7, <2>2
    <3>2. T \subseteq Int
      BY <1>4
    <3>3. CASE m >= x
      BY <3>1, <3>3
    <3>4. CASE ~(m >= x)
      BY <1>5, <3>1, <3>2, <3>4
    <3> QED
      BY <3>3, <3>4
  <2> QED
    BY <2>1, <2>2
<1> QED
  BY <1>4, <1>8

LEMMA MaxIsGreatest ==
    ASSUME NEW S, IsFiniteSet(S), S \subseteq Int, S # {}
    PROVE  /\ Lm!Max(S) = Do!Max(S)
           /\ Lm!Max(S) \in S /\ \A x \in S : Lm!Max(S) >= x
  BY HasGreatest DEF Lm!Max, Do!Max

LEMMA MaxOfTwo ==
    ASSUME NEW a \in Int, NEW b \in Int
    PROVE  /\ Do!Max({a, b}) \in {a, b}
           /\ Do!Max({a, b}) >= a /\ Do!Max({a, b}) >= b
<1>1. \E m \in {a, b} : \A x \in {a, b} : m >= x
  OBVIOUS
<1> QED
  BY <1>1 DEF Do!Max

-----------------------------------------------------------------------------
(* Finite sets as the components see them, and the images of one.          *)

LEMMA FiniteSetsAgree ==
    ASSUME NEW S
    PROVE  /\ Ch!IsFiniteSet(S) <=> IsFiniteSet(S)
           /\ Ch!Cardinality(S) = Cardinality(S)
           /\ Se!Cardinality(S) = Cardinality(S)
           /\ Mo!IsFiniteSet(S) <=> IsFiniteSet(S)
           /\ Mo!Cardinality(S) = Cardinality(S)
BY DEF Ch!IsFiniteSet, Mo!IsFiniteSet, IsFiniteSet, Ch!Cardinality, Se!Cardinality, Mo!Cardinality, Cardinality

LEMMA FiniteImage ==
    ASSUME NEW S, IsFiniteSet(S), NEW f, DOMAIN f = S, f = [x \in S |-> f[x]]
    PROVE  IsFiniteSet({f[x] : x \in S})
<1> DEFINE T == {f[x] : x \in S}
<1>1. f \in [S -> T] /\ \A y \in T : \E x \in S : f[x] = y
  OBVIOUS
<1>2. f \in Surjection(S, T)
  BY <1>1 DEF Surjection
<1> HIDE DEF T
<1>3. IsFiniteSet(T)
  BY <1>2, FS_Surjection
<1> QED
  BY <1>3 DEF T

-----------------------------------------------------------------------------
(* Channels.                                                               *)
\* TypeOK without listed, which counts rows of a table not known to be finite.
ChannelTypes ==
    /\ table \subseteq Ch!Row
    /\ DOMAIN bound \subseteq Chans
    /\ \A c \in DOMAIN bound : bound[c] \in Feeds
    /\ at \in [Commands -> Ch!Stages]
    /\ job \in [Commands -> Ch!Job]
    /\ left \in [Commands -> SUBSET (Ch!Row \cup Chans)]
    /\ \A h \in Commands : /\ at[h] = "collect" => left[h] \subseteq Ch!Row
                           /\ at[h] \in {"probe", "purged"} => left[h] \subseteq Chans

\* Goroutine h is going to make channel c known.
WillKnow(h, c) ==
    \/ at[h] \in {"clear", "clear_lists", "query"}
    \/ at[h] = "collect" /\ \E q \in left[h] : q.chan = c

\* Nothing is torn: then a bound channel is known, or somebody is going to see to it.
BoundAreKnown ==
    ~torn => \A r \in table :
        r.chan \in DOMAIN bound \/ \E h \in Commands : WillKnow(h, r.chan)

ChannelInv == ChannelTypes /\ BoundAreKnown

-----------------------------------------------------------------------------
\* The start: the maps are made of the table.
LEMMA ChannelsInit == Ch!ChannelsAssumption /\ Ch!Init => ChannelInv
<1> SUFFICES ASSUME Ch!ChannelsAssumption, Ch!Init PROVE ChannelInv
  OBVIOUS
<1>1. table \subseteq Ch!Row
  BY DEF Ch!ChannelsAssumption, Ch!Init
<1>2. /\ DOMAIN bound = {r.chan : r \in table}
      /\ \A c \in DOMAIN bound : bound[c] \in Feeds
  BY DEF Ch!Init, Ch!BoundBy
<1>3. DOMAIN bound \subseteq Chans
  BY <1>1, <1>2 DEF Ch!Row
<1>4. /\ at \in [Commands -> Ch!Stages] /\ left \in [Commands -> SUBSET (Ch!Row \cup Chans)]
      /\ \A h \in Commands : at[h] = "idle"
  BY DEF Ch!Init, Ch!Stages
<1>5. job \in [Commands -> Ch!Job]
  BY DEF Ch!Init, Ch!ChannelsAssumption
<1> QED
  BY <1>1, <1>2, <1>3, <1>4, <1>5 DEF ChannelInv, ChannelTypes, BoundAreKnown

\* A step that leaves the tables and the maps alone, and takes a goroutine that
\* was not about to rebuild anything somewhere else.
LEMMA ChannelAside ==
    ASSUME ChannelInv, NEW h \in Commands, NEW next \in Ch!Stages,
           at' = [at EXCEPT ![h] = next],
           at[h] \notin {"clear", "clear_lists", "query", "collect"},
           table' \subseteq table, UNCHANGED <<bound, torn>>,
           \A g \in Commands \ {h} : left'[g] = left[g]
    PROVE  BoundAreKnown'
<1> SUFFICES ASSUME ~torn', NEW r \in table'
             PROVE  r.chan \in DOMAIN bound' \/ \E g \in Commands : WillKnow(g, r.chan)'
  BY DEF BoundAreKnown
<1>1. CASE r.chan \in DOMAIN bound
  BY <1>1
<1>2. CASE \E g \in Commands : WillKnow(g, r.chan)
  <2>1. PICK g \in Commands : WillKnow(g, r.chan)
    BY <1>2
  <2>2. g # h
    BY <2>1 DEF WillKnow
  <2>3. at'[g] = at[g] /\ left'[g] = left[g]
    BY <2>2 DEF ChannelInv, ChannelTypes
  <2> QED
    BY <2>1, <2>3 DEF WillKnow
<1> QED
  BY <1>1, <1>2 DEF ChannelInv, BoundAreKnown

\* A goroutine that rebuilds the maps from here sees to every row.
LEMMA ChannelRebuilds ==
    ASSUME ChannelTypes', NEW h \in Commands, at'[h] \in {"clear", "clear_lists", "query"}
    PROVE  BoundAreKnown'
BY DEF BoundAreKnown, WillKnow

-----------------------------------------------------------------------------
\* A command starts: it only chooses what it works on.
LEMMA ChannelBeginStep ==
    ASSUME ChannelInv, NEW h \in Commands,
           \/ Ch!ChannelHere(h) \/ Ch!ChannelRemove(h) \/ Ch!ChannelRemoveHere(h) \/ Ch!ChannelsAutopurge(h)
    PROVE  ChannelInv'
<1>1. PICK next \in {"update", "remove", "probe", "ended"} :
         at[h] = "idle" /\ at' = [at EXCEPT ![h] = next]
  BY DEF Ch!ChannelHere, Ch!ChannelRemove, Ch!ChannelRemoveHere, Ch!ChannelsAutopurge, Ch!Begin, Ch!Goto
<1>2. next \in Ch!Stages
  BY DEF Ch!Stages
<1>3. UNCHANGED <<table, bound, torn>>
  BY DEF Ch!ChannelHere, Ch!ChannelRemove, Ch!ChannelRemoveHere, Ch!ChannelsAutopurge, Ch!Begin, Ch!maps
<1>4. left' = left \/ left' = [left EXCEPT ![h] = DOMAIN bound]
  BY DEF Ch!ChannelHere, Ch!ChannelRemove, Ch!ChannelRemoveHere, Ch!ChannelsAutopurge
<1>5. next = "probe" => left' = [left EXCEPT ![h] = DOMAIN bound]
  BY <1>1 DEF Ch!ChannelHere, Ch!ChannelRemove, Ch!ChannelRemoveHere, Ch!ChannelsAutopurge, Ch!Begin, Ch!Goto,
              ChannelInv, ChannelTypes
<1>6. job' \in [Commands -> Ch!Job]
  <2>1. CASE job' = job
    BY <2>1 DEF ChannelInv, ChannelTypes
  <2>2. CASE job' = [job EXCEPT ![h].feed = bound[job[h].chan]]
             /\ job[h].chan \in DOMAIN bound
    BY <2>2 DEF ChannelInv, ChannelTypes, Ch!Job
  <2> QED
    BY <2>1, <2>2 DEF Ch!ChannelHere, Ch!ChannelRemove, Ch!ChannelRemoveHere, Ch!ChannelsAutopurge
<1>7. at' \in [Commands -> Ch!Stages] /\ \A g \in Commands \ {h} : at'[g] = at[g] /\ left'[g] = left[g]
  BY <1>1, <1>2, <1>4 DEF ChannelInv, ChannelTypes
<1>8. left' \in [Commands -> SUBSET (Ch!Row \cup Chans)]
  BY <1>4 DEF ChannelInv, ChannelTypes
<1>9. at'[h] = next /\ (next = "probe" => left'[h] \subseteq Chans)
  BY <1>1, <1>5 DEF ChannelInv, ChannelTypes
<1>10. ChannelTypes'
  BY <1>3, <1>6, <1>7, <1>8, <1>9 DEF ChannelInv, ChannelTypes
<1>11. BoundAreKnown'
  BY <1>1, <1>2, <1>3, <1>7, ChannelAside
<1> QED
  BY <1>10, <1>11 DEF ChannelInv

\* A statement changes the table: rows come and change only before a rebuild.
LEMMA ChannelTableStep ==
    ASSUME ChannelInv, NEW h \in Commands, Ch!UpdateChannel(h) \/ Ch!AddChannel(h) \/ Ch!RemoveChannels(h)
    PROVE  ChannelInv'
<1>1. job[h] \in Ch!Job /\ job[h].feed \in Feeds /\ job[h].chan \in Chans
  BY DEF ChannelInv, ChannelTypes, Ch!Job
<1>2. Ch!OwnRows(h) \subseteq table /\ table \subseteq Ch!Row
  BY DEF Ch!OwnRows, ChannelInv, ChannelTypes
<1>3. PICK next \in {"clear", "add", "ended"} :
         /\ at[h] \in {"update", "add", "remove"}
         /\ at' = [at EXCEPT ![h] = next]
         /\ UNCHANGED <<bound, torn, left, job>>
         /\ table' \subseteq Ch!Row
         /\ next = "clear" \/ table' \subseteq table
  <2>1. CASE Ch!UpdateChannel(h)
    <3>1. {[r EXCEPT !.chan = job[h].chan] : r \in Ch!OwnRows(h)} \subseteq Ch!Row
      BY <1>1, <1>2 DEF Ch!Row
    <3> QED
      BY <1>2, <2>1, <3>1 DEF Ch!UpdateChannel, Ch!ChangeTable, Ch!Goto, Ch!maps
  <2>2. CASE Ch!AddChannel(h)
    <3>1. PICK i \in Ids :
             Ch!ChangeTable(h, "add", {}, {[id |-> i, feed |-> job[h].feed, chan |-> job[h].chan]},
                         "clear")
      BY <2>2 DEF Ch!AddChannel, Ch!AddThen
    <3>2. [id |-> i, feed |-> job[h].feed, chan |-> job[h].chan] \in Ch!Row
      BY <1>1 DEF Ch!Row
    <3> QED
      BY <1>2, <3>1, <3>2 DEF Ch!ChangeTable, Ch!Goto, Ch!maps
  <2>3. CASE Ch!RemoveChannels(h)
    BY <1>2, <2>3 DEF Ch!RemoveChannels, Ch!ChangeTable, Ch!Goto, Ch!maps
  <2> QED
    BY <2>1, <2>2, <2>3
<1>4. next \in Ch!Stages
  BY DEF Ch!Stages
<1>5. ChannelTypes'
  BY <1>3, <1>4 DEF ChannelInv, ChannelTypes
<1>6. at'[h] = next
  BY <1>3 DEF ChannelInv, ChannelTypes
<1>7. CASE next = "clear"
  BY <1>5, <1>6, <1>7, ChannelRebuilds DEF ChannelInv
<1>8. CASE table' \subseteq table
  <2>1. BoundAreKnown'
    BY <1>3, <1>4, <1>8, ChannelAside
  <2> QED
    BY <1>5, <2>1 DEF ChannelInv
<1> QED
  BY <1>3, <1>7, <1>8

\* The purge: channels that cannot be written to lose their rows.
LEMMA ChannelPurgeStep ==
    ASSUME ChannelInv, NEW h \in Commands, Ch!ProbeChannel(h)
    PROVE  ChannelInv'
<1>1. PICK c \in left[h], next \in {"probe", "purged", "clear", "ended"} :
         /\ at[h] \in {"probe", "purged"}
         /\ at' = [at EXCEPT ![h] = next]
         /\ left' = [left EXCEPT ![h] = @ \ {c}]
         /\ UNCHANGED <<bound, torn, job>>
         /\ table' \subseteq table
  BY DEF Ch!ProbeChannel, Ch!Goto, Ch!maps
<1>2. next \in Ch!Stages
  BY DEF Ch!Stages
<1>3. left' \in [Commands -> SUBSET (Ch!Row \cup Chans)] /\ left'[h] \subseteq Chans
      /\ \A g \in Commands \ {h} : left'[g] = left[g]
  BY <1>1 DEF ChannelInv, ChannelTypes
<1>4. at' \in [Commands -> Ch!Stages] /\ at'[h] = next
      /\ \A g \in Commands \ {h} : at'[g] = at[g]
  BY <1>1, <1>2 DEF ChannelInv, ChannelTypes
<1>5. ChannelTypes'
  BY <1>1, <1>3, <1>4 DEF ChannelInv, ChannelTypes
<1>6. BoundAreKnown'
  BY <1>1, <1>2, <1>3, ChannelAside
<1> QED
  BY <1>5, <1>6 DEF ChannelInv

-----------------------------------------------------------------------------
\* The rebuild up to its query: h itself will make every channel known.
LEMMA ChannelClearStep ==
    ASSUME ChannelInv, NEW h \in Commands, Ch!ClearBound(h) \/ Ch!ClearListed(h)
    PROVE  ChannelInv'
<1>1. PICK next \in {"clear_lists", "query"} : at' = [at EXCEPT ![h] = next]
  BY DEF Ch!ClearBound, Ch!ClearListed, Ch!Goto
<1>2. next \in Ch!Stages
  BY DEF Ch!Stages
<1>3. UNCHANGED <<table, job, left>>
  BY DEF Ch!ClearBound, Ch!ClearListed
<1>4. bound' = bound \/ DOMAIN bound' = {}
  BY DEF Ch!ClearBound, Ch!ClearListed
<1>5. ChannelTypes' /\ at'[h] = next
  BY <1>1, <1>2, <1>3, <1>4 DEF ChannelInv, ChannelTypes
<1> QED
  BY <1>5, ChannelRebuilds DEF ChannelInv

LEMMA ChannelQueryStep ==
    ASSUME ChannelInv, NEW h \in Commands, Ch!QueryChannels(h)
    PROVE  ChannelInv'
<1>1. PICK next \in {"collect", "ended"} :
         /\ at' = [at EXCEPT ![h] = next]
         /\ next = "ended" => table = {}
  BY DEF Ch!QueryChannels, Ch!Goto
<1>2. next \in Ch!Stages
  BY DEF Ch!Stages
<1>3. left' = [left EXCEPT ![h] = table] /\ UNCHANGED <<table, bound, job, torn>>
  BY DEF Ch!QueryChannels, Ch!maps
<1>4. left' \in [Commands -> SUBSET (Ch!Row \cup Chans)] /\ left'[h] = table
      /\ \A g \in Commands \ {h} : left'[g] = left[g]
  BY <1>3 DEF ChannelInv, ChannelTypes
<1>5. at' \in [Commands -> Ch!Stages] /\ at'[h] = next
      /\ \A g \in Commands \ {h} : at'[g] = at[g]
  BY <1>1, <1>2 DEF ChannelInv, ChannelTypes
<1>6. ChannelTypes'
  BY <1>3, <1>4, <1>5 DEF ChannelInv, ChannelTypes
<1>7. BoundAreKnown'
  BY <1>1, <1>3, <1>4, <1>5 DEF BoundAreKnown, WillKnow
<1> QED
  BY <1>6, <1>7 DEF ChannelInv

\* One row: it is known now, and the others that only h will see to still wait.
LEMMA ChannelCollectStep ==
    ASSUME ChannelInv, NEW h \in Commands, Ch!CollectChannel(h)
    PROVE  ChannelInv'
<1>1. PICK r \in left[h] : Ch!Collect(h, r)
  BY DEF Ch!CollectChannel
<1>2. at[h] = "collect" /\ r \in Ch!Row /\ r.chan \in Chans /\ r.feed \in Feeds
  BY <1>1 DEF Ch!Collect, ChannelInv, ChannelTypes, Ch!Row
<1>3. PICK next \in {"collect", "ended"} :
         /\ at' = [at EXCEPT ![h] = next]
         /\ next = "ended" => left[h] = {r}
  BY <1>1 DEF Ch!Collect, Ch!Goto
<1>4. next \in Ch!Stages
  BY DEF Ch!Stages
<1>5. /\ DOMAIN bound' = DOMAIN bound \cup {r.chan}
      /\ \A c \in DOMAIN bound' : bound'[c] = r.feed \/ (c \in DOMAIN bound /\ bound'[c] = bound[c])
  BY <1>1 DEF Ch!Collect
<1>6. left' = [left EXCEPT ![h] = @ \ {r}] /\ UNCHANGED <<table, job, torn>>
  BY <1>1 DEF Ch!Collect
<1>7. left' \in [Commands -> SUBSET (Ch!Row \cup Chans)] /\ left'[h] = left[h] \ {r}
      /\ \A g \in Commands \ {h} : left'[g] = left[g]
  BY <1>6 DEF ChannelInv, ChannelTypes
<1>8. at' \in [Commands -> Ch!Stages] /\ at'[h] = next
      /\ \A g \in Commands \ {h} : at'[g] = at[g]
  BY <1>3, <1>4 DEF ChannelInv, ChannelTypes
<1>9. ChannelTypes'
  <2>1. DOMAIN bound' \subseteq Chans /\ \A c \in DOMAIN bound' : bound'[c] \in Feeds
    BY <1>2, <1>5 DEF ChannelInv, ChannelTypes
  <2> QED
    BY <1>2, <1>6, <1>7, <1>8, <2>1 DEF ChannelInv, ChannelTypes
<1>10. BoundAreKnown'
  <2> SUFFICES ASSUME ~torn', NEW q \in table'
               PROVE  q.chan \in DOMAIN bound' \/ \E g \in Commands : WillKnow(g, q.chan)'
    BY DEF BoundAreKnown
  <2>1. CASE q.chan \in DOMAIN bound
    BY <1>5, <2>1
  <2>2. CASE \E g \in Commands : WillKnow(g, q.chan)
    <3>1. PICK g \in Commands : WillKnow(g, q.chan)
      BY <2>2
    <3>2. CASE g # h
      BY <1>7, <1>8, <3>1, <3>2 DEF WillKnow
    <3>3. CASE g = h
      <4>1. PICK p \in left[h] : p.chan = q.chan
        BY <1>2, <3>1, <3>3 DEF WillKnow
      <4>2. CASE p = r
        BY <1>5, <4>1, <4>2
      <4>3. CASE p # r
        <5>1. p \in left'[h] /\ at'[h] = "collect"
          BY <1>3, <1>7, <1>8, <4>1, <4>3
        <5> QED
          BY <4>1, <5>1 DEF WillKnow
      <4> QED
        BY <4>2, <4>3
    <3> QED
      BY <3>2, <3>3
  <2> QED
    BY <1>6, <2>1, <2>2 DEF ChannelInv, BoundAreKnown
<1> QED
  BY <1>9, <1>10 DEF ChannelInv

-----------------------------------------------------------------------------
\* Only the failure of a rebuild, or of a purge, leaves a row unknown: it tears.
LEMMA ChannelFailStep ==
    ASSUME ChannelInv, NEW h \in Commands, Ch!StatementFails(h)
    PROVE  ChannelInv'
<1>1. /\ at' = [at EXCEPT ![h] = "ended"] /\ "ended" \in Ch!Stages
      /\ at[h] \notin {"clear", "clear_lists"}
      /\ UNCHANGED <<table, bound, job, left>>
      /\ torn' = (torn \/ at[h] \in {"query", "collect", "purged"})
  BY DEF Ch!StatementFails, Ch!Goto, Ch!maps, Ch!Stages
<1>2. ChannelTypes'
  BY <1>1 DEF ChannelInv, ChannelTypes
<1>3. CASE torn'
  BY <1>2, <1>3 DEF ChannelInv, BoundAreKnown
<1>4. CASE ~torn'
  <2>1. ~torn /\ at[h] \notin {"query", "collect", "purged"}
    BY <1>1, <1>4
  <2>2. \A g \in Commands, c \in Chans : WillKnow(g, c) => WillKnow(g, c)'
    BY <1>1, <2>1 DEF ChannelInv, ChannelTypes, WillKnow
  <2>3. \A r \in table : r.chan \in Chans
    BY DEF ChannelInv, ChannelTypes, Ch!Row
  <2> QED
    BY <1>1, <1>2, <2>1, <2>2, <2>3 DEF ChannelInv, BoundAreKnown
<1> QED
  BY <1>3, <1>4

LEMMA ChannelRestartStep == ASSUME ChannelInv, Ch!Restart PROVE ChannelInv'
<1>1. /\ DOMAIN bound' = {r.chan : r \in table}
      /\ \A c \in DOMAIN bound' : bound'[c] \in Feeds
      /\ UNCHANGED <<table, job, left>>
  BY DEF Ch!Restart, Ch!BoundBy
<1>2. DOMAIN bound' \subseteq Chans
  BY <1>1 DEF ChannelInv, ChannelTypes, Ch!Row
<1>3. at' \in [Commands -> Ch!Stages] /\ \A h \in Commands : at'[h] \in {"idle", "ended"}
  BY DEF Ch!Restart, ChannelInv, ChannelTypes, Ch!Active, Ch!Stages
<1> QED
  BY <1>1, <1>2, <1>3 DEF ChannelInv, ChannelTypes, BoundAreKnown

\* Every step keeps Inv.
LEMMA ChannelsNext == ChannelInv /\ [Ch!Next]_(Ch!vars) => ChannelInv'
<1> SUFFICES ASSUME ChannelInv, [Ch!Next]_(Ch!vars) PROVE ChannelInv'
  OBVIOUS
<1>1. ASSUME NEW h \in Commands,
             \/ Ch!ChannelHere(h) \/ Ch!ChannelRemove(h) \/ Ch!ChannelRemoveHere(h) \/ Ch!ChannelsAutopurge(h)
      PROVE  ChannelInv'
  BY <1>1, ChannelBeginStep
<1>2. ASSUME NEW h \in Commands, Ch!UpdateChannel(h) \/ Ch!AddChannel(h) \/ Ch!RemoveChannels(h)
      PROVE  ChannelInv'
  BY <1>2, ChannelTableStep
<1>3. ASSUME NEW h \in Commands, Ch!ProbeChannel(h) PROVE ChannelInv'
  BY <1>3, ChannelPurgeStep
<1>4. ASSUME NEW h \in Commands, Ch!ClearBound(h) \/ Ch!ClearListed(h) PROVE ChannelInv'
  BY <1>4, ChannelClearStep
<1>5. ASSUME NEW h \in Commands, Ch!QueryChannels(h) PROVE ChannelInv'
  BY <1>5, ChannelQueryStep
<1>6. ASSUME NEW h \in Commands, Ch!CollectChannel(h) PROVE ChannelInv'
  BY <1>6, ChannelCollectStep
<1>7. ASSUME NEW h \in Commands, Ch!StatementFails(h) PROVE ChannelInv'
  BY <1>7, ChannelFailStep
<1>8. CASE Ch!Restart
  BY <1>8, ChannelRestartStep
<1>9. CASE UNCHANGED Ch!vars
  BY <1>9 DEF Ch!vars, ChannelInv, ChannelTypes, BoundAreKnown, WillKnow
<1> QED
  BY <1>1, <1>2, <1>3, <1>4, <1>5, <1>6, <1>7, <1>8, <1>9 DEF Ch!Next
-----------------------------------------------------------------------------
(* Channels: the lists count the rows.                                     *)

\* Rows are counted, and the lists count too.
ListTypes ==
    /\ IsFiniteSet(table)
    /\ \A h \in Commands : at[h] = "collect" => IsFiniteSet(left[h])
    /\ bound = [c \in DOMAIN bound |-> bound[c]]
    /\ listed \in [Feeds -> [Chans -> Nat]]
    /\ mixed \in BOOLEAN /\ torn \in BOOLEAN
    /\ errors \in Nat /\ restarts \in Nat

\* What mixed says: one goroutine at a time rebuilds the maps.
OnePopulates ==
    ~mixed => \A g, h \in Commands : Ch!Populates(g) /\ Ch!Populates(h) => g = h

\* The lists are short of table t by the rows in rest.
ShortOf(t, rest) ==
    \A f \in Feeds, c \in Chans : listed[f][c] + Ch!Bindings(rest, f, c) = Ch!Bindings(t, f, c)

QueryStartsAfresh ==
    ~mixed => \A h \in Commands : at[h] = "query" => listed = Ch!ListedBy({})

\* A rebuild that has not read the table yet makes all good again.
Rebuilding == \E g \in Commands : at[g] \in {"purged", "clear", "clear_lists", "query"}

\* Otherwise whoever collects holds the rows that are missing.
ListsFollow ==
    ~mixed /\ ~torn =>
        \/ Rebuilding
        \/ \E h \in Commands : at[h] = "collect" /\ ShortOf(table, left[h])
        \/ (\A h \in Commands : at[h] # "collect") /\ ShortOf(table, {})

ListInv == ChannelInv /\ ListTypes /\ OnePopulates /\ QueryStartsAfresh /\ ListsFollow

-----------------------------------------------------------------------------
LEMMA BindingsCount ==
    ASSUME NEW t, IsFiniteSet(t), NEW f, NEW c
    PROVE  /\ Ch!Bindings(t, f, c) \in Nat /\ Ch!Bindings({}, f, c) = 0
           /\ \A r \in t : Ch!Bindings(t \ {r}, f, c) =
                IF r.feed = f /\ r.chan = c THEN Ch!Bindings(t, f, c) - 1 ELSE Ch!Bindings(t, f, c)
<1> DEFINE B(s) == {r \in s : r.feed = f /\ r.chan = c}
<1>1. IsFiniteSet(B(t)) /\ Cardinality(B(t)) \in Nat
  BY FS_Subset, FS_CardinalityType
<1>2. \A s : Ch!Bindings(s, f, c) = Cardinality(B(s))
  BY FiniteSetsAgree DEF Ch!Bindings
<1>3. B({}) = {} /\ Cardinality({}) = 0
  BY FS_EmptySet
<1>4. ASSUME NEW r \in t
      PROVE  Cardinality(B(t \ {r})) =
                IF r.feed = f /\ r.chan = c THEN Cardinality(B(t)) - 1 ELSE Cardinality(B(t))
  <2>1. B(t \ {r}) = B(t) \ {r} /\ (r \in B(t) <=> r.feed = f /\ r.chan = c)
    OBVIOUS
  <2> HIDE DEF B
  <2>2. Cardinality(B(t) \ {r}) = IF r \in B(t) THEN Cardinality(B(t)) - 1 ELSE Cardinality(B(t))
    BY <1>1, FS_RemoveElement
  <2> QED
    BY <2>1, <2>2
<1> HIDE DEF B
<1> QED
  BY <1>1, <1>2, <1>3, <1>4

\* The lists made of a table count it.
LEMMA ListedCounts ==
    ASSUME NEW t, IsFiniteSet(t), listed = Ch!ListedBy(t)
    PROVE  listed \in [Feeds -> [Chans -> Nat]] /\ ShortOf(t, {})
<1>1. \A f \in Feeds, c \in Chans :
         /\ Ch!Bindings(t, f, c) \in Nat /\ Ch!Bindings({}, f, c) = 0
         /\ listed[f][c] = Ch!Bindings(t, f, c)
  BY BindingsCount DEF Ch!ListedBy
<1> QED
  BY <1>1 DEF Ch!ListedBy, ShortOf

LEMMA ListsInit == Ch!ChannelsAssumption /\ Ch!Init => ListInv
<1> SUFFICES ASSUME Ch!ChannelsAssumption, Ch!Init PROVE ListInv
  OBVIOUS
<1>1. /\ IsFiniteSet(table) /\ listed = Ch!ListedBy(table)
      /\ bound = [c \in DOMAIN bound |-> bound[c]]
  BY FiniteSetsAgree DEF Ch!Init, Ch!ChannelsAssumption, Ch!BoundBy
<1>2. listed \in [Feeds -> [Chans -> Nat]] /\ ShortOf(table, {})
  BY <1>1, ListedCounts
<1>3. \A h \in Commands : at[h] = "idle"
  BY DEF Ch!Init
<1> QED
  BY <1>1, <1>2, <1>3, ChannelsInit
  DEF Ch!Init, ListInv, ListTypes, OnePopulates, Ch!Populates, QueryStartsAfresh, ListsFollow

\* A goroutine goes on: mixed tells when it is not alone in a rebuild.
LEMMA PopulateGoto ==
    ASSUME ListInv, NEW h \in Commands, NEW next \in Ch!Stages, Ch!Goto(h, next)
    PROVE  /\ at' \in [Commands -> Ch!Stages] /\ at'[h] = next
           /\ \A g \in Commands : g # h => at'[g] = at[g]
           /\ mixed' \in BOOLEAN /\ (mixed => mixed') /\ OnePopulates'
           /\ ~mixed' /\ next \in {"clear_lists", "query", "collect"} =>
                \A g \in Commands \ {h} : ~Ch!Populates(g)
<1>1. /\ at' = [at EXCEPT ![h] = next]
      /\ mixed' = (mixed \/ \E g \in Commands \ {h} : Ch!Populates(g) /\ Ch!Populates(h)')
  BY DEF Ch!Goto
<1>2. /\ at' \in [Commands -> Ch!Stages] /\ at'[h] = next
      /\ \A g \in Commands : g # h => at'[g] = at[g]
  BY <1>1 DEF ListInv, ChannelInv, ChannelTypes
<1>3. mixed \in BOOLEAN /\ mixed' \in BOOLEAN /\ (mixed => mixed')
  BY <1>1 DEF ListInv, ListTypes
<1>4. \A g \in Commands : g # h => (Ch!Populates(g)' <=> Ch!Populates(g))
  BY <1>2 DEF Ch!Populates
<1>5. Ch!Populates(h)' <=> next \in {"clear_lists", "query", "collect"}
  BY <1>2 DEF Ch!Populates
<1>6. ~mixed' /\ Ch!Populates(h)' => \A g \in Commands \ {h} : ~Ch!Populates(g)
  BY <1>1
<1>7. OnePopulates'
  <2> SUFFICES ASSUME ~mixed', NEW g \in Commands, NEW k \in Commands,
                      Ch!Populates(g)', Ch!Populates(k)'
               PROVE  g = k
    BY DEF OnePopulates
  <2>1. CASE g # h /\ k # h
    BY <1>3, <1>4, <2>1 DEF ListInv, OnePopulates
  <2>2. CASE g = h \/ k = h
    BY <1>4, <1>6, <2>2
  <2> QED
    BY <2>1, <2>2
<1> QED
  BY <1>2, <1>3, <1>5, <1>6, <1>7

\* Steps of h outside a rebuild that leave the lists alone, and change the table
\* only when h is going to rebuild.
LEMMA ListsAside ==
    ASSUME ListInv, NEW h \in Commands, NEW next \in Ch!Stages, Ch!Goto(h, next),
           at[h] \in {"idle", "update", "add", "remove", "probe", "purged"},
           next \notin {"clear_lists", "query", "collect"},
           UNCHANGED <<listed, torn>>,
           \A g \in Commands \ {h} : left'[g] = left[g],
           next \in {"purged", "clear"} \/ (table' = table /\ (at[h] = "purged" => torn))
    PROVE  OnePopulates' /\ QueryStartsAfresh' /\ ListsFollow'
<1>1. /\ at'[h] = next
      /\ \A g \in Commands : g # h => at'[g] = at[g]
      /\ (mixed => mixed') /\ OnePopulates'
  BY PopulateGoto
<1>2. QueryStartsAfresh'
  BY <1>1 DEF ListInv, QueryStartsAfresh
<1>3. ListsFollow'
  <2> SUFFICES ASSUME ~mixed', ~torn', next \notin {"purged", "clear"} PROVE ListsFollow'
    BY <1>1 DEF ListsFollow, Rebuilding
  <2>1. ~mixed /\ ~torn /\ table' = table /\ at[h] # "purged"
    BY <1>1
  <2>2. CASE Rebuilding
    <3>1. PICK g \in Commands : at[g] \in {"purged", "clear", "clear_lists", "query"}
      BY <2>2 DEF Rebuilding
    <3>2. g # h /\ at'[g] = at[g]
      BY <1>1, <2>1, <3>1
    <3> QED
      BY <3>1, <3>2 DEF ListsFollow, Rebuilding
  <2>3. CASE \E k \in Commands : at[k] = "collect" /\ ShortOf(table, left[k])
    <3>1. PICK k \in Commands : at[k] = "collect" /\ ShortOf(table, left[k])
      BY <2>3
    <3>2. at'[k] = "collect" /\ left'[k] = left[k]
      BY <1>1, <3>1
    <3> QED
      BY <2>1, <3>1, <3>2 DEF ListsFollow, ShortOf
  <2>4. CASE (\A k \in Commands : at[k] # "collect") /\ ShortOf(table, {})
    BY <1>1, <2>1, <2>4 DEF ListsFollow, ShortOf
  <2> QED
    BY <2>1, <2>2, <2>3, <2>4 DEF ListInv, ListsFollow
<1> QED
  BY <1>1, <1>2, <1>3

-----------------------------------------------------------------------------
\* What a step of a command does to rows and lists before it rebuilds.
LEMMA ListsCommandStep ==
    ASSUME ListInv, ChannelInv', NEW h \in Commands,
           \/ Ch!ChannelHere(h) \/ Ch!ChannelRemove(h) \/ Ch!ChannelRemoveHere(h) \/ Ch!ChannelsAutopurge(h)
           \/ Ch!UpdateChannel(h) \/ Ch!AddChannel(h) \/ Ch!RemoveChannels(h)
    PROVE  ListInv'
<1>1. PICK next \in Ch!Stages :
         /\ Ch!Goto(h, next)
         /\ at[h] \in {"idle", "update", "add", "remove"}
         /\ next \notin {"clear_lists", "query", "collect"}
         /\ \A g \in Commands \ {h} : left'[g] = left[g]
         /\ UNCHANGED <<bound, listed, torn, errors, restarts>>
         /\ IsFiniteSet(table')
         /\ next = "clear" \/ table' = table
  <2>1. CASE \/ Ch!ChannelHere(h) \/ Ch!ChannelRemove(h) \/ Ch!ChannelRemoveHere(h) \/ Ch!ChannelsAutopurge(h)
    <3>1. PICK next \in {"update", "remove", "probe", "ended"} :
             at[h] = "idle" /\ Ch!Goto(h, next) /\ UNCHANGED <<table, bound, listed, torn, errors, restarts>>
      BY <2>1 DEF Ch!ChannelHere, Ch!ChannelRemove, Ch!ChannelRemoveHere, Ch!ChannelsAutopurge, Ch!Begin,
                  Ch!maps, Ch!faults
    <3>2. \A g \in Commands \ {h} : left'[g] = left[g]
      <4>1. left' = left \/ left' = [left EXCEPT ![h] = DOMAIN bound]
        BY <2>1 DEF Ch!ChannelHere, Ch!ChannelRemove, Ch!ChannelRemoveHere, Ch!ChannelsAutopurge
      <4> QED
        BY <4>1 DEF ListInv, ChannelInv, ChannelTypes
    <3>3. next \in Ch!Stages
      BY DEF Ch!Stages
    <3> QED
      BY <3>1, <3>2, <3>3 DEF ListInv, ListTypes
  <2>2. CASE Ch!UpdateChannel(h)
    <3> DEFINE old == Ch!OwnRows(h)
               f == [r \in old |-> [r EXCEPT !.chan = job[h].chan]]
    <3>1. IsFiniteSet(old)
      BY FS_Subset DEF ListInv, ListTypes, Ch!OwnRows
    <3>2. IsFiniteSet({f[r] : r \in old})
      <4>1. DOMAIN f = old /\ f = [r \in old |-> f[r]]
        OBVIOUS
      <4> HIDE DEF f, old
      <4> QED
        BY <3>1, <4>1, FiniteImage
    <3>3. {f[r] : r \in old} = {[r EXCEPT !.chan = job[h].chan] : r \in old}
      OBVIOUS
    <3>4. IsFiniteSet((table \ old) \cup {f[r] : r \in old})
      <4>1. IsFiniteSet(table \ old)
        BY FS_Subset DEF ListInv, ListTypes
      <4> HIDE DEF f, old
      <4> QED
        BY <3>2, <4>1, FS_Union
    <3>5. /\ at[h] = "update" /\ table' = (table \ old) \cup {f[r] : r \in old}
          /\ Ch!Goto(h, IF old # {} THEN "clear" ELSE "add")
          /\ UNCHANGED <<bound, listed, left, torn, errors, restarts>>
      BY <2>2, <3>3 DEF Ch!UpdateChannel, Ch!ChangeTable, Ch!maps, Ch!faults
    <3>6. CASE old # {}
      <4>1. "clear" \in Ch!Stages /\ Ch!Goto(h, "clear")
        BY <3>5, <3>6 DEF Ch!Stages
      <4> HIDE DEF f, old
      <4> QED
        BY <3>4, <3>5, <4>1
    <3>7. CASE old = {}
      <4>1. "add" \in Ch!Stages /\ Ch!Goto(h, "add") /\ table' = table
        BY <3>5, <3>7 DEF Ch!Stages
      <4> QED
        BY <3>5, <4>1 DEF ListInv, ListTypes
    <3> QED
      BY <3>6, <3>7
  <2>3. CASE Ch!AddChannel(h)
    <3>1. PICK i \in Ids :
             Ch!ChangeTable(h, "add", {}, {[id |-> i, feed |-> job[h].feed, chan |-> job[h].chan]},
                         "clear")
      BY <2>3 DEF Ch!AddChannel, Ch!AddThen
    <3> DEFINE r == [id |-> i, feed |-> job[h].feed, chan |-> job[h].chan]
    <3>2. /\ at[h] = "add" /\ table' = table \cup {r} /\ Ch!Goto(h, "clear")
          /\ UNCHANGED <<bound, listed, left, torn, errors, restarts>>
      BY <3>1 DEF Ch!ChangeTable, Ch!maps, Ch!faults
    <3> HIDE DEF r
    <3>3. IsFiniteSet(table')
      BY <3>2, FS_AddElement DEF ListInv, ListTypes
    <3>4. "clear" \in Ch!Stages
      BY DEF Ch!Stages
    <3> QED
      BY <3>2, <3>3, <3>4
  <2>4. CASE Ch!RemoveChannels(h)
    <3>1. /\ at[h] = "remove" /\ table' = table \ Ch!OwnRows(h)
          /\ Ch!Goto(h, IF Ch!OwnRows(h) # {} THEN "clear" ELSE "ended")
          /\ UNCHANGED <<bound, listed, left, torn, errors, restarts>>
      BY <2>4 DEF Ch!RemoveChannels, Ch!ChangeTable, Ch!maps, Ch!faults
    <3>2. IsFiniteSet(table')
      BY <3>1, FS_Subset DEF ListInv, ListTypes
    <3>3. CASE Ch!OwnRows(h) # {}
      <4>1. "clear" \in Ch!Stages /\ Ch!Goto(h, "clear")
        BY <3>1, <3>3 DEF Ch!Stages
      <4> QED
        BY <3>1, <3>2, <4>1
    <3>4. CASE Ch!OwnRows(h) = {}
      <4>1. "ended" \in Ch!Stages /\ Ch!Goto(h, "ended") /\ table' = table
        BY <3>1, <3>4 DEF Ch!Stages
      <4> QED
        BY <3>1, <3>2, <4>1
    <3> QED
      BY <3>3, <3>4
  <2> QED
    BY <2>1, <2>2, <2>3, <2>4
<1>2. /\ at'[h] = next /\ \A g \in Commands : g # h => at'[g] = at[g]
      /\ mixed' \in BOOLEAN
  BY <1>1, PopulateGoto
<1>3. OnePopulates' /\ QueryStartsAfresh' /\ ListsFollow'
  BY <1>1, ListsAside
<1>4. ListTypes'
  BY <1>1, <1>2 DEF ListInv, ListTypes
<1> QED
  BY <1>3, <1>4 DEF ListInv

LEMMA ListsPurgeStep ==
    ASSUME ListInv, ChannelInv', NEW h \in Commands, Ch!ProbeChannel(h) PROVE ListInv'
<1>1. PICK next \in {"probe", "purged", "clear", "ended"} :
         /\ Ch!Goto(h, next)
         /\ at[h] \in {"probe", "purged"}
         /\ \A g \in Commands \ {h} : left'[g] = left[g]
         /\ UNCHANGED <<bound, listed, torn, errors, restarts>>
         /\ table' \subseteq table
         /\ next \in {"purged", "clear"} \/ (table' = table /\ at[h] # "purged")
  <2>1. PICK c \in left[h] :
           /\ at[h] \in {"probe", "purged"}
           /\ left' = [left EXCEPT ![h] = @ \ {c}]
           /\ UNCHANGED <<bound, listed, torn, errors, restarts>>
           /\ \/ /\ UNCHANGED table
                 /\ Ch!Goto(h, IF left[h] # {c} THEN at[h]
                               ELSE IF at[h] = "purged" THEN "clear" ELSE "ended")
              \/ /\ table' = {r \in table : r.chan # c}
                 /\ Ch!Goto(h, IF left[h] # {c} THEN "purged" ELSE "clear")
    BY DEF Ch!ProbeChannel, Ch!maps, Ch!faults
  <2>2. \A g \in Commands \ {h} : left'[g] = left[g]
    BY <2>1 DEF ListInv, ChannelInv, ChannelTypes
  <2>3. CASE /\ UNCHANGED table
             /\ Ch!Goto(h, IF left[h] # {c} THEN at[h]
                           ELSE IF at[h] = "purged" THEN "clear" ELSE "ended")
    BY <2>1, <2>2, <2>3
  <2>4. CASE /\ table' = {r \in table : r.chan # c}
             /\ Ch!Goto(h, IF left[h] # {c} THEN "purged" ELSE "clear")
    BY <2>1, <2>2, <2>4
  <2> QED
    BY <2>1, <2>3, <2>4
<1>2. next \in Ch!Stages
  BY DEF Ch!Stages
<1>3. /\ at'[h] = next /\ \A g \in Commands : g # h => at'[g] = at[g]
      /\ mixed' \in BOOLEAN
  BY <1>1, <1>2, PopulateGoto
<1>4. OnePopulates' /\ QueryStartsAfresh' /\ ListsFollow'
  BY <1>1, <1>2, ListsAside
<1>5. IsFiniteSet(table')
  BY <1>1, FS_Subset DEF ListInv, ListTypes
<1>6. ListTypes'
  BY <1>1, <1>3, <1>5 DEF ListInv, ListTypes
<1> QED
  BY <1>4, <1>6 DEF ListInv

-----------------------------------------------------------------------------
\* The rebuild: clear, clear, query.
LEMMA ListsClearStep ==
    ASSUME ListInv, ChannelInv', NEW h \in Commands, Ch!ClearBound(h) \/ Ch!ClearListed(h)
    PROVE  ListInv'
<1>1. PICK next \in {"clear_lists", "query"} :
         /\ Ch!Goto(h, next)
         /\ UNCHANGED <<table, left, errors, restarts>>
         /\ torn' \in BOOLEAN
         /\ IF next = "query" THEN listed' = Ch!ListedBy({}) ELSE UNCHANGED listed
         /\ bound' = [c \in DOMAIN bound' |-> bound'[c]]
  BY DEF Ch!ClearBound, Ch!ClearListed, Ch!faults, ListInv, ListTypes
<1>2. next \in Ch!Stages
  BY DEF Ch!Stages
<1>3. /\ at'[h] = next /\ \A g \in Commands : g # h => at'[g] = at[g]
      /\ mixed' \in BOOLEAN /\ (mixed => mixed') /\ OnePopulates'
      /\ ~mixed' => \A g \in Commands \ {h} : ~Ch!Populates(g)
  BY <1>1, <1>2, PopulateGoto
<1>4. listed' \in [Feeds -> [Chans -> Nat]]
  <2>1. \A f \in Feeds, c \in Chans : Ch!Bindings({}, f, c) = 0
    BY BindingsCount, FS_EmptySet
  <2>2. Ch!ListedBy({}) \in [Feeds -> [Chans -> Nat]]
    BY <2>1 DEF Ch!ListedBy
  <2> QED
    BY <1>1, <2>2 DEF ListInv, ListTypes
<1>5. ListTypes'
  BY <1>1, <1>3, <1>4 DEF ListInv, ListTypes
<1>6. QueryStartsAfresh'
  BY <1>1, <1>3 DEF QueryStartsAfresh, Ch!Populates
<1>7. ListsFollow'
  BY <1>3 DEF ListsFollow, Rebuilding
<1> QED
  BY <1>3, <1>5, <1>6, <1>7 DEF ListInv

\* Nobody else has appended anything: all rows are missing.
LEMMA ListsQueryStep ==
    ASSUME ListInv, ChannelInv', NEW h \in Commands, Ch!QueryChannels(h) PROVE ListInv'
<1>1. PICK next \in {"collect", "ended"} :
         /\ at[h] = "query" /\ Ch!Goto(h, next)
         /\ left' = [left EXCEPT ![h] = table]
         /\ UNCHANGED <<table, bound, listed, torn, errors, restarts>>
         /\ next = "ended" => table = {}
  BY DEF Ch!QueryChannels, Ch!maps, Ch!faults
<1>2. next \in Ch!Stages
  BY DEF Ch!Stages
<1>3. /\ at'[h] = next /\ \A g \in Commands : g # h => at'[g] = at[g]
      /\ mixed' \in BOOLEAN /\ (mixed => mixed') /\ OnePopulates'
  BY <1>1, <1>2, PopulateGoto
<1>4. left'[h] = table /\ \A g \in Commands : g # h => left'[g] = left[g]
  BY <1>1 DEF ListInv, ChannelInv, ChannelTypes
<1>5. ListTypes'
  BY <1>1, <1>3, <1>4 DEF ListInv, ListTypes
<1>6. QueryStartsAfresh'
  BY <1>1, <1>3 DEF ListInv, QueryStartsAfresh
<1>7. ListsFollow'
  <2> SUFFICES ASSUME ~mixed' PROVE ListsFollow'
    BY DEF ListsFollow
  <2>1. \A g \in Commands \ {h} : ~Ch!Populates(g)
    BY <1>1, <1>3 DEF ListInv, OnePopulates, Ch!Populates
  <2>2. listed = Ch!ListedBy({})
    BY <1>1, <1>3 DEF ListInv, QueryStartsAfresh
  <2>3. \A f \in Feeds, c \in Chans :
           /\ listed[f][c] = 0 /\ Ch!Bindings(table, f, c) \in Nat /\ Ch!Bindings({}, f, c) = 0
    BY <2>2, BindingsCount, FS_EmptySet DEF Ch!ListedBy, ListInv, ListTypes
  <2>4. CASE next = "collect"
    <3>1. ShortOf(table, left[h])'
      BY <1>1, <1>4, <2>3 DEF ShortOf
    <3> QED
      BY <1>3, <2>4, <3>1 DEF ListsFollow
  <2>5. CASE next = "ended"
    <3>1. ShortOf(table, {})'
      <4>1. table = {} /\ table' = {} /\ listed' = listed
        BY <1>1, <2>5
      <4>2. \A f \in Feeds, c \in Chans : listed[f][c] + Ch!Bindings({}, f, c) = Ch!Bindings({}, f, c)
        BY <2>3
      <4> QED
        BY <4>1, <4>2 DEF ShortOf
    <3>2. \A g \in Commands : at'[g] # "collect"
      BY <1>3, <2>1, <2>5 DEF Ch!Populates
    <3> QED
      BY <3>1, <3>2 DEF ListsFollow
  <2> QED
    BY <2>4, <2>5
<1> QED
  BY <1>3, <1>5, <1>6, <1>7 DEF ListInv

\* One row: counted once more, and missing no more.
LEMMA ListsCollectStep ==
    ASSUME ListInv, ChannelInv', NEW h \in Commands, Ch!CollectChannel(h) PROVE ListInv'
<1>1. PICK r \in left[h] : Ch!Collect(h, r)
  BY DEF Ch!CollectChannel
<1>2. at[h] = "collect" /\ r \in Ch!Row /\ r.chan \in Chans /\ r.feed \in Feeds /\ IsFiniteSet(left[h])
  BY <1>1 DEF Ch!Collect, ListInv, ListTypes, ChannelInv, ChannelTypes, Ch!Row
<1>3. PICK next \in {"collect", "ended"}, list \in Ch!Read(listed[r.feed],
                \A g \in Commands \ {h} : ~Ch!Populates(g)) :
         /\ Ch!Goto(h, next)
         /\ listed' = [listed EXCEPT ![r.feed] = [list EXCEPT ![r.chan] = @ + 1]]
         /\ left' = [left EXCEPT ![h] = @ \ {r}]
         /\ next = "ended" <=> left[h] = {r}
         /\ UNCHANGED <<table, torn, errors, restarts>>
         /\ bound' = [c \in DOMAIN bound' |-> bound'[c]]
  BY <1>1 DEF Ch!Collect, Ch!faults
<1>4. next \in Ch!Stages
  BY DEF Ch!Stages
<1>5. /\ at'[h] = next /\ \A g \in Commands : g # h => at'[g] = at[g]
      /\ mixed' \in BOOLEAN /\ (mixed => mixed') /\ OnePopulates'
  BY <1>3, <1>4, PopulateGoto
<1>6. left'[h] = left[h] \ {r} /\ \A g \in Commands : g # h => left'[g] = left[g]
  BY <1>3 DEF ListInv, ChannelInv, ChannelTypes
<1>7. list \in [Chans -> Nat]
  <2>1. listed[r.feed] \in [Chans -> Nat]
    BY <1>2 DEF ListInv, ListTypes
  <2>2. CASE list = listed[r.feed]
    BY <2>1, <2>2
  <2>3. ASSUME NEW c \in Chans, listed[r.feed][c] > 0, list = [listed[r.feed] EXCEPT ![c] = @ - 1]
        PROVE  list \in [Chans -> Nat]
    <3>1. listed[r.feed][c] - 1 \in Nat
      BY <2>1, <2>3
    <3> QED
      BY <2>1, <2>3, <3>1
  <2> QED
    BY <1>3, <2>2, <2>3 DEF Ch!Read
<1>8. listed' \in [Feeds -> [Chans -> Nat]]
  <2>1. list[r.chan] + 1 \in Nat
    BY <1>2, <1>7
  <2>2. [list EXCEPT ![r.chan] = @ + 1] \in [Chans -> Nat]
    BY <1>2, <1>7, <2>1
  <2> QED
    BY <1>2, <1>3, <2>2 DEF ListInv, ListTypes
<1>9. ListTypes'
  <2>1. IsFiniteSet(left[h] \ {r})
    BY <1>2, FS_RemoveElement
  <2> QED
    BY <1>3, <1>5, <1>6, <1>8, <2>1 DEF ListInv, ListTypes
<1>10. ASSUME ~mixed'
       PROVE  /\ \A g \in Commands \ {h} : ~Ch!Populates(g)
              /\ list = listed[r.feed]
  <2>1. \A g \in Commands \ {h} : ~Ch!Populates(g)
    BY <1>2, <1>5, <1>10 DEF ListInv, OnePopulates, Ch!Populates
  <2> QED
    BY <1>3, <2>1 DEF Ch!Read
<1>11. QueryStartsAfresh'
  BY <1>3, <1>5, <1>10 DEF QueryStartsAfresh, Ch!Populates
<1>12. ListsFollow'
  <2> SUFFICES ASSUME ~mixed', ~torn' PROVE ListsFollow'
    BY DEF ListsFollow
  <2>0. ~mixed /\ ~torn
    BY <1>3, <1>5
  <2>1. CASE Rebuilding
    <3>1. PICK g \in Commands : at[g] \in {"purged", "clear", "clear_lists", "query"}
      BY <2>1 DEF Rebuilding
    <3>2. g # h /\ at'[g] = at[g]
      BY <1>2, <1>5, <3>1
    <3> QED
      BY <3>1, <3>2 DEF ListsFollow, Rebuilding
  <2>2. CASE \E k \in Commands : at[k] = "collect" /\ ShortOf(table, left[k])
    <3>1. ShortOf(table, left[h])
      BY <1>10, <2>2 DEF Ch!Populates
    <3>2. ASSUME NEW f \in Feeds, NEW c \in Chans
          PROVE  listed'[f][c] + Ch!Bindings(left[h] \ {r}, f, c) = Ch!Bindings(table, f, c)
      <4>1. /\ Ch!Bindings(left[h], f, c) \in Nat
            /\ Ch!Bindings(left[h] \ {r}, f, c) =
                 IF r.feed = f /\ r.chan = c THEN Ch!Bindings(left[h], f, c) - 1
                 ELSE Ch!Bindings(left[h], f, c)
        BY <1>2, BindingsCount
      <4>2. listed[f][c] \in Nat /\ listed[f][c] + Ch!Bindings(left[h], f, c) = Ch!Bindings(table, f, c)
        BY <3>1 DEF ShortOf, ListInv, ListTypes
      <4>3. listed'[f][c] = IF r.feed = f /\ r.chan = c THEN listed[f][c] + 1 ELSE listed[f][c]
        <5>1. listed \in [Feeds -> [Chans -> Nat]] /\ listed[r.feed] \in [Chans -> Nat]
          BY <1>2 DEF ListInv, ListTypes
        <5>2. listed' = [listed EXCEPT ![r.feed] = [listed[r.feed] EXCEPT ![r.chan] = @ + 1]]
          BY <1>3, <1>10
        <5> QED
          BY <1>2, <5>1, <5>2
      <4> QED
        BY <4>1, <4>2, <4>3
    <3>3. CASE next = "collect"
      <4>1. at'[h] = "collect" /\ left'[h] = left[h] \ {r} /\ table' = table
        BY <1>3, <1>5, <1>6, <3>3
      <4>2. ShortOf(table, left[h])'
        BY <3>2, <4>1 DEF ShortOf
      <4> QED
        BY <4>1, <4>2 DEF ListsFollow
    <3>4. CASE next = "ended"
      <4>1. left[h] \ {r} = {}
        BY <1>3, <3>4
      <4>2. ShortOf(table, {})'
        BY <1>3, <3>2, <4>1 DEF ShortOf
      <4>3. \A g \in Commands : at'[g] # "collect"
        BY <1>5, <1>10, <3>4 DEF Ch!Populates
      <4> QED
        BY <4>2, <4>3 DEF ListsFollow
    <3> QED
      BY <3>3, <3>4
  <2>3. CASE (\A k \in Commands : at[k] # "collect") /\ ShortOf(table, {})
    BY <1>2, <2>3
  <2> QED
    BY <2>0, <2>1, <2>2, <2>3 DEF ListInv, ListsFollow
<1> QED
  BY <1>5, <1>9, <1>11, <1>12 DEF ListInv

-----------------------------------------------------------------------------
\* Whoever fails in a rebuild or a purge tears; others leave all as it was.
LEMMA ListsFailStep ==
    ASSUME ListInv, ChannelInv', NEW h \in Commands, Ch!StatementFails(h) PROVE ListInv'
<1>1. /\ Ch!Goto(h, "ended") /\ "ended" \in Ch!Stages
      /\ Ch!Active(h) /\ at[h] \notin {"clear", "clear_lists"}
      /\ UNCHANGED <<table, bound, listed, left, restarts>> /\ errors' = errors + 1
      /\ torn' = (torn \/ at[h] \in {"query", "collect", "purged"})
  BY DEF Ch!StatementFails, Ch!maps, Ch!Stages
<1>2. /\ at'[h] = "ended" /\ \A g \in Commands : g # h => at'[g] = at[g]
      /\ mixed' \in BOOLEAN /\ (mixed => mixed') /\ OnePopulates'
  BY <1>1, PopulateGoto
<1>3. ListTypes'
  BY <1>1, <1>2 DEF ListInv, ListTypes
<1>4. CASE torn' /\ ~torn
  <2>1. QueryStartsAfresh' /\ ListsFollow'
    BY <1>1, <1>2, <1>4 DEF ListInv, QueryStartsAfresh, ListsFollow
  <2> QED
    BY <1>2, <1>3, <2>1 DEF ListInv
<1>5. CASE torn
  <2>1. QueryStartsAfresh' /\ ListsFollow'
    BY <1>1, <1>2, <1>5 DEF ListInv, QueryStartsAfresh, ListsFollow
  <2> QED
    BY <1>2, <1>3, <2>1 DEF ListInv
<1>6. CASE ~torn'
  <2>1. UNCHANGED torn /\ at[h] \in {"idle", "update", "add", "remove", "probe", "purged"} /\ at[h] # "purged"
    BY <1>1, <1>6 DEF Ch!Active, ListInv, ListTypes, ChannelInv, ChannelTypes, Ch!Stages
  <2>2. QueryStartsAfresh' /\ ListsFollow'
    BY <1>1, <2>1, ListsAside
  <2> QED
    BY <1>2, <1>3, <2>2 DEF ListInv
<1> QED
  BY <1>4, <1>5, <1>6

LEMMA ListsRestartStep == ASSUME ListInv, ChannelInv', Ch!Restart PROVE ListInv'
<1>1. /\ listed' = Ch!ListedBy(table) /\ UNCHANGED <<table, left, errors>> /\ restarts' = restarts + 1
      /\ torn' = FALSE /\ mixed' = FALSE /\ bound' = [c \in DOMAIN bound' |-> bound'[c]]
  BY DEF Ch!Restart, Ch!BoundBy
<1>2. \A h \in Commands : at'[h] \in {"idle", "ended"}
  BY DEF Ch!Restart, ListInv, ChannelInv, ChannelTypes, Ch!Active
<1>3. \A f \in Feeds, c \in Chans :
         Ch!Bindings(table, f, c) \in Nat /\ Ch!Bindings({}, f, c) = 0
  BY BindingsCount DEF ListInv, ListTypes
<1>4. listed' \in [Feeds -> [Chans -> Nat]] /\ ShortOf(table, {})'
  BY <1>1, <1>3 DEF Ch!ListedBy, ShortOf
<1>5. ListTypes'
  <2>1. \A h \in Commands : at'[h] # "collect"
    BY <1>2
  <2>2. IsFiniteSet(table') /\ errors' \in Nat /\ restarts' \in Nat
    BY <1>1 DEF ListInv, ListTypes
  <2> QED
    BY <1>1, <1>4, <2>1, <2>2 DEF ListTypes
<1>6. OnePopulates' /\ QueryStartsAfresh'
  BY <1>2 DEF OnePopulates, QueryStartsAfresh, Ch!Populates
<1>7. ListsFollow'
  BY <1>2, <1>4 DEF ListsFollow
<1> QED
  BY <1>5, <1>6, <1>7 DEF ListInv

LEMMA ListsNext == ListInv /\ [Ch!Next]_(Ch!vars) => ListInv'
<1> SUFFICES ASSUME ListInv, [Ch!Next]_(Ch!vars) PROVE ListInv'
  OBVIOUS
<1>0. ChannelInv'
  BY ChannelsNext DEF ListInv
<1>1. ASSUME NEW h \in Commands,
             \/ Ch!ChannelHere(h) \/ Ch!ChannelRemove(h) \/ Ch!ChannelRemoveHere(h) \/ Ch!ChannelsAutopurge(h)
             \/ Ch!UpdateChannel(h) \/ Ch!AddChannel(h) \/ Ch!RemoveChannels(h)
      PROVE  ListInv'
  BY <1>0, <1>1, ListsCommandStep
<1>2. ASSUME NEW h \in Commands, Ch!ProbeChannel(h) PROVE ListInv'
  BY <1>0, <1>2, ListsPurgeStep
<1>3. ASSUME NEW h \in Commands, Ch!ClearBound(h) \/ Ch!ClearListed(h) PROVE ListInv'
  BY <1>0, <1>3, ListsClearStep
<1>4. ASSUME NEW h \in Commands, Ch!QueryChannels(h) PROVE ListInv'
  BY <1>0, <1>4, ListsQueryStep
<1>5. ASSUME NEW h \in Commands, Ch!CollectChannel(h) PROVE ListInv'
  BY <1>0, <1>5, ListsCollectStep
<1>6. ASSUME NEW h \in Commands, Ch!StatementFails(h) PROVE ListInv'
  BY <1>0, <1>6, ListsFailStep
<1>7. CASE Ch!Restart
  BY <1>0, <1>7, ListsRestartStep
<1>8. CASE UNCHANGED Ch!vars
  <2>1. UNCHANGED <<table, bound, listed, at, job, left, mixed, torn, errors, restarts>>
    BY <1>8 DEF Ch!vars
  <2>2. ListTypes' /\ OnePopulates' /\ QueryStartsAfresh'
    BY <2>1 DEF ListInv, ListTypes, OnePopulates, QueryStartsAfresh, Ch!Populates
  <2>3. ListsFollow'
    BY <2>1 DEF ListInv, ListsFollow, Rebuilding, ShortOf
  <2> QED
    BY <1>0, <2>2, <2>3 DEF ListInv
<1> QED
  BY <1>1, <1>2, <1>3, <1>4, <1>5, <1>6, <1>7, <1>8 DEF Ch!Next

\* When all is quiet nothing is missing.
LEMMA ListsCount == ListInv => Ch!ListsAreExact
<1> SUFFICES ASSUME ListInv, Ch!Quiet, ~torn, ~mixed, NEW f \in Feeds, NEW c \in Chans
             PROVE  listed[f][c] = Ch!Bindings(table, f, c)
  BY DEF Ch!ListsAreExact, Ch!Posts
<1>1. ShortOf(table, {})
  BY DEF ListInv, ListsFollow, Rebuilding, Ch!Quiet, Ch!Active
<1>2. listed[f][c] \in Nat /\ Ch!Bindings({}, f, c) = 0
  BY BindingsCount DEF ListInv, ListTypes
<1> QED
  BY <1>1, <1>2 DEF ShortOf

\* The types of Channels are among all this.
LEMMA ChannelTypesOK == ListInv => Ch!TypeOK
<1> SUFFICES ASSUME ListInv PROVE Ch!TypeOK
  OBVIOUS
<1>1. bound \in [DOMAIN bound -> Feeds]
  BY DEF ListInv, ListTypes, ChannelInv, ChannelTypes
<1> QED
  BY <1>1 DEF ListInv, ListTypes, ChannelInv, ChannelTypes, Ch!TypeOK

-----------------------------------------------------------------------------
(* ByondWire.                                                              *)
\* What was read so far follows from how much of the header had come.
WireInv ==
    /\ length \in Responses
    /\ stage \in {"data", "answered"} =>
          got \in 1..Bw!Header /\ size = (Bw!LengthRead(got) - 1) % Bw!Word
    /\ stage = "answered" => data = <<got + 1, got + size>>

LEMMA WireInit == Bw!Init => WireInv
BY DEF Bw!Init, WireInv

LEMMA WireNext == WireInv /\ [Bw!Next]_(Bw!vars) => WireInv'
<1> SUFFICES ASSUME WireInv, [Bw!Next]_(Bw!vars) PROVE WireInv'
  OBVIOUS
<1>1. CASE Bw!Ask
  BY <1>1 DEF Bw!Ask, WireInv
<1>2. CASE Bw!ReadHeader
  <2>1. CASE stage' = "failed"
    BY <1>2, <2>1 DEF Bw!ReadHeader, WireInv
  <2>2. ASSUME NEW n \in 1..Bw!Header,
               stage' = "data", got' = n, size' = (Bw!LengthRead(n) - 1) % Bw!Word
        PROVE  WireInv'
    BY <1>2, <2>2 DEF Bw!ReadHeader, WireInv, Bw!LengthRead
  <2> QED
    BY <1>2, <2>1, <2>2 DEF Bw!ReadHeader
<1>3. CASE Bw!ReadData
  <2>1. UNCHANGED <<length, got, size>> /\ stage = "data"
    BY <1>3 DEF Bw!ReadData, Bw!ReadDataIf
  <2>2. stage' = "failed" \/ (stage' = "answered" /\ data' = <<got + 1, got + size>>)
    BY <1>3 DEF Bw!ReadData, Bw!ReadDataIf
  <2> QED
    BY <2>1, <2>2 DEF WireInv, Bw!LengthRead
<1>4. CASE UNCHANGED Bw!vars
  BY <1>4 DEF Bw!vars, WireInv, Bw!LengthRead
<1> QED
  BY <1>1, <1>2, <1>3, <1>4 DEF Bw!Next

\* The two bytes of the length are read back as the length they were made of.
LEMMA LengthIsRead ==
    ASSUME Bw!ByondWireAssumption, length \in Responses
    PROVE  (Bw!LengthRead(Bw!Header) - 1) % Bw!Word = length - 1
<1>1. length \in Int /\ 0 < length /\ length < 65536
  BY DEF Bw!ByondWireAssumption, Bw!Word
<1>2. length % 256 \in Int
  BY <1>1
<1>3. Bw!LengthRead(Bw!Header) = length
  BY <1>1, <1>2 DEF Bw!LengthRead, Bw!Header
<1>4. ASSUME NEW m \in Int, 0 <= m, m < 65536 PROVE m % 65536 = m
  BY <1>4
<1>5. length - 1 \in Int /\ 0 <= length - 1 /\ length - 1 < 65536
  BY <1>1
<1>6. (length - 1) % 65536 = length - 1
  BY <1>4, <1>5
<1> QED
  BY <1>3, <1>6 DEF Bw!Word
-----------------------------------------------------------------------------
(* Dispatch.                                                               *)
\* The types, without bounds.
DispatchTypes ==
    /\ checks \in [Authors -> Nat] /\ counted \in [Authors -> Nat]
    /\ ccnt \in [Commands -> Nat]
    /\ at \in [Commands -> Di!Stages] /\ message \in [Commands -> Di!Message]
    /\ outcomes \in [Authors -> SUBSET Di!Outcomes]

\* A user whose count no tick came in between.
Exact(u) == u \notin straddled

\* Messages that overlap lose counts, never gain any.
CountsAreLow == \A u \in Authors : Exact(u) => checks[u] <= counted[u]

\* What spam_check is about to write back was read before h itself was counted.
ReadsAreLow ==
    \A h \in Commands :
        at[h] = "write" /\ Exact(Di!Author(h)) => ccnt[h] < counted[Di!Author(h)]

\* Whom spam_check finds over the limit, or has found so, has spammed.
JudgedHaveSpammed ==
    \A h \in Commands :
        /\ at[h] \in {"write", "judge"} /\ Exact(Di!Author(h))
           /\ ccnt[h] >= discord_spam_prot_limit => Di!Author(h) \in spammed
        /\ at[h] \in {"ban", "flag"} /\ Exact(Di!Author(h)) => Di!Author(h) \in spammed

DispatchInv == DispatchTypes /\ CountsAreLow /\ ReadsAreLow /\ JudgedHaveSpammed /\ Di!OnlySpammersAreFlagged

\* Somebody is the author of every message.
LEMMA AuthorIsUser == ASSUME DispatchTypes, NEW h \in Commands PROVE Di!Author(h) \in Authors
BY DEF DispatchTypes, Di!Message, Di!Author

LEMMA DispatchInit == Di!DispatchAssumption /\ Di!Init => DispatchInv
<1> SUFFICES ASSUME Di!DispatchAssumption, Di!Init PROVE DispatchInv
  OBVIOUS
<1>1. Di!AnyMessage \in Di!Message
  BY DEF Di!DispatchAssumption, Di!AnyMessage
<1>2. DispatchTypes
  BY <1>1 DEF Di!Init, DispatchTypes, Di!Stages
<1> QED
  BY <1>2 DEF Di!Init, DispatchInv, CountsAreLow, ReadsAreLow, JudgedHaveSpammed, Di!OnlySpammersAreFlagged

\* A step that neither counts nor judges: who was exact has spammed as before.
LEMMA DispatchAside ==
    ASSUME DispatchInv, DispatchTypes', NEW h \in Commands, NEW next \in Di!Stages,
           at' = [at EXCEPT ![h] = next], next \notin {"write", "judge", "ban", "flag"},
           \A g \in Commands : Di!Author(g)' = Di!Author(g) \/ g = h,
           UNCHANGED <<checks, flagged, banned, ccnt, counted, spammed, straddled>>,
           \A u \in Authors : "deleted" \in outcomes'[u] =>
               "deleted" \in outcomes[u] \/ (Exact(u) => u \in spammed)
    PROVE  DispatchInv'
<1>1. \A g \in Commands : g # h => at'[g] = at[g] /\ Di!Author(g)' = Di!Author(g)
  BY DEF DispatchInv, DispatchTypes
<1>2. at'[h] = next
  BY DEF DispatchInv, DispatchTypes
<1>3. CountsAreLow'
  BY DEF DispatchInv, CountsAreLow, Exact
<1>4. ReadsAreLow'
  BY <1>1, <1>2 DEF DispatchInv, ReadsAreLow, Exact
<1>5. JudgedHaveSpammed'
  BY <1>1, <1>2 DEF DispatchInv, JudgedHaveSpammed, Exact
<1>6. Di!OnlySpammersAreFlagged'
  BY DEF DispatchInv, Di!OnlySpammersAreFlagged, Exact
<1> QED
  BY <1>3, <1>4, <1>5, <1>6 DEF DispatchInv

-----------------------------------------------------------------------------
LEMMA DispatchReceiveStep == ASSUME Di!DispatchAssumption, DispatchInv, NEW h \in Commands, Di!Receive(h) PROVE DispatchInv'
<1>1. PICK m \in ChatMessages, next \in {"idle", "count"} :
         message' = [message EXCEPT ![h] = m] /\ at' = [at EXCEPT ![h] = next]
  BY DEF Di!Receive, Di!Goto
<1>2. next \in Di!Stages /\ next \notin {"write", "judge", "ban", "flag"}
  BY DEF Di!Stages
<1>3. UNCHANGED <<checks, flagged, banned, ccnt, counted, spammed, straddled, outcomes>>
  BY DEF Di!Receive, Di!spam, Di!ghosts
<1>4. m \in Di!Message
  BY DEF Di!DispatchAssumption
<1>5. DispatchTypes'
  BY <1>1, <1>2, <1>3, <1>4 DEF DispatchInv, DispatchTypes
<1>6. \A g \in Commands : Di!Author(g)' = Di!Author(g) \/ g = h
  BY <1>1 DEF DispatchInv, DispatchTypes, Di!Author
<1> QED
  BY <1>1, <1>2, <1>3, <1>5, <1>6, DispatchAside

\* The count is read: h itself is counted, and not yet in what it has read.
LEMMA DispatchReadStep == ASSUME Di!DispatchAssumption, DispatchInv, NEW h \in Commands, Di!ReadCount(h) PROVE DispatchInv'
<1> DEFINE u == Di!Author(h)
<1>1. u \in Authors
  BY AuthorIsUser DEF DispatchInv
<1>2. /\ at' = [at EXCEPT ![h] = "write"] /\ "write" \in Di!Stages
      /\ UNCHANGED <<message, outcomes, checks, flagged, banned, straddled>>
      /\ ccnt' = [ccnt EXCEPT ![h] = checks[u]]
      /\ counted' = [counted EXCEPT ![u] = @ + 1]
      /\ spammed' = IF counted'[u] > discord_spam_prot_limit THEN spammed \cup {u} ELSE spammed
  BY DEF Di!ReadCount, Di!Spam, Di!Goto, Di!Stages
<1>3. DispatchTypes'
  BY <1>1, <1>2 DEF DispatchInv, DispatchTypes
<1>4. \A g \in Commands : Di!Author(g)' = Di!Author(g)
  BY <1>2 DEF Di!Author
<1>5. spammed \subseteq spammed'
  BY <1>2
<1>6. /\ \A v \in Authors : counted[v] \in Nat /\ counted'[v] \in Nat /\ counted[v] <= counted'[v]
      /\ counted'[u] = counted[u] + 1
  BY <1>1, <1>2 DEF DispatchInv, DispatchTypes
<1>7. /\ at'[h] = "write" /\ ccnt'[h] = checks[u]
      /\ \A g \in Commands : g # h => at'[g] = at[g] /\ ccnt'[g] = ccnt[g]
  BY <1>2 DEF DispatchInv, DispatchTypes
<1>8. /\ \A v \in Authors : checks[v] \in Nat
      /\ \A g \in Commands : ccnt[g] \in Nat
      /\ discord_spam_prot_limit \in Nat
  BY DEF DispatchInv, DispatchTypes, Di!DispatchAssumption
<1>9. Exact(u) => checks[u] <= counted[u]
  BY <1>1 DEF DispatchInv, CountsAreLow
<1> HIDE DEF u
<1>10. CountsAreLow'
  BY <1>2, <1>6, <1>8 DEF DispatchInv, CountsAreLow, Exact
<1>11. ReadsAreLow'
  <2> SUFFICES ASSUME NEW g \in Commands, at'[g] = "write", Exact(Di!Author(g))'
               PROVE  ccnt'[g] < counted'[Di!Author(g)]
    BY <1>4 DEF ReadsAreLow
  <2>1. CASE g = h
    <3>1. Exact(u) /\ Di!Author(g) = u
      BY <1>2, <1>4, <2>1 DEF Exact, u
    <3> QED
      BY <1>1, <1>6, <1>7, <1>8, <1>9, <2>1, <3>1
  <2>2. CASE g # h
    <3>1. ccnt[g] < counted[Di!Author(g)] /\ Di!Author(g) \in Authors
      BY <1>2, <1>4, <1>7, <2>2, AuthorIsUser DEF DispatchInv, ReadsAreLow, Exact
    <3> QED
      BY <1>6, <1>7, <1>8, <2>2, <3>1
  <2> QED
    BY <2>1, <2>2
<1>12. JudgedHaveSpammed'
  <2>1. ASSUME Exact(u), checks[u] >= discord_spam_prot_limit PROVE u \in spammed'
    <3>1. counted'[u] > discord_spam_prot_limit
      BY <1>1, <1>6, <1>8, <1>9, <2>1
    <3> QED
      BY <1>2, <3>1
  <2>2. /\ Di!Author(h)' = u
        /\ Exact(u)' = Exact(u)
        /\ \A g \in Commands : Exact(Di!Author(g))' = Exact(Di!Author(g))
    BY <1>2, <1>4 DEF Exact, u
  <2>3. at'[h] \in {"write", "judge"} /\ at'[h] \notin {"ban", "flag"}
    BY <1>7
  <2>4. ASSUME NEW g \in Commands, g # h
        PROVE  /\ at'[g] \in {"write", "judge"} /\ Exact(Di!Author(g))'
                  /\ ccnt'[g] >= discord_spam_prot_limit => Di!Author(g)' \in spammed'
               /\ at'[g] \in {"ban", "flag"} /\ Exact(Di!Author(g))' => Di!Author(g)' \in spammed'
    BY <1>4, <1>5, <1>7, <2>2, <2>4 DEF DispatchInv, JudgedHaveSpammed
  <2>5. Exact(Di!Author(h))' /\ ccnt'[h] >= discord_spam_prot_limit => Di!Author(h)' \in spammed'
    BY <1>4, <1>7, <2>1, <2>2
  <2> QED
    BY <2>3, <2>4, <2>5 DEF JudgedHaveSpammed
<1>13. Di!OnlySpammersAreFlagged'
  BY <1>2, <1>5 DEF DispatchInv, Di!OnlySpammersAreFlagged
<1> QED
  BY <1>3, <1>10, <1>11, <1>12, <1>13 DEF DispatchInv

\* What is written back is at most the count.
LEMMA DispatchWriteStep == ASSUME Di!DispatchAssumption, DispatchInv, NEW h \in Commands, Di!WriteCount(h) PROVE DispatchInv'
<1> DEFINE u == Di!Author(h)
<1>1. u \in Authors
  BY AuthorIsUser DEF DispatchInv
<1>2. /\ at[h] = "write" /\ at' = [at EXCEPT ![h] = "judge"] /\ "judge" \in Di!Stages
      /\ checks' = [checks EXCEPT ![u] = ccnt[h] + 1]
      /\ UNCHANGED <<message, outcomes, flagged, banned, ccnt, counted, spammed, straddled>>
  BY DEF Di!WriteCount, Di!Spam, Di!Goto, Di!Stages, Di!ghosts
<1>3. DispatchTypes'
  BY <1>1, <1>2 DEF DispatchInv, DispatchTypes
<1>4. \A g \in Commands : Di!Author(g)' = Di!Author(g)
  BY <1>2 DEF Di!Author
<1>5. at'[h] = "judge" /\ \A g \in Commands : g # h => at'[g] = at[g]
  BY <1>2 DEF DispatchInv, DispatchTypes
<1>6. Exact(u) => ccnt[h] < counted[u]
  BY <1>2 DEF DispatchInv, ReadsAreLow
<1>7. ccnt[h] \in Nat /\ \A v \in Authors : checks[v] \in Nat /\ counted[v] \in Nat
  BY DEF DispatchInv, DispatchTypes
<1> HIDE DEF u
<1>8. CountsAreLow'
  <2> SUFFICES ASSUME NEW v \in Authors, Exact(v) PROVE checks'[v] <= counted[v]
    BY <1>2 DEF CountsAreLow, Exact
  <2>1. CASE v = u
    <3>1. checks'[v] = ccnt[h] + 1
      BY <1>2, <2>1 DEF DispatchInv, DispatchTypes
    <3> QED
      BY <1>6, <1>7, <2>1, <3>1
  <2>2. CASE v # u
    <3>1. checks'[v] = checks[v]
      BY <1>2, <2>2 DEF DispatchInv, DispatchTypes
    <3> QED
      BY <3>1 DEF DispatchInv, CountsAreLow
  <2> QED
    BY <2>1, <2>2
<1>9. ReadsAreLow'
  BY <1>2, <1>4, <1>5 DEF DispatchInv, ReadsAreLow, Exact
<1>10. JudgedHaveSpammed'
  BY <1>2, <1>4, <1>5 DEF DispatchInv, JudgedHaveSpammed, Exact
<1>11. Di!OnlySpammersAreFlagged'
  BY <1>2 DEF DispatchInv, Di!OnlySpammersAreFlagged
<1> QED
  BY <1>3, <1>8, <1>9, <1>10, <1>11 DEF DispatchInv

\* The rest of spam_check: who goes on to be banned and flagged has spammed.
LEMMA DispatchJudgeStep ==
    ASSUME Di!DispatchAssumption, DispatchInv, NEW h \in Commands, Di!Judge(h) \/ Di!Autoban(h) \/ Di!Flag(h)
    PROVE  DispatchInv'
<1> DEFINE u == Di!Author(h)
<1>1. u \in Authors
  BY AuthorIsUser DEF DispatchInv
<1>2. PICK next \in {"ban", "flag", "filter"} : at' = [at EXCEPT ![h] = next]
  BY DEF Di!Judge, Di!JudgeAt, Di!Autoban, Di!Flag, Di!Spam, Di!Goto
<1>3. next \in Di!Stages
  BY DEF Di!Stages
<1>4. UNCHANGED <<message, outcomes, checks, ccnt, counted, spammed, straddled>>
  BY DEF Di!Judge, Di!JudgeAt, Di!Autoban, Di!Flag, Di!Spam, Di!spam, Di!ghosts
<1>5. DispatchTypes'
  BY <1>2, <1>3, <1>4 DEF DispatchInv, DispatchTypes
<1>6. \A g \in Commands : Di!Author(g)' = Di!Author(g)
  BY <1>4 DEF Di!Author
<1>7. at'[h] = next /\ \A g \in Commands : g # h => at'[g] = at[g]
  BY <1>2 DEF DispatchInv, DispatchTypes
<1>8. ccnt[h] \in Nat /\ discord_spam_prot_limit \in Nat
  BY DEF DispatchInv, DispatchTypes, Di!DispatchAssumption
<1>9. next # "filter" /\ Exact(u) => u \in spammed
  <2>1. CASE Di!Judge(h)
    <3>1. at[h] = "judge" /\ (next # "filter" => ~(ccnt[h] < discord_spam_prot_limit))
      BY <1>2, <1>7, <2>1 DEF Di!Judge, Di!JudgeAt, Di!Spam, Di!Goto, DispatchInv, DispatchTypes
    <3>2. next # "filter" => ccnt[h] >= discord_spam_prot_limit
      BY <1>8, <3>1
    <3> QED
      BY <3>1, <3>2 DEF DispatchInv, JudgedHaveSpammed
  <2>2. CASE Di!Autoban(h) \/ Di!Flag(h)
    <3>1. at[h] \in {"ban", "flag"}
      BY <2>2 DEF Di!Autoban, Di!Flag, Di!Spam
    <3> QED
      BY <3>1 DEF DispatchInv, JudgedHaveSpammed
  <2> QED
    BY <2>1, <2>2
<1>10. /\ flagged' \subseteq flagged \cup {u} /\ banned' \subseteq banned \cup {u}
       /\ flagged' \cup banned' = flagged \cup banned \/ at[h] \in {"ban", "flag"}
  BY DEF Di!Judge, Di!JudgeAt, Di!Autoban, Di!Flag, Di!Spam, Di!spam
<1>11. CountsAreLow'
  BY <1>4 DEF DispatchInv, CountsAreLow, Exact
<1>12. ReadsAreLow'
  BY <1>4, <1>6, <1>7 DEF DispatchInv, ReadsAreLow, Exact
<1>13. JudgedHaveSpammed'
  <2>1. ASSUME NEW g \in Commands, g # h
        PROVE  /\ at'[g] \in {"write", "judge"} /\ Exact(Di!Author(g))'
                  /\ ccnt'[g] >= discord_spam_prot_limit => Di!Author(g)' \in spammed'
               /\ at'[g] \in {"ban", "flag"} /\ Exact(Di!Author(g))' => Di!Author(g)' \in spammed'
    BY <1>4, <1>6, <1>7, <2>1 DEF DispatchInv, JudgedHaveSpammed, Exact
  <2>2. at'[h] \in {"ban", "flag", "filter"} /\ (at'[h] # "filter" /\ Exact(Di!Author(h))' => Di!Author(h)' \in spammed')
    BY <1>4, <1>6, <1>7, <1>9 DEF Exact
  <2> QED
    BY <2>1, <2>2 DEF JudgedHaveSpammed
<1>14. Di!OnlySpammersAreFlagged'
  <2>1. at[h] \in {"ban", "flag"} /\ Exact(u) => u \in spammed
    BY DEF DispatchInv, JudgedHaveSpammed
  <2> HIDE DEF u
  <2> QED
    BY <1>4, <1>10, <2>1 DEF DispatchInv, Di!OnlySpammersAreFlagged, Exact
<1> QED
  BY <1>5, <1>11, <1>12, <1>13, <1>14 DEF DispatchInv

-----------------------------------------------------------------------------
\* Only a flagged user loses a message, and his flag says that he has spammed.
LEMMA DispatchFilterStep == ASSUME Di!DispatchAssumption, DispatchInv, NEW h \in Commands, Di!Filter(h) PROVE DispatchInv'
<1> DEFINE u == Di!Author(h)
<1>1. u \in Authors
  BY AuthorIsUser DEF DispatchInv
<1>2. UNCHANGED <<checks, flagged, banned, ccnt, message, counted, spammed, straddled>>
  BY DEF Di!Filter, Di!spam, Di!ghosts
<1>3. PICK next \in {"idle", "dispatch"} : at' = [at EXCEPT ![h] = next]
  BY DEF Di!Filter, Di!Ends, Di!Goto
<1>4. next \in Di!Stages
  BY DEF Di!Stages
<1>5. outcomes' = outcomes
      \/ (u \in flagged /\ outcomes' = [outcomes EXCEPT ![u] = @ \cup {"deleted"}])
  BY DEF Di!Filter, Di!Ends
<1>6. DispatchTypes'
  BY <1>1, <1>2, <1>3, <1>4, <1>5 DEF DispatchInv, DispatchTypes, Di!Outcomes
<1>7. \A g \in Commands : Di!Author(g)' = Di!Author(g)
  BY <1>2 DEF Di!Author
<1>8. Exact(u) /\ u \in flagged => u \in spammed
  BY <1>1 DEF DispatchInv, Di!OnlySpammersAreFlagged, Exact
<1> HIDE DEF u
<1>9. \A v \in Authors : "deleted" \in outcomes'[v] =>
         "deleted" \in outcomes[v] \/ (Exact(v) => v \in spammed)
  BY <1>1, <1>5, <1>8 DEF DispatchInv, DispatchTypes
<1> QED
  BY <1>2, <1>3, <1>4, <1>6, <1>7, <1>9, DispatchAside

\* What messageCreate does with a message that passed deletes none.
LEMMA DispatchDispatchStep ==
    ASSUME Di!DispatchAssumption, DispatchInv, NEW h \in Commands,
           Di!TooShort(h) \/ Di!RefuseBanned(h) \/ Di!RunCommand(h) \/ Di!RunShell(h) \/ Di!RelayChat(h)
    PROVE  DispatchInv'
<1> DEFINE u == Di!Author(h)
<1>1. u \in Authors
  BY AuthorIsUser DEF DispatchInv
<1>2. UNCHANGED <<checks, flagged, banned, ccnt, counted, spammed, straddled>>
  BY DEF Di!TooShort, Di!RefuseBanned, Di!RunCommand, Di!RunShell, Di!RelayChat, Di!Dispatched, Di!spam, Di!ghosts
<1>3. PICK next \in {"idle", "count"} : at' = [at EXCEPT ![h] = next]
  BY DEF Di!TooShort, Di!RefuseBanned, Di!RunCommand, Di!RunShell, Di!RelayChat, Di!Dispatched, Di!Ends, Di!Goto
<1>4. next \in Di!Stages
  BY DEF Di!Stages
<1>5. PICK outcome \in Di!Outcomes \ {"deleted"} :
         outcomes' = [outcomes EXCEPT ![u] = @ \cup {outcome}]
  <2>1. CASE Di!RefuseBanned(h)
    BY <2>1 DEF Di!RefuseBanned, Di!Dispatched, Di!Ends, Di!Outcomes
  <2>2. CASE Di!RunCommand(h)
    BY <2>2 DEF Di!RunCommand, Di!Dispatched, Di!Ends, Di!Outcomes
  <2>3. CASE Di!RunShell(h)
    BY <2>3 DEF Di!RunShell, Di!Outcomes
  <2>4. CASE Di!RelayChat(h)
    BY <2>4 DEF Di!RelayChat, Di!Dispatched, Di!Ends, Di!Outcomes
  <2>5. CASE Di!TooShort(h)
    BY <2>5 DEF Di!TooShort, Di!Dispatched, Di!Ends, Di!Outcomes
  <2> QED
    BY <2>1, <2>2, <2>3, <2>4, <2>5
<1>6. message' = message \/ message' = [message EXCEPT ![h].kind = "text"]
  BY DEF Di!TooShort, Di!RefuseBanned, Di!RunCommand, Di!RunShell, Di!RelayChat, Di!Dispatched
<1>7. message' \in [Commands -> Di!Message] /\ \A g \in Commands : Di!Author(g)' = Di!Author(g)
  <2>1. CASE message' = message
    BY <2>1 DEF DispatchInv, DispatchTypes, Di!Author
  <2>2. CASE message' = [message EXCEPT ![h].kind = "text"]
    <3>1. message[h] \in Di!Message
      BY DEF DispatchInv, DispatchTypes
    <3>2. [message[h] EXCEPT !.kind = "text"] \in Di!Message
      BY <3>1 DEF Di!Message
    <3>3. message' = [message EXCEPT ![h] = [message[h] EXCEPT !.kind = "text"]]
      BY <2>2
    <3>4. message' \in [Commands -> Di!Message]
      BY <3>2, <3>3 DEF DispatchInv, DispatchTypes
    <3>5. [message[h] EXCEPT !.kind = "text"].user = message[h].user
      BY <3>1 DEF Di!Message
    <3>6. \A g \in Commands : message'[g].user = message[g].user
      BY <3>3, <3>5 DEF DispatchInv, DispatchTypes
    <3> QED
      BY <3>4, <3>6 DEF Di!Author
  <2> QED
    BY <1>6, <2>1, <2>2
<1>8. outcomes' \in [Authors -> SUBSET Di!Outcomes]
      /\ \A v \in Authors : "deleted" \in outcomes'[v] => "deleted" \in outcomes[v]
  <2> HIDE DEF u
  <2> QED
    BY <1>1, <1>5 DEF DispatchInv, DispatchTypes
<1>9. DispatchTypes'
  BY <1>2, <1>3, <1>4, <1>7, <1>8 DEF DispatchInv, DispatchTypes
<1> QED
  BY <1>2, <1>3, <1>4, <1>7, <1>8, <1>9, DispatchAside

\* A tick: whoever is between reading and writing is not exact any more.
LEMMA DispatchTickStep == ASSUME DispatchInv, Di!Tick PROVE DispatchInv'
<1>1. /\ \A u \in Authors : checks'[u] = 0 /\ counted'[u] = 0
      /\ checks' \in [Authors -> Nat] /\ counted' \in [Authors -> Nat]
      /\ UNCHANGED <<flagged, banned, at, message, ccnt, outcomes, spammed>>
  BY DEF Di!Tick
<1>2. straddled \subseteq straddled' /\ \A h \in Commands : at[h] = "write" => Di!Author(h) \in straddled'
  BY DEF Di!Tick
<1>3. \A h \in Commands : Di!Author(h)' = Di!Author(h)
  BY <1>1 DEF Di!Author
<1>4. DispatchTypes'
  BY <1>1 DEF DispatchInv, DispatchTypes
<1>5. CountsAreLow'
  BY <1>1 DEF CountsAreLow
<1>6. ReadsAreLow'
  BY <1>1, <1>2, <1>3 DEF ReadsAreLow, Exact
<1>7. JudgedHaveSpammed'
  BY <1>1, <1>2, <1>3 DEF DispatchInv, JudgedHaveSpammed, Exact
<1>8. Di!OnlySpammersAreFlagged'
  BY <1>1, <1>2 DEF DispatchInv, Di!OnlySpammersAreFlagged
<1> QED
  BY <1>4, <1>5, <1>6, <1>7, <1>8 DEF DispatchInv

\* A restart: nobody is counted or flagged any more, and nobody less banned.
LEMMA DispatchRestartStep == ASSUME Di!DispatchAssumption, DispatchInv, Di!Restart PROVE DispatchInv'
<1>0. Di!AnyMessage \in Di!Message
  BY DEF Di!DispatchAssumption, Di!AnyMessage
<1>1. /\ \A u \in Authors : checks'[u] = 0 /\ counted'[u] = 0
      /\ checks' \in [Authors -> Nat] /\ counted' \in [Authors -> Nat]
      /\ at' \in [Commands -> Di!Stages] /\ \A h \in Commands : at'[h] = "idle"
      /\ message' \in [Commands -> Di!Message] /\ ccnt' \in [Commands -> Nat]
      /\ UNCHANGED <<banned, outcomes, spammed, straddled>>
  BY <1>0 DEF Di!Restart, Di!Stages
<1>2. flagged' = {}
  BY DEF Di!Restart
<1>3. DispatchTypes'
  BY <1>1 DEF DispatchInv, DispatchTypes
<1>4. CountsAreLow'
  BY <1>1 DEF CountsAreLow
<1>5. ReadsAreLow' /\ JudgedHaveSpammed'
  BY <1>1 DEF ReadsAreLow, JudgedHaveSpammed
<1>6. Di!OnlySpammersAreFlagged'
  BY <1>1, <1>2 DEF DispatchInv, Di!OnlySpammersAreFlagged
<1> QED
  BY <1>3, <1>4, <1>5, <1>6 DEF DispatchInv

\* Every step keeps Inv.
LEMMA DispatchNext == Di!DispatchAssumption /\ DispatchInv /\ [Di!Next]_(Di!vars) => DispatchInv'
<1> SUFFICES ASSUME Di!DispatchAssumption, DispatchInv, [Di!Next]_(Di!vars) PROVE DispatchInv'
  OBVIOUS
<1>1. ASSUME NEW h \in Commands, Di!Receive(h) PROVE DispatchInv'
  BY <1>1, DispatchReceiveStep
<1>2. ASSUME NEW h \in Commands, Di!ReadCount(h) PROVE DispatchInv'
  BY <1>2, DispatchReadStep
<1>3. ASSUME NEW h \in Commands, Di!WriteCount(h) PROVE DispatchInv'
  BY <1>3, DispatchWriteStep
<1>4. ASSUME NEW h \in Commands, Di!Judge(h) \/ Di!Autoban(h) \/ Di!Flag(h) PROVE DispatchInv'
  BY <1>4, DispatchJudgeStep
<1>5. ASSUME NEW h \in Commands, Di!Filter(h) PROVE DispatchInv'
  BY <1>5, DispatchFilterStep
<1>6. ASSUME NEW h \in Commands,
             Di!TooShort(h) \/ Di!RefuseBanned(h) \/ Di!RunCommand(h) \/ Di!RunShell(h) \/ Di!RelayChat(h)
      PROVE  DispatchInv'
  BY <1>6, DispatchDispatchStep
<1>7. CASE Di!Tick
  BY <1>7, DispatchTickStep
<1>8. CASE Di!Restart
  BY <1>8, DispatchRestartStep
<1>9. CASE UNCHANGED Di!vars
  BY <1>9 DEF Di!vars, DispatchInv, DispatchTypes, CountsAreLow, ReadsAreLow, JudgedHaveSpammed,
              Di!OnlySpammersAreFlagged, Exact, Di!Author
<1> QED
  BY <1>1, <1>2, <1>3, <1>4, <1>5, <1>6, <1>7, <1>8, <1>9 DEF Di!Next
-----------------------------------------------------------------------------
(* The types of ByondWire and of Dispatch.                                 *)

LEMMA WireTypesInit == Bw!ByondWireAssumption /\ Bw!Init => Bw!TypeOK
BY DEF Bw!ByondWireAssumption, Bw!Init, Bw!TypeOK, Bw!Header, Bw!Word

LEMMA WireTypesNext == Bw!ByondWireAssumption /\ Bw!TypeOK /\ [Bw!Next]_(Bw!vars) => Bw!TypeOK'
<1> SUFFICES ASSUME Bw!ByondWireAssumption, Bw!TypeOK, [Bw!Next]_(Bw!vars) PROVE Bw!TypeOK'
  OBVIOUS
<1>1. length \in Nat /\ 0 < length /\ ShortReads \subseteq Nat
  BY DEF Bw!ByondWireAssumption, Bw!TypeOK
<1>2. CASE Bw!Ask
  BY <1>2 DEF Bw!Ask, Bw!TypeOK
<1>3. CASE Bw!ReadHeader
  <2>1. CASE stage' = "failed" /\ UNCHANGED <<got, size>>
    BY <1>3, <2>1 DEF Bw!ReadHeader, Bw!TypeOK
  <2>2. ASSUME NEW n \in 1..Bw!Header,
               stage' = "data", got' = n, size' = (Bw!LengthRead(n) - 1) % Bw!Word
        PROVE  Bw!TypeOK'
    <3>1. Bw!LengthRead(n) - 1 \in Int
      BY <1>1 DEF Bw!LengthRead
    <3>2. ASSUME NEW m \in Int PROVE m % 65536 \in Int /\ 0 <= m % 65536 /\ m % 65536 < 65536
      OBVIOUS
    <3>3. size' \in 0..(Bw!Word - 1)
      <4>1. Bw!Word \in Int /\ size' \in Int /\ 0 <= size' /\ size' < Bw!Word
        BY <2>2, <3>1, <3>2 DEF Bw!Word
      <4> QED
        BY <4>1
    <3>4. got' \in 0..Bw!Header
      BY <2>2 DEF Bw!Header
    <3> QED
      BY <1>3, <2>2, <3>3, <3>4 DEF Bw!ReadHeader, Bw!TypeOK
  <2> QED
    BY <1>3, <2>1, <2>2 DEF Bw!ReadHeader
<1>4. CASE Bw!ReadData
  <2>1. PICK m \in Bw!Reads(Bw!Header - 1 + length - got) :
           data' = <<got + 1, got + m>> /\ stage' \in {"answered", "failed"}
    BY <1>4 DEF Bw!ReadData, Bw!ReadDataIf
  <2>2. got \in 0..5 /\ size \in Nat
    <3>1. got \in 0..5
      BY DEF Bw!TypeOK, Bw!Header
    <3>2. Bw!Word \in Int
      BY DEF Bw!Word
    <3>3. size \in 0..(Bw!Word - 1)
      BY DEF Bw!TypeOK
    <3> QED
      BY <3>1, <3>2, <3>3
  <2>3. Bw!Header - 1 + length - got \in Nat
    BY <1>1, <2>2 DEF Bw!Header
  <2>4. m \in Nat
    BY <1>1, <2>1, <2>2, <2>3 DEF Bw!Reads
  <2> QED
    BY <1>4, <2>1, <2>2, <2>4 DEF Bw!ReadData, Bw!ReadDataIf, Bw!TypeOK
<1>5. CASE UNCHANGED Bw!vars
  BY <1>5 DEF Bw!vars, Bw!TypeOK
<1> QED
  BY <1>2, <1>3, <1>4, <1>5 DEF Bw!Next

\* Only a registered user is about to be banned.
BannedHaveCkeys == \A h \in Commands : at[h] = "ban" => Di!Author(h) \in Registered

LEMMA DispatchTypesInit == Di!DispatchAssumption /\ Di!Init => Di!TypeOK /\ BannedHaveCkeys
<1> SUFFICES ASSUME Di!DispatchAssumption, Di!Init PROVE Di!TypeOK /\ BannedHaveCkeys
  OBVIOUS
<1>1. Di!AnyMessage \in Di!Message
  BY DEF Di!DispatchAssumption, Di!AnyMessage
<1>2. 0 \in 0..MaxMessages /\ 0 \in 0..MaxTicks
  BY DEF Di!DispatchAssumption
<1>3. Di!TypeOK
  BY <1>1, <1>2 DEF Di!Init, Di!TypeOK, Di!Stages
<1> QED
  BY <1>3 DEF Di!Init, BannedHaveCkeys

LEMMA DispatchTypesNext ==
    Di!DispatchAssumption /\ Di!TypeOK /\ BannedHaveCkeys /\ [Di!Next]_(Di!vars)
        => (Di!TypeOK /\ BannedHaveCkeys)'
<1> SUFFICES ASSUME Di!DispatchAssumption, Di!TypeOK, BannedHaveCkeys, [Di!Next]_(Di!vars)
             PROVE  Di!TypeOK' /\ BannedHaveCkeys'
  OBVIOUS
<1>1. \A h \in Commands : Di!Author(h) \in Authors
  BY DEF Di!TypeOK, Di!Message, Di!Author
<1>2. Di!AnyMessage \in Di!Message
  BY DEF Di!DispatchAssumption, Di!AnyMessage
<1>3. sent \in Nat /\ sent <= MaxMessages /\ ticks \in Nat /\ ticks <= MaxTicks
      /\ MaxMessages \in Nat /\ MaxTicks \in Nat
  BY DEF Di!TypeOK, Di!DispatchAssumption
\* A step of h that changes no more than these.
<1>4. ASSUME NEW h \in Commands, NEW next \in Di!Stages, Di!Goto(h, next),
             next = "ban" => Di!Author(h) \in Registered /\ UNCHANGED message,
             \A g \in Commands : g # h => message'[g] = message[g],
             checks' \in [Authors -> Nat], flagged' \subseteq Authors, banned' \subseteq Registered,
             message' \in [Commands -> Di!Message], ccnt' \in [Commands -> Nat],
             outcomes' \in [Authors -> SUBSET Di!Outcomes], sent' \in 0..MaxMessages,
             counted' \in [Authors -> Nat], spammed' \subseteq Authors,
             UNCHANGED <<ticks, straddled, restarts>>
      PROVE  Di!TypeOK' /\ BannedHaveCkeys'
  <2>1. /\ at' \in [Commands -> Di!Stages] /\ at'[h] = next
        /\ \A g \in Commands : g # h => at'[g] = at[g]
    BY <1>4 DEF Di!Goto, Di!TypeOK
  <2>2. Di!TypeOK'
    BY <1>4, <2>1 DEF Di!TypeOK
  <2>3. BannedHaveCkeys'
    BY <1>4, <2>1 DEF BannedHaveCkeys, Di!Author
  <2> QED
    BY <2>2, <2>3
<1>5. ASSUME NEW h \in Commands, Di!Receive(h) PROVE Di!TypeOK' /\ BannedHaveCkeys'
  <2>1. PICK m \in ChatMessages, next \in {"idle", "count"} :
           /\ message' = [message EXCEPT ![h] = m] /\ Di!Goto(h, next)
           /\ sent < MaxMessages /\ sent' = sent + 1
           /\ UNCHANGED <<checks, flagged, banned, ccnt, outcomes, ticks, counted, spammed, straddled, restarts>>
    BY <1>5 DEF Di!Receive, Di!spam, Di!ghosts
  <2>2. m \in Di!Message /\ next \in Di!Stages /\ sent' \in 0..MaxMessages
    BY <1>3, <2>1 DEF Di!DispatchAssumption, Di!Stages
  <2>3. message' \in [Commands -> Di!Message] /\ \A g \in Commands : g # h => message'[g] = message[g]
    BY <2>1, <2>2 DEF Di!TypeOK
  <2>4. /\ checks' \in [Authors -> Nat] /\ flagged' \subseteq Authors /\ banned' \subseteq Registered
        /\ ccnt' \in [Commands -> Nat] /\ outcomes' \in [Authors -> SUBSET Di!Outcomes]
        /\ counted' \in [Authors -> Nat] /\ spammed' \subseteq Authors
    BY <2>1 DEF Di!TypeOK
  <2> QED
    BY <1>4, <2>1, <2>2, <2>3, <2>4
<1>6. ASSUME NEW h \in Commands, Di!ReadCount(h) \/ Di!WriteCount(h) \/ Di!Judge(h) \/ Di!Autoban(h) \/ Di!Flag(h)
      PROVE  Di!TypeOK' /\ BannedHaveCkeys'
  <2>1. UNCHANGED <<message, outcomes, sent, ticks, straddled, restarts>>
    BY <1>6 DEF Di!ReadCount, Di!WriteCount, Di!Judge, Di!JudgeAt, Di!Autoban, Di!Flag, Di!Spam, Di!ghosts
  <2>2. \E next \in Di!Stages : /\ Di!Goto(h, next)
                                /\ next = "ban" => Di!Author(h) \in Registered
    BY <1>6 DEF Di!ReadCount, Di!WriteCount, Di!Judge, Di!JudgeAt, Di!Autoban, Di!Flag, Di!Spam, Di!Stages
  <2>3. checks' \in [Authors -> Nat] /\ ccnt' \in [Commands -> Nat]
    BY <1>1, <1>6 DEF Di!ReadCount, Di!WriteCount, Di!Judge, Di!JudgeAt, Di!Autoban, Di!Flag, Di!spam, Di!TypeOK
  <2>4. flagged' \subseteq Authors
    BY <1>1, <1>6 DEF Di!ReadCount, Di!WriteCount, Di!Judge, Di!JudgeAt, Di!Autoban, Di!Flag, Di!spam, Di!TypeOK
  <2>5. banned' \subseteq Registered
    BY <1>6 DEF Di!ReadCount, Di!WriteCount, Di!Judge, Di!JudgeAt, Di!Autoban, Di!Flag, Di!spam, Di!Spam,
                Di!TypeOK, BannedHaveCkeys
  <2>6. counted' \in [Authors -> Nat] /\ spammed' \subseteq Authors
    BY <1>1, <1>6 DEF Di!ReadCount, Di!WriteCount, Di!Judge, Di!JudgeAt, Di!Autoban, Di!Flag, Di!ghosts, Di!TypeOK
  <2>7. /\ message' \in [Commands -> Di!Message] /\ sent' \in 0..MaxMessages
        /\ outcomes' \in [Authors -> SUBSET Di!Outcomes]
        /\ \A g \in Commands : g # h => message'[g] = message[g]
    BY <2>1 DEF Di!TypeOK
  <2> QED
    BY <1>4, <2>1, <2>2, <2>3, <2>4, <2>5, <2>6, <2>7
<1>7. ASSUME NEW h \in Commands, \/ Di!Filter(h) \/ Di!TooShort(h) \/ Di!RefuseBanned(h)
                                 \/ Di!RunCommand(h) \/ Di!RunShell(h) \/ Di!RelayChat(h)
      PROVE  Di!TypeOK' /\ BannedHaveCkeys'
  <2>1. UNCHANGED <<checks, flagged, banned, ccnt, sent, ticks, counted, spammed, straddled, restarts>>
    BY <1>7 DEF Di!Filter, Di!TooShort, Di!RefuseBanned, Di!RunCommand, Di!RunShell, Di!RelayChat,
                Di!Dispatched, Di!spam, Di!ghosts
  <2>2. \E next \in {"idle", "count", "dispatch"} : Di!Goto(h, next)
    BY <1>7 DEF Di!Filter, Di!TooShort, Di!RefuseBanned, Di!RunCommand, Di!RunShell, Di!RelayChat,
                Di!Dispatched, Di!Ends
  <2>3. outcomes' \in [Authors -> SUBSET Di!Outcomes]
    <3>1. \A o \in Di!Outcomes : [outcomes EXCEPT ![Di!Author(h)] = @ \cup {o}] \in [Authors -> SUBSET Di!Outcomes]
      BY <1>1 DEF Di!TypeOK
    <3>2. UNCHANGED outcomes \/ \E o \in Di!Outcomes : outcomes' = [outcomes EXCEPT ![Di!Author(h)] = @ \cup {o}]
      BY <1>7 DEF Di!Filter, Di!TooShort, Di!RefuseBanned, Di!RunCommand, Di!RunShell, Di!RelayChat,
                  Di!Dispatched, Di!Ends, Di!Outcomes
    <3> QED
      BY <3>1, <3>2 DEF Di!TypeOK
  <2>4. message' \in [Commands -> Di!Message] /\ \A g \in Commands : g # h => message'[g] = message[g]
    <3>1. CASE UNCHANGED message
      BY <3>1 DEF Di!TypeOK
    <3>2. CASE message' = [message EXCEPT ![h].kind = "text"]
      <4>1. [message[h] EXCEPT !.kind = "text"] \in Di!Message
        BY DEF Di!TypeOK, Di!Message
      <4> QED
        BY <3>2, <4>1 DEF Di!TypeOK
    <3> QED
      BY <1>7, <3>1, <3>2 DEF Di!Filter, Di!TooShort, Di!RefuseBanned, Di!RunCommand, Di!RunShell, Di!RelayChat,
                              Di!Dispatched
  <2>5. /\ checks' \in [Authors -> Nat] /\ flagged' \subseteq Authors /\ banned' \subseteq Registered
        /\ ccnt' \in [Commands -> Nat] /\ sent' \in 0..MaxMessages
        /\ counted' \in [Authors -> Nat] /\ spammed' \subseteq Authors
    BY <2>1 DEF Di!TypeOK
  <2>6. \E next \in Di!Stages : Di!Goto(h, next) /\ next # "ban"
    BY <2>2 DEF Di!Stages
  <2> QED
    BY <1>4, <2>1, <2>3, <2>4, <2>5, <2>6
<1>8. CASE Di!Tick
  <2>1. straddled' \subseteq Authors
    BY <1>1, <1>8 DEF Di!Tick, Di!TypeOK
  <2>2. ticks' \in 0..MaxTicks
    BY <1>3, <1>8 DEF Di!Tick
  <2> QED
    BY <1>8, <2>1, <2>2 DEF Di!Tick, Di!TypeOK, BannedHaveCkeys, Di!Author
<1>9. CASE Di!Restart
  <2>1. restarts' \in Nat
    BY <1>9 DEF Di!Restart, Di!TypeOK
  <2>2. at' \in [Commands -> Di!Stages] /\ \A h \in Commands : at'[h] = "idle"
    BY <1>9 DEF Di!Restart, Di!Stages
  <2> QED
    BY <1>2, <1>9, <2>1, <2>2 DEF Di!Restart, Di!TypeOK, BannedHaveCkeys
<1>10. CASE UNCHANGED Di!vars
  BY <1>10 DEF Di!vars, Di!TypeOK, BannedHaveCkeys, Di!Author
<1> QED
  BY <1>5, <1>6, <1>7, <1>8, <1>9, <1>10 DEF Di!Next

-----------------------------------------------------------------------------
(* LongMessages.                                                           *)

Chunk == [first : Nat, last : Nat, size : Nat]

\* The rest starts where the last chunk ends, and after a mark it is not empty.
AnswerInv ==
    /\ text \in Texts /\ from \in 1..(text.length + 1)
    /\ marked \in BOOLEAN /\ sending \in BOOLEAN /\ refused \in BOOLEAN
    /\ chunks \in Seq(Chunk)
    /\ from = IF chunks = <<>> THEN 1 ELSE chunks[Len(chunks)].last + 1
    /\ marked => from <= text.length
    /\ Lm!AnswerArrives

LEMMA AnswerInit == Lm!LongMessagesAssumption /\ Lm!Init => AnswerInv
<1> SUFFICES ASSUME Lm!LongMessagesAssumption, Lm!Init PROVE AnswerInv
  OBVIOUS
<1>1. text \in Texts /\ text.length \in Nat
  BY DEF Lm!LongMessagesAssumption, Lm!Text, Lm!Init
<1>2. chunks = <<>> /\ <<>> \in Seq(Chunk) /\ DOMAIN <<>> = {}
  BY DEF Lm!Init
<1>3. from = 1 /\ ~marked /\ marked \in BOOLEAN /\ sending /\ sending \in BOOLEAN /\ refused \in BOOLEAN
  BY DEF Lm!Init
<1>4. from \in 1..(text.length + 1)
  BY <1>1, <1>3
<1>5. Lm!AnswerArrives
  BY <1>2, <1>3 DEF Lm!AnswerArrives
<1> QED
  BY <1>1, <1>2, <1>3, <1>4, <1>5 DEF AnswerInv

\* A chunk up to last: only one with a mark, or with bytes, is posted.
LEMMA PostStep ==
    ASSUME Lm!LongMessagesAssumption, AnswerInv, sending,
           NEW last \in Int, NEW bytes \in Nat, NEW mark \in BOOLEAN,
           from - 1 <= last, last <= text.length, mark => last < text.length,
           bytes <= max_message_size, bytes = 0 => ~marked /\ ~mark /\ last < from,
           ~marked /\ ~mark /\ last < from /\ from <= text.length => from \in text.newlines,
           Lm!Post(last, bytes, mark)
    PROVE  AnswerInv'
<1>1. text.length \in Nat /\ from \in Nat /\ from >= 1 /\ from <= text.length + 1
  BY DEF Lm!LongMessagesAssumption, Lm!Text, AnswerInv
<1>2. CASE sending' = FALSE /\ UNCHANGED <<text, from, marked, chunks>>
           /\ refused' = ~(~marked /\ ~mark /\ from..last \subseteq text.newlines)
  <2>1. ~refused' /\ from <= text.length => from \in text.newlines
    <3> SUFFICES ASSUME ~refused', from <= text.length
                 PROVE  from \in text.newlines
      OBVIOUS
    <3>1. ~marked /\ ~mark /\ from..last \subseteq text.newlines
      BY <1>2
    <3>2. CASE last < from
      BY <3>1, <3>2
    <3>3. CASE ~(last < from)
      BY <1>1, <3>1, <3>3
    <3> QED
      BY <3>2, <3>3
  <2>2. refused' \in BOOLEAN
    BY <1>2
  <2> QED
    BY <1>2, <2>1, <2>2 DEF AnswerInv, Lm!AnswerArrives
<1>3. CASE /\ ~(~marked /\ ~mark /\ from..last \subseteq text.newlines)
           /\ chunks' = Append(chunks, [first |-> from, last |-> last, size |-> bytes])
           /\ from' = last + 1 /\ marked' = mark
           /\ sending' = (last < text.length)
           /\ UNCHANGED <<text, refused>>
  <2>1. bytes \in 1..max_message_size
    <3>1. bytes # 0
      BY <1>1, <1>3
    <3> QED
      BY <3>1 DEF Lm!LongMessagesAssumption
  <2>2. [first |-> from, last |-> last, size |-> bytes] \in Chunk
    BY <1>1 DEF Chunk
  <2>3. /\ chunks' \in Seq(Chunk) /\ Len(chunks') = Len(chunks) + 1
        /\ \A i \in 1..Len(chunks) : chunks'[i] = chunks[i]
        /\ chunks'[Len(chunks) + 1] = [first |-> from, last |-> last, size |-> bytes]
        /\ Len(chunks) \in Nat /\ DOMAIN chunks = 1..Len(chunks)
        /\ DOMAIN chunks' = 1..(Len(chunks) + 1)
    BY <1>3, <2>2 DEF AnswerInv
  <2>4. from' = IF chunks' = <<>> THEN 1 ELSE chunks'[Len(chunks')].last + 1
    BY <1>3, <2>3
  <2>5. ASSUME NEW i \in DOMAIN chunks'
        PROVE  /\ chunks'[i].size \in 1..max_message_size
               /\ chunks'[i].first = IF i = 1 THEN 1 ELSE chunks'[i - 1].last + 1
    <3>1. CASE i \in 1..Len(chunks)
      <4>1. chunks'[i] = chunks[i] /\ (i # 1 => chunks'[i - 1] = chunks[i - 1])
        BY <2>3, <3>1
      <4> QED
        BY <2>3, <3>1, <4>1 DEF AnswerInv, Lm!AnswerArrives
    <3>2. CASE i = Len(chunks) + 1
      <4>1. chunks = <<>> <=> i = 1
        BY <2>3, <3>2 DEF AnswerInv
      <4>2. i # 1 => chunks'[i - 1] = chunks[Len(chunks)]
        BY <2>3, <3>2
      <4>3. chunks'[i].size = bytes /\ chunks'[i].first = from
        BY <2>3, <3>2
      <4> QED
        BY <2>1, <3>2, <4>1, <4>2, <4>3 DEF AnswerInv
    <3> QED
      BY <2>3, <3>1, <3>2
  <2>6. last + 1 \in 1..(text.length + 1) /\ (mark => last + 1 <= text.length)
        /\ (~(last < text.length) => ~(last + 1 <= text.length))
    BY <1>1
  <2>7. Lm!AnswerArrives'
    BY <1>3, <2>5, <2>6 DEF Lm!AnswerArrives
  <2>8. (last < text.length) \in BOOLEAN
    OBVIOUS
  <2> QED
    BY <1>3, <2>3, <2>4, <2>6, <2>7, <2>8 DEF AnswerInv
<1> QED
  BY <1>2, <1>3 DEF Lm!Post

\* What strings.LastIndexByte returns: a newline of the rest that fits, or -1.
LEMMA LastNewline ==
    ASSUME Lm!LongMessagesAssumption, AnswerInv
    PROVE  /\ Lm!LastIndex \in Int
           /\ Lm!LastIndex >= 0 =>
                 \E p \in text.newlines : /\ p \in Nat /\ p >= from
                                          /\ Lm!LastIndex = Lm!Prefix + p - from
                                          /\ Lm!LastIndex < max_message_size
<1> DEFINE S == {-1} \cup {Lm!Prefix + p - from : p \in
            {q \in text.newlines : q >= from /\ Lm!Prefix + q - from < max_message_size}}
<1>1. /\ from \in Nat /\ text.newlines \subseteq Nat
      /\ max_message_size \in Nat /\ Lm!Prefix \in Nat
  BY DEF Lm!LongMessagesAssumption, Lm!Text, Lm!Prefix, AnswerInv
<1>2. \A x \in S : x \in Int /\ x >= -1 /\ x <= max_message_size
  BY <1>1
<1>3. S \in SUBSET (-1..max_message_size) /\ S \subseteq Int /\ S # {}
  BY <1>1, <1>2
<1>4. IsFiniteSet(S)
  <2>1. -1 \in Int /\ max_message_size \in Int
    BY <1>1
  <2>2. IsFiniteSet(-1..max_message_size)
    BY <2>1, FS_Interval
  <2> HIDE DEF S
  <2> QED
    BY <1>3, <2>2, FS_Subset
<1>5. Lm!LastIndex = Lm!Max(S)
  BY DEF Lm!LastIndex
<1>6. Lm!LastIndex \in S
  BY <1>3, <1>4, <1>5, MaxIsGreatest
<1> QED
  BY <1>1, <1>6

LEMMA AnswerNext ==
    Lm!LongMessagesAssumption /\ AnswerInv /\ [Lm!Next]_(Lm!vars) => AnswerInv'
<1> SUFFICES ASSUME Lm!LongMessagesAssumption, AnswerInv, [Lm!Next]_(Lm!vars)
             PROVE  AnswerInv'
  OBVIOUS
<1>1. /\ text.length \in Nat /\ from \in Nat /\ from >= 1 /\ from <= text.length + 1
      /\ max_message_size \in Nat /\ Mark \in Nat /\ Mark > 0 /\ max_message_size > 2 * Mark
      /\ Lm!Prefix \in Nat /\ (marked => Lm!Prefix = Mark) /\ (~marked => Lm!Prefix = 0)
      /\ marked \in BOOLEAN /\ (marked => from <= text.length)
  BY DEF Lm!LongMessagesAssumption, Lm!Text, Lm!Prefix, AnswerInv
<1>2. CASE Lm!PostRest
  <2>1. /\ sending /\ Lm!Post(text.length, Lm!RestSize, FALSE)
        /\ Lm!RestSize = Lm!Prefix + text.length + 1 - from
        /\ Lm!RestSize <= max_message_size
    BY <1>2 DEF Lm!PostRest, Lm!RestSize
  <2>2. /\ Lm!RestSize \in Nat /\ (Lm!RestSize = 0 => ~marked /\ text.length < from)
        /\ text.length \in Int /\ from - 1 <= text.length /\ text.length <= text.length
        /\ ~(text.length < from /\ from <= text.length)
    BY <1>1, <2>1
  <2> QED
    BY <1>1, <2>1, <2>2, PostStep
<1>3. CASE Lm!CutAtNewline
  <2>1. /\ sending /\ Lm!Post(from + Lm!LastIndex - Lm!Prefix - 1, Lm!LastIndex, FALSE)
        /\ Lm!Prefix + text.length + 1 - from > max_message_size /\ Lm!LastIndex >= 0
    BY <1>3 DEF Lm!CutAtNewline, Lm!RestSize
  <2>2. PICK p \in text.newlines : /\ p \in Nat /\ p >= from
                                   /\ Lm!LastIndex = Lm!Prefix + p - from
                                   /\ Lm!LastIndex < max_message_size
    BY <2>1, LastNewline
  <2>3. from + Lm!LastIndex - Lm!Prefix - 1 = p - 1
    BY <1>1, <2>2
  <2>4. /\ p - 1 \in Int /\ from - 1 <= p - 1 /\ p - 1 <= text.length
        /\ Lm!LastIndex \in Nat /\ Lm!LastIndex <= max_message_size
        /\ (Lm!LastIndex = 0 => ~marked /\ p - 1 < from)
        /\ (p - 1 < from => p = from)
    BY <1>1, <2>1, <2>2
  <2> QED
    BY <2>1, <2>2, <2>3, <2>4, PostStep
<1>4. CASE Lm!CutAnywhere
  <2> DEFINE last == from + (max_message_size - Mark) - Lm!Prefix - 1
  <2>1. /\ sending /\ Lm!Post(last, (max_message_size - Mark) + Mark, TRUE)
        /\ Lm!Prefix + text.length + 1 - from > max_message_size
    BY <1>4 DEF Lm!CutAnywhere, Lm!CutAfter, Lm!RestSize
  <2>2. /\ last \in Int /\ from - 1 <= last /\ last < text.length /\ last <= text.length
        /\ (max_message_size - Mark) + Mark \in Nat /\ (max_message_size - Mark) + Mark # 0
        /\ (max_message_size - Mark) + Mark <= max_message_size
    BY <1>1, <2>1
  <2> HIDE DEF last
  <2> QED
    BY <2>1, <2>2, PostStep
<1>5. CASE UNCHANGED Lm!vars
  BY <1>5 DEF Lm!vars, AnswerInv, Lm!AnswerArrives
<1> QED
  BY <1>2, <1>3, <1>4, <1>5 DEF Lm!Next

-----------------------------------------------------------------------------
(* Donators.                                                               *)

DonatorKinds ==
    \A h \in Commands :
        /\ job[h] \in DonatorJobs
        /\ at[h] \in {"update", "insert"} => job[h].kind = "update"
        /\ at[h] \in {"read", "add", "write"} => job[h].kind = "rolespawn"

\* What clash says: nothing of one kind is under way twice for one donator.
DonatorsAlone ==
    ~clash => \A g, h \in Commands :
        g # h /\ Do!Active(g) /\ Do!Active(h) => job[g].ckey # job[h].ckey \/ job[g].kind # job[h].kind

\* Who has no row starts afresh, also when a row is about to be inserted.
DonatorsFresh ==
    /\ \A c \in Donors : Do!RowsOf(c) = {} => free[c] = -1
    /\ ~clash => \A h \in Commands : at[h] = "insert" => Do!RowsOf(job[h].ckey) = {}

DonatorsWait == ~clash => \A d \in donators : d.next >= free[d.ckey]

\* What expend_donator is about to write is late enough.
SpawnsCount ==
    ~clash => \A h \in Commands :
        /\ at[h] \in {"add", "write"} => left[h].next >= 0 /\ left[h].next >= free[job[h].ckey]
        /\ at[h] = "add" => left[h].next >= left[h].round
        /\ at[h] = "write" => left[h].next >= left[h].free

DonatorInv ==
    Do!TypeOK /\ DonatorKinds /\ DonatorsAlone /\ DonatorsFresh /\ DonatorsWait /\ SpawnsCount
    /\ Do!PaidIsKept

LEMMA DonatorInit == Do!DonatorsAssumption /\ Do!Init => DonatorInv
<1> SUFFICES ASSUME Do!DonatorsAssumption, Do!Init PROVE DonatorInv
  OBVIOUS
<1>0. donators \in DonatorTables /\ now = 0
  BY DEF Do!Init
<1>1. /\ donators \subseteq Do!Donator /\ IsFiniteSet(donators)
      /\ \A d \in donators : d.next >= -1
      /\ \A h \in Commands : at[h] = "idle"
      /\ \A c \in Donors : free[c] = -1
  <2>1. \A h \in Commands : at[h] = "idle"
    BY DEF Do!Init
  <2>2. \A c \in Donors : free[c] = -1
    BY DEF Do!Init
  <2>3. \A t \in DonatorTables : t \subseteq Do!Donator /\ IsFiniteSet(t) /\ \A d \in t : d.next >= -1
    BY DEF Do!DonatorsAssumption, Do!IsFiniteSet, IsFiniteSet
  <2> QED
    BY <1>0, <2>1, <2>2, <2>3
<1>2. \A d \in donators : d.ckey \in Donors /\ d.upto \in Int /\ d.next \in Int
  BY <1>1 DEF Do!Donator
<1>3. ASSUME NEW c \in Donors
      PROVE  /\ paid[c] \in Int
             /\ now <= paid[c] => \E d \in donators : d.ckey = c /\ d.upto >= paid[c]
  <2> DEFINE S == {d.upto : d \in Do!RowsOf(c)}
             T == S \cup {-1}
  <2>1. Do!RowsOf(c) \in SUBSET donators /\ \A d \in Do!RowsOf(c) : d.ckey = c
    BY DEF Do!RowsOf
  <2>2. IsFiniteSet(Do!RowsOf(c))
    BY <1>1, <2>1, FS_Subset
  <2>3. IsFiniteSet(S)
    <3> DEFINE f == [d \in Do!RowsOf(c) |-> d.upto]
    <3>1. {f[d] : d \in DOMAIN f} = S
      OBVIOUS
    <3>2. f \in [Do!RowsOf(c) -> S] /\ \A x \in S : \E d \in Do!RowsOf(c) : f[d] = x
      OBVIOUS
    <3>3. f \in Surjection(Do!RowsOf(c), S)
      BY <3>2 DEF Surjection
    <3> HIDE DEF f, S
    <3> QED
      BY <2>2, <3>3, FS_Surjection
  <2>4. IsFiniteSet(T)
    <3> HIDE DEF S
    <3> QED
      BY <2>3, FS_AddElement
  <2>5. T \subseteq Int /\ T # {}
    BY <1>2, <2>1
  <2>6. paid[c] = Do!Max(T)
    BY DEF Do!Init
  <2>7. paid[c] \in T
    <3> HIDE DEF T
    <3> QED
      BY <2>4, <2>5, <2>6, MaxIsGreatest
  <2>8. paid[c] = -1 \/ \E d \in Do!RowsOf(c) : paid[c] = d.upto
    BY <2>7
  <2>9. paid[c] \in Int
    BY <2>5, <2>7
  <2>10. CASE paid[c] = -1
    <3>1. ~(now <= -1)
      BY <1>0
    <3> QED
      BY <2>9, <2>10, <3>1
  <2>11. ASSUME NEW d \in Do!RowsOf(c), paid[c] = d.upto
         PROVE  \E e \in donators : e.ckey = c /\ e.upto >= paid[c]
    BY <2>1, <2>9, <2>11
  <2> QED
    BY <2>8, <2>9, <2>10, <2>11
<1>4. Do!PaidIsKept
  BY <1>3 DEF Do!PaidIsKept
<1>5. Do!TypeOK
  <2>1. paid \in [Donors -> Int]
    BY <1>3 DEF Do!Init
  <2>2. now \in 0..MaxTime /\ round \in 0..MaxRound
    BY DEF Do!Init, Do!DonatorsAssumption
  <2>3. job \in [Commands -> Do!Job]
    BY DEF Do!Init, Do!DonatorsAssumption
  <2>4. left \in [Commands -> [round : Nat, next : Int, free : Int]]
    BY DEF Do!Init
  <2>5. cooldown \subseteq Cooldowns /\ free \in [Donors -> Int]
    BY DEF Do!Init
  <2>6. at \in [Commands -> Do!Stages]
    BY DEF Do!Init, Do!Stages
  <2>7. clash \in BOOLEAN /\ late \in BOOLEAN /\ errors \in Nat /\ restarts \in Nat
    BY DEF Do!Init
  <2> QED
    BY <1>1, <2>1, <2>2, <2>3, <2>4, <2>5, <2>6, <2>7 DEF Do!TypeOK
<1>6. DonatorKinds /\ DonatorsAlone /\ SpawnsCount
  BY <1>1 DEF Do!Init, DonatorKinds, DonatorsAlone, SpawnsCount, Do!Active
<1>7. DonatorsFresh /\ DonatorsWait
  BY <1>1, <1>2 DEF DonatorsFresh, DonatorsWait
<1> QED
  BY <1>4, <1>5, <1>6, <1>7 DEF DonatorInv

\* A goroutine goes on: clash tells of the first who is not alone.
LEMMA DonatorGoto ==
    ASSUME Do!TypeOK, DonatorsAlone, NEW h \in Commands, NEW next \in Do!Stages,
           Do!Goto(h, next), UNCHANGED job
    PROVE  /\ at' \in [Commands -> Do!Stages] /\ at'[h] = next
           /\ \A g \in Commands : g # h => at'[g] = at[g]
           /\ clash' \in BOOLEAN /\ (clash => clash')
           /\ DonatorsAlone'
<1>1. /\ at' = [at EXCEPT ![h] = next]
      /\ clash' = (clash \/ \E g \in Commands \ {h} :
                    job[g].ckey = job[h].ckey /\ job[g].kind = job[h].kind
                    /\ Do!Active(g) /\ Do!Active(h)')
  BY DEF Do!Goto
<1>2. /\ at' \in [Commands -> Do!Stages] /\ at'[h] = next
      /\ \A g \in Commands : g # h => at'[g] = at[g]
  BY <1>1 DEF Do!TypeOK
<1>3. clash \in BOOLEAN /\ clash' \in BOOLEAN
  BY <1>1 DEF Do!TypeOK
<1>4. DonatorsAlone'
  <2> SUFFICES ASSUME ~clash', NEW g \in Commands, NEW k \in Commands, g # k,
                      Do!Active(g)', Do!Active(k)'
               PROVE  job[g].ckey # job[k].ckey \/ job[g].kind # job[k].kind
    BY DEF DonatorsAlone
  <2>1. ~clash
    BY <1>1
  <2>2. \A f \in Commands : f # h => (Do!Active(f)' <=> Do!Active(f))
    BY <1>2 DEF Do!Active
  <2>3. CASE g = h
    BY <1>1, <2>2, <2>3
  <2>4. CASE k = h
    BY <1>1, <2>2, <2>4
  <2>5. CASE g # h /\ k # h
    BY <2>1, <2>2, <2>5 DEF DonatorsAlone
  <2> QED
    BY <2>3, <2>4, <2>5
<1> QED
  BY <1>1, <1>2, <1>3, <1>4

\* A step of h that leaves rows and time alone.
LEMMA DonatorAside ==
    ASSUME DonatorInv, NEW h \in Commands, NEW next \in Do!Stages, Do!Goto(h, next),
           UNCHANGED <<donators, cooldown, now, round, job, free, paid, late>>,
           errors' \in Nat, restarts' \in Nat,
           left' \in [Commands -> [round : Nat, next : Int, free : Int]],
           \A g \in Commands : g # h => left'[g] = left[g],
           next # "insert",
           next = "update" => job[h].kind = "update",
           next \in {"read", "add", "write"} => job[h].kind = "rolespawn",
           ~clash =>
              /\ next \in {"add", "write"} =>
                    left'[h].next >= 0 /\ left'[h].next >= free[job[h].ckey]
              /\ next = "add" => left'[h].next >= left'[h].round
              /\ next = "write" => left'[h].next >= left'[h].free
    PROVE  DonatorInv'
<1>1. /\ at' \in [Commands -> Do!Stages] /\ at'[h] = next
      /\ \A g \in Commands : g # h => at'[g] = at[g]
      /\ clash' \in BOOLEAN /\ (clash => clash')
      /\ DonatorsAlone'
  BY DonatorGoto DEF DonatorInv
<1>2. Do!TypeOK'
  BY <1>1 DEF DonatorInv, Do!TypeOK
<1>3. DonatorKinds'
  BY <1>1 DEF DonatorInv, DonatorKinds
<1>4. \A c \in Donors : Do!RowsOf(c)' = Do!RowsOf(c)
  BY DEF Do!RowsOf
<1>5. \A g \in Commands : job[g].ckey \in Donors
  BY DEF DonatorInv, Do!TypeOK, Do!Job
<1>6. DonatorsFresh'
  BY <1>1, <1>4, <1>5 DEF DonatorInv, DonatorsFresh
<1>7. DonatorsWait'
  BY <1>1 DEF DonatorInv, DonatorsWait
<1>8. SpawnsCount'
  BY <1>1 DEF DonatorInv, SpawnsCount
<1>9. Do!PaidIsKept'
  BY <1>1 DEF DonatorInv, Do!PaidIsKept
<1> QED
  BY <1>1, <1>2, <1>3, <1>6, <1>7, <1>8, <1>9 DEF DonatorInv

\* The world turns: what was paid for only runs out.
LEMMA DonatorWorldStep == ASSUME Do!DonatorsAssumption, DonatorInv, Do!World PROVE DonatorInv'
<1>1. /\ UNCHANGED <<donators, at, job, left, free, paid, clash, late, errors, restarts>>
      /\ now' = now \/ now' = now + 1
  BY DEF Do!World, Do!Tick, Do!NextRound, Do!ConfigChanges, Do!faults
<1>2. Do!TypeOK'
  <2>1. cooldown' \subseteq Cooldowns
    BY DEF Do!World, Do!Tick, Do!NextRound, Do!ConfigChanges, DonatorInv, Do!TypeOK
  <2>2. now' \in 0..MaxTime /\ round' \in 0..MaxRound
    <3>1. now \in 0..MaxTime /\ round \in 0..MaxRound /\ MaxTime \in Nat /\ MaxRound \in Nat
      BY DEF DonatorInv, Do!TypeOK, Do!DonatorsAssumption
    <3>2. CASE Do!Tick
      BY <3>1, <3>2 DEF Do!Tick
    <3>3. CASE Do!NextRound
      BY <3>1, <3>3 DEF Do!NextRound
    <3>4. CASE Do!ConfigChanges
      BY <3>1, <3>4 DEF Do!ConfigChanges
    <3> QED
      BY <3>2, <3>3, <3>4 DEF Do!World
  <2> QED
    BY <1>1, <2>1, <2>2 DEF DonatorInv, Do!TypeOK
<1>3. Do!PaidIsKept'
  <2>1. \A c \in Donors : now' <= paid[c] => now <= paid[c]
    BY <1>1 DEF DonatorInv, Do!TypeOK
  <2> QED
    BY <1>1, <2>1 DEF DonatorInv, Do!PaidIsKept
<1>4. DonatorKinds' /\ DonatorsAlone' /\ DonatorsWait' /\ SpawnsCount'
  BY <1>1 DEF DonatorInv, DonatorKinds, DonatorsAlone, DonatorsWait, SpawnsCount, Do!Active
<1>5. DonatorsFresh'
  BY <1>1 DEF DonatorInv, DonatorsFresh, Do!RowsOf
<1> QED
  BY <1>2, <1>3, <1>4, <1>5 DEF DonatorInv

LEMMA DonatorCommandStep ==
    ASSUME DonatorInv, NEW h \in Commands, Do!Command(h) PROVE DonatorInv'
<1>1. job[h] \in Do!Job /\ job[h].kind \in {"update", "check", "rolespawn"}
  BY DEF DonatorInv, Do!TypeOK, Do!Job
<1>2. PICK next \in {"update", "cleanup", "read"} :
         /\ Do!Goto(h, next)
         /\ next = "update" => job[h].kind = "update"
         /\ next = "read" => job[h].kind = "rolespawn"
  BY <1>1 DEF Do!Command, Do!FirstStage
<1>3. next \in Do!Stages
  BY DEF Do!Stages
<1>4. /\ left' = [left EXCEPT ![h] = [round |-> round, next |-> 0, free |-> 0]]
      /\ UNCHANGED <<donators, cooldown, now, round, job, free, paid, late, errors, restarts>>
  BY DEF Do!Command, Do!world, Do!faults
<1>5. /\ left' \in [Commands -> [round : Nat, next : Int, free : Int]]
      /\ \A g \in Commands : g # h => left'[g] = left[g]
      /\ errors' \in Nat /\ restarts' \in Nat
  BY <1>4 DEF DonatorInv, Do!TypeOK
<1> QED
  BY <1>2, <1>3, <1>4, <1>5, DonatorAside

LEMMA DonatorFailStep ==
    ASSUME DonatorInv, NEW h \in Commands, Do!StatementFails(h) PROVE DonatorInv'
<1>1. /\ Do!Goto(h, "ended") /\ "ended" \in Do!Stages
      /\ UNCHANGED <<donators, cooldown, now, round, job, left, free, paid, late>>
      /\ errors' \in Nat /\ restarts' \in Nat
      /\ left \in [Commands -> [round : Nat, next : Int, free : Int]]
  BY DEF Do!StatementFails, Do!world, Do!Stages, DonatorInv, Do!TypeOK
<1> QED
  BY <1>1, DonatorAside

Spawn == [round : Nat, next : Int, free : Int]

\* expend_donator goes on with what it has computed, or gives up.
LEMMA DonatorComputeStep ==
    ASSUME DonatorInv, NEW h \in Commands, NEW step \in {"read", "add"},
           NEW next \in {"add", "write", "ended"}, NEW spawn \in Spawn,
           Do!Compute(h, step, spawn, next),
           ~clash =>
              /\ next \in {"add", "write"} => spawn.next >= 0 /\ spawn.next >= free[job[h].ckey]
              /\ next = "add" => spawn.next >= spawn.round
              /\ next = "write" => spawn.next >= spawn.free
    PROVE  DonatorInv'
<1>1. /\ at[h] = step /\ left' = [left EXCEPT ![h] = spawn] /\ Do!Goto(h, next)
      /\ UNCHANGED <<donators, cooldown, now, round, job, free, paid, late, errors, restarts>>
  BY DEF Do!Compute, Do!world, Do!faults
<1>2. next \in Do!Stages /\ job[h].kind = "rolespawn"
  BY <1>1 DEF Do!Stages, DonatorInv, DonatorKinds
<1>3. /\ left' \in [Commands -> [round : Nat, next : Int, free : Int]] /\ left'[h] = spawn
      /\ \A g \in Commands : g # h => left'[g] = left[g]
      /\ errors' \in Nat /\ restarts' \in Nat
  BY <1>1 DEF DonatorInv, Do!TypeOK, Spawn
<1> QED
  BY <1>1, <1>2, <1>3, DonatorAside

\* It reads the round of a row, which is late enough.
LEMMA DonatorReadStep ==
    ASSUME DonatorInv, NEW h \in Commands, Do!ReadNextRound(h) PROVE DonatorInv'
<1>1. left[h] \in Spawn /\ job[h].ckey \in Donors
  BY DEF DonatorInv, Do!TypeOK, Do!Job, Spawn
<1>2. CASE Do!Compute(h, "read", left[h], "ended")
  BY <1>1, <1>2, DonatorComputeStep
<1>3. ASSUME NEW d \in Do!RowsOf(job[h].ckey),
             Do!Compute(h, "read", [left[h] EXCEPT !.next = Do!Max({d.next, left[h].round})], "add")
      PROVE  DonatorInv'
  <2> DEFINE m == Do!Max({d.next, left[h].round})
             spawn == [left[h] EXCEPT !.next = m]
  <2>1. d \in donators /\ d.ckey = job[h].ckey /\ d.next \in Int
    BY DEF Do!RowsOf, DonatorInv, Do!TypeOK, Do!Donator
  <2>2. ~clash => d.next >= free[job[h].ckey]
    BY <2>1 DEF DonatorInv, DonatorsWait
  <2>3. free[job[h].ckey] \in Int /\ left[h].round \in Nat /\ left[h].round \in Int
    BY <1>1 DEF DonatorInv, Do!TypeOK, Spawn
  <2>4. m \in Int /\ m >= d.next /\ m >= left[h].round
    <3>1. m \in {d.next, left[h].round} /\ m >= d.next /\ m >= left[h].round
      BY <2>1, <2>3, MaxOfTwo
    <3> HIDE DEF m
    <3> QED
      BY <2>1, <2>3, <3>1
  <2>5. Do!Compute(h, "read", spawn, "add")
    BY <1>3
  <2> HIDE DEF m
  <2>6. spawn \in Spawn /\ spawn.next = m /\ spawn.round = left[h].round
    BY <1>1, <2>4 DEF Spawn
  <2> HIDE DEF spawn
  <2>7. /\ spawn.next >= spawn.round /\ spawn.next >= 0
        /\ ~clash => spawn.next >= free[job[h].ckey]
    BY <2>1, <2>2, <2>3, <2>4, <2>6
  <2> QED
    BY <2>5, <2>6, <2>7, DonatorComputeStep
<1> QED
  BY <1>2, <1>3 DEF Do!ReadNextRound

\* Then it adds the cooldown, which no discount makes negative.
LEMMA DonatorAddStep ==
    ASSUME Do!DonatorsAssumption, DonatorInv, NEW h \in Commands, Do!AddCooldown(h)
    PROVE  DonatorInv'
<1>1. left[h] \in Spawn /\ job[h].ckey \in Donors /\ job[h].discount \in 0..2
  BY DEF DonatorInv, Do!TypeOK, Do!Job, Spawn
<1>2. CASE Do!Compute(h, "add", left[h], "ended")
  BY <1>1, <1>2, DonatorComputeStep
<1>3. ASSUME NEW c \in cooldown,
             Do!Compute(h, "add", [left[h] EXCEPT !.next = @ + c - job[h].discount,
                                         !.free = left[h].round + c - job[h].discount], "write")
      PROVE  DonatorInv'
  <2> DEFINE n == left[h].next + c - job[h].discount
             f == left[h].round + c - job[h].discount
             spawn == [left[h] EXCEPT !.next = n, !.free = f]
  <2>1. c \in Nat /\ c >= job[h].discount
    BY <1>1 DEF DonatorInv, DonatorKinds, Do!TypeOK, Do!DonatorsAssumption
  <2>2. free[job[h].ckey] \in Int /\ left[h].round \in Nat /\ left[h].next \in Int
    BY <1>1 DEF DonatorInv, Do!TypeOK, Spawn
  <2>3. at[h] = "add"
    BY <1>3 DEF Do!Compute
  <2>4. ~clash => left[h].next >= 0 /\ left[h].next >= free[job[h].ckey]
                  /\ left[h].next >= left[h].round
    BY <2>3 DEF DonatorInv, SpawnsCount
  <2>5. Do!Compute(h, "add", spawn, "write")
    BY <1>3
  <2>6. n \in Int /\ f \in Int
    BY <1>1, <2>1, <2>2
  <2>7. ~clash => n >= 0 /\ n >= free[job[h].ckey] /\ n >= f
    BY <1>1, <2>1, <2>2, <2>4
  <2> HIDE DEF n, f
  <2>8. spawn \in Spawn /\ spawn.next = n /\ spawn.free = f
    BY <1>1, <2>6 DEF Spawn
  <2> HIDE DEF spawn
  <2> QED
    BY <2>5, <2>7, <2>8, DonatorComputeStep
<1> QED
  BY <1>2, <1>3 DEF Do!AddCooldown

\* The statement that ends the recording of a spawn.
LEMMA DonatorExpendStep ==
    ASSUME DonatorInv, NEW h \in Commands, Do!ExpendDonator(h) PROVE DonatorInv'
<1> DEFINE c == job[h].ckey
           old == Do!RowsOf(c)
<1>1. /\ at[h] = "write"
      /\ donators' = (donators \ old) \cup {[d EXCEPT !.next = left[h].next] : d \in old}
      /\ free' = IF old = {} THEN free ELSE [free EXCEPT ![c] = Do!Max({@, left[h].free})]
      /\ UNCHANGED <<cooldown, now, round, job, left, paid, late, errors, restarts>>
      /\ Do!Goto(h, "ended") /\ "ended" \in Do!Stages
  BY DEF Do!ExpendDonator, Do!ExpendTo, Do!world, Do!faults, Do!Stages
<1>2. /\ at' \in [Commands -> Do!Stages] /\ at'[h] = "ended"
      /\ \A g \in Commands : g # h => at'[g] = at[g]
      /\ clash' \in BOOLEAN /\ (clash => clash')
      /\ DonatorsAlone'
  BY <1>1, DonatorGoto DEF DonatorInv
<1>3. /\ c \in Donors /\ left[h].next \in Int /\ left[h].free \in Int
      /\ free \in [Donors -> Int] /\ donators \subseteq Do!Donator
  BY DEF DonatorInv, Do!TypeOK, Do!Job
<1>4. \A d \in donators : /\ d.ckey \in Donors /\ d.upto \in Int /\ d.next \in Int
                          /\ [d EXCEPT !.next = left[h].next] \in Do!Donator
                          /\ [d EXCEPT !.next = left[h].next].ckey = d.ckey
                          /\ [d EXCEPT !.next = left[h].next].upto = d.upto
                          /\ [d EXCEPT !.next = left[h].next].next = left[h].next
  BY <1>3 DEF Do!Donator
<1>5. /\ old \subseteq donators
      /\ \A d \in donators : d \in old <=> d.ckey = c
  BY DEF Do!RowsOf
<1>6. ~clash => left[h].next >= 0 /\ left[h].next >= free[c] /\ left[h].next >= left[h].free
  BY <1>1 DEF DonatorInv, SpawnsCount
<1>7. /\ Do!Max({free[c], left[h].free}) \in {free[c], left[h].free}
      /\ Do!Max({free[c], left[h].free}) \in Int
      /\ Do!Max({free[c], left[h].free}) >= free[c]
  <2>1. free[c] \in Int
    BY <1>3
  <2>2. /\ Do!Max({free[c], left[h].free}) \in {free[c], left[h].free}
        /\ Do!Max({free[c], left[h].free}) >= free[c]
    BY <1>3, <2>1, MaxOfTwo
  <2> QED
    BY <1>3, <2>1, <2>2
<1>8. free' \in [Donors -> Int] /\ \A b \in Donors : b # c \/ old = {} => free'[b] = free[b]
  BY <1>1, <1>3, <1>7
<1>9. old # {} => free'[c] = Do!Max({free[c], left[h].free})
  BY <1>1, <1>3
<1> HIDE DEF old, c
<1>10. Do!TypeOK'
  BY <1>1, <1>2, <1>4, <1>5, <1>8 DEF DonatorInv, Do!TypeOK
<1>11. DonatorKinds'
  BY <1>1, <1>2 DEF DonatorInv, DonatorKinds
<1>12. ASSUME NEW b \in Donors PROVE Do!RowsOf(b)' = {} <=> Do!RowsOf(b) = {}
  <2>1. \A d \in donators' : \E e \in donators : e.ckey = d.ckey
    BY <1>1, <1>4, <1>5
  <2>2. \A e \in donators : \E d \in donators' : e.ckey = d.ckey
    BY <1>1, <1>4, <1>5
  <2> QED
    BY <2>1, <2>2 DEF Do!RowsOf
<1>13. DonatorsFresh'
  <2>1. ASSUME NEW b \in Donors, Do!RowsOf(b)' = {} PROVE free'[b] = -1
    <3>1. Do!RowsOf(b) = {}
      BY <1>12, <2>1
    <3>2. b = c => old = {}
      BY <3>1 DEF old
    <3> QED
      BY <1>8, <3>1, <3>2 DEF DonatorInv, DonatorsFresh
  <2>2. ASSUME ~clash', NEW g \in Commands, at'[g] = "insert" PROVE Do!RowsOf(job[g].ckey)' = {}
    <3>1. at[g] = "insert" /\ job[g].ckey \in Donors
      BY <1>2, <2>2 DEF DonatorInv, Do!TypeOK, Do!Job
    <3>2. Do!RowsOf(job[g].ckey) = {}
      BY <1>2, <2>2, <3>1 DEF DonatorInv, DonatorsFresh
    <3>3. \A b \in Donors : b = job[g].ckey => Do!RowsOf(b)' = {}
      BY <1>12, <3>2
    <3> QED
      BY <1>1, <3>1, <3>3 DEF Do!RowsOf
  <2> QED
    BY <1>1, <2>1, <2>2 DEF DonatorsFresh
<1>14. DonatorsWait'
  <2> SUFFICES ASSUME ~clash', NEW d \in donators' PROVE d.next >= free'[d.ckey]
    BY DEF DonatorsWait
  <2>0. ~clash
    BY <1>2
  <2>1. CASE d \in donators /\ d \notin old
    <3>1. d.ckey # c /\ d.ckey \in Donors
      BY <1>4, <1>5, <2>1
    <3> QED
      BY <1>8, <2>0, <2>1, <3>1 DEF DonatorInv, DonatorsWait
  <2>2. ASSUME NEW e \in old, d = [e EXCEPT !.next = left[h].next] PROVE d.next >= free'[d.ckey]
    <3>1. d.next = left[h].next /\ d.ckey = c /\ old # {}
      BY <1>4, <1>5, <2>2
    <3> QED
      BY <1>3, <1>6, <1>7, <1>9, <2>0, <3>1
  <2> QED
    BY <1>1, <2>1, <2>2
<1>15. SpawnsCount'
  <2> SUFFICES ASSUME ~clash', NEW g \in Commands
               PROVE  /\ at'[g] \in {"add", "write"} => left[g].next >= 0 /\ left[g].next >= free'[job[g].ckey]
                      /\ at'[g] = "add" => left[g].next >= left[g].round
                      /\ at'[g] = "write" => left[g].next >= left[g].free
    BY <1>1 DEF SpawnsCount
  <2>0. ~clash
    BY <1>2
  <2>1. CASE g = h
    BY <1>2, <2>1
  <2>2. CASE g # h /\ at[g] \in {"add", "write"}
    <3>1. job[g].ckey # c /\ job[g].ckey \in Donors
      BY <1>1, <2>0, <2>2 DEF DonatorInv, DonatorsAlone, DonatorKinds, Do!Active, Do!TypeOK, Do!Job, c
    <3> QED
      BY <1>2, <1>8, <2>0, <2>2, <3>1 DEF DonatorInv, SpawnsCount
  <2>3. CASE g # h /\ at[g] \notin {"add", "write"}
    BY <1>2, <2>3
  <2> QED
    BY <2>1, <2>2, <2>3
<1>16. Do!PaidIsKept'
  <2> SUFFICES ASSUME ~clash', ~late', NEW b \in Donors, now' <= paid'[b]
               PROVE  \E d \in donators' : d.ckey = b /\ d.upto >= paid'[b]
    BY DEF Do!PaidIsKept
  <2>1. PICK d \in donators : d.ckey = b /\ d.upto >= paid[b]
    BY <1>1, <1>2 DEF DonatorInv, Do!PaidIsKept
  <2>2. CASE d \notin old
    BY <1>1, <2>1, <2>2
  <2>3. CASE d \in old
    <3>1. [d EXCEPT !.next = left[h].next] \in donators'
      BY <1>1, <2>3
    <3> QED
      BY <1>1, <1>4, <2>1, <3>1
  <2> QED
    BY <2>2, <2>3
<1> QED
  BY <1>2, <1>10, <1>11, <1>13, <1>14, <1>15, <1>16 DEF DonatorInv

LEMMA DonatorBasics ==
    ASSUME DonatorInv
    PROVE  /\ now \in Int /\ donators \subseteq Do!Donator
           /\ paid \in [Donors -> Int] /\ late \in BOOLEAN
           /\ \A h \in Commands : job[h].ckey \in Donors /\ job[h].dur \in Int
<1>1. Durations \subseteq Int /\ MaxTime \in Nat
  BY ComponentsAssumption DEF ComponentsAssumption, Do!DonatorsAssumption
<1>2. now \in 0..MaxTime /\ \A h \in Commands : job[h] \in Do!Job
  BY DEF DonatorInv, Do!TypeOK
<1>3. \A h \in Commands : job[h].ckey \in Donors /\ job[h].dur \in Int
  BY <1>1, <1>2 DEF Do!Job
<1>4. now \in Int
  BY <1>1, <1>2
<1> QED
  BY <1>3, <1>4 DEF DonatorInv, Do!TypeOK

\* What giving time does, but for the rows: a donator has paid for it, and with
\* ~late none of his rows had expired.
Given(h, step, rows0, next) ==
    /\ at[h] = step /\ job[h].kind = "update"
    /\ donators' = rows0 /\ UNCHANGED <<now, job, free>>
    /\ \A c \in Donors : c # job[h].ckey \/ rows0 = donators => paid'[c] = paid[c]
    /\ rows0 # donators =>
          paid'[job[h].ckey] = Do!Max({paid[job[h].ckey], now}) + job[h].dur
    /\ ~late' => ~late /\ (step = "update" => \A d \in Do!RowsOf(job[h].ckey) : ~(d.upto < now))
    /\ at'[h] = next /\ \A g \in Commands : g # h => at'[g] = at[g]
    /\ clash => clash'
    /\ Do!TypeOK' /\ DonatorKinds' /\ DonatorsAlone' /\ SpawnsCount'

LEMMA DonatorGive ==
    ASSUME DonatorInv, NEW h \in Commands, NEW step \in {"update", "insert"}, NEW rows0,
           NEW next \in {"insert", "cleanup"}, Do!GiveTime(h, step, rows0, next),
           rows0 \subseteq Do!Donator
    PROVE  Given(h, step, rows0, next)
<1>1. /\ at[h] = step /\ donators' = rows0
      /\ paid' = [paid EXCEPT ![job[h].ckey] =
                    IF rows0 = donators THEN @ ELSE Do!Extended(@, job[h].dur)]
      /\ late' = (late \/ (step = "update" /\ \E d \in Do!RowsOf(job[h].ckey) : d.upto < now))
      /\ UNCHANGED <<cooldown, now, round, job, left, free, errors, restarts>>
      /\ Do!Goto(h, next) /\ next \in Do!Stages
  BY DEF Do!GiveTime, Do!world, Do!faults, Do!Stages
<1>2. /\ at' \in [Commands -> Do!Stages] /\ at'[h] = next
      /\ \A g \in Commands : g # h => at'[g] = at[g]
      /\ clash' \in BOOLEAN /\ (clash => clash')
      /\ DonatorsAlone'
  BY <1>1, DonatorGoto DEF DonatorInv
<1>3. /\ job[h].kind = "update" /\ job[h].ckey \in Donors /\ job[h].dur \in Int
      /\ now \in Int /\ paid \in [Donors -> Int] /\ late \in BOOLEAN
  BY <1>1, DonatorBasics DEF DonatorInv, DonatorKinds
<1>4. /\ Do!Extended(paid[job[h].ckey], job[h].dur) \in Int
      /\ Do!Extended(paid[job[h].ckey], job[h].dur) = Do!Max({paid[job[h].ckey], now}) + job[h].dur
  <2>1. paid[job[h].ckey] \in Int
    BY <1>3
  <2>2. Do!Max({paid[job[h].ckey], now}) \in {paid[job[h].ckey], now}
    BY <1>3, <2>1, MaxOfTwo
  <2>3. Do!Max({paid[job[h].ckey], now}) \in Int
    BY <1>3, <2>1, <2>2
  <2> QED
    BY <1>3, <2>3 DEF Do!Extended
<1>5. /\ paid' \in [Donors -> Int]
      /\ \A c \in Donors : c # job[h].ckey \/ rows0 = donators => paid'[c] = paid[c]
      /\ rows0 # donators => paid'[job[h].ckey] = Do!Extended(paid[job[h].ckey], job[h].dur)
  BY <1>1, <1>3, <1>4
<1>6. late' \in BOOLEAN
      /\ (~late' => ~late /\ (step = "update" => \A d \in Do!RowsOf(job[h].ckey) : ~(d.upto < now)))
  BY <1>1, <1>3
<1>7. Do!TypeOK'
  BY <1>1, <1>2, <1>5, <1>6 DEF DonatorInv, Do!TypeOK
<1>8. DonatorKinds'
  BY <1>1, <1>2, <1>3 DEF DonatorInv, DonatorKinds
<1>9. SpawnsCount'
  BY <1>1, <1>2 DEF DonatorInv, SpawnsCount
<1> QED
  BY <1>1, <1>2, <1>3, <1>4, <1>5, <1>6, <1>7, <1>8, <1>9 DEF Given

\* update_sdonator finds rows: each lasts longer, and none had expired.
LEMMA DonatorUpdateStep ==
    ASSUME DonatorInv, NEW h \in Commands, Do!UpdateDonator(h) PROVE DonatorInv'
<1> DEFINE c == job[h].ckey
           old == Do!RowsOf(c)
           Longer(d) == [d EXCEPT !.upto = @ + job[h].dur]
           rows0 == (donators \ old) \cup {Longer(d) : d \in old}
           next == IF old = {} THEN "insert" ELSE "cleanup"
<1>1. Do!GiveTime(h, "update", rows0, next)
  BY DEF Do!UpdateDonator
<1>2. next \in {"insert", "cleanup"} /\ (next = "insert" => old = {})
  OBVIOUS
<1>3. /\ job[h].dur \in Int /\ c \in Donors /\ now \in Int /\ donators \subseteq Do!Donator
      /\ paid \in [Donors -> Int]
  BY DonatorBasics
<1>4. \A d \in donators : /\ d.ckey \in Donors /\ d.upto \in Int /\ d.next \in Int
                          /\ Longer(d) \in Do!Donator /\ Longer(d).ckey = d.ckey
                          /\ Longer(d).upto = d.upto + job[h].dur /\ Longer(d).next = d.next
  BY <1>3 DEF Do!Donator
<1>5. old \subseteq donators /\ \A d \in donators : d \in old <=> d.ckey = c
  BY DEF Do!RowsOf
<1>6. rows0 \subseteq Do!Donator
  BY <1>3, <1>4, <1>5
<1> HIDE DEF rows0, next
<1>7. /\ donators' = rows0 /\ UNCHANGED <<now, job, free>>
      /\ \A b \in Donors : b # c \/ rows0 = donators => paid'[b] = paid[b]
      /\ rows0 # donators => paid'[c] = Do!Max({paid[c], now}) + job[h].dur
      /\ ~late' => ~late /\ \A d \in old : ~(d.upto < now)
      /\ at'[h] = next /\ \A g \in Commands : g # h => at'[g] = at[g]
      /\ clash => clash'
      /\ Do!TypeOK' /\ DonatorKinds' /\ DonatorsAlone' /\ SpawnsCount'
  <2>1. Given(h, "update", rows0, next)
    BY <1>1, <1>2, <1>6, DonatorGive
  <2> QED
    BY <2>1 DEF Given
<1>8. /\ \A d \in donators' : \E e \in donators : e.ckey = d.ckey /\ e.next = d.next
      /\ \A e \in donators : \E d \in donators' : e.ckey = d.ckey
  <2>1. ASSUME NEW d \in donators' PROVE \E e \in donators : e.ckey = d.ckey /\ e.next = d.next
    <3>1. CASE d \in donators
      BY <3>1
    <3>2. ASSUME NEW e \in old, d = Longer(e) PROVE e \in donators /\ e.ckey = d.ckey /\ e.next = d.next
      BY <1>4, <1>5, <3>2
    <3> QED
      BY <1>7, <3>1, <3>2 DEF rows0
  <2>2. ASSUME NEW e \in donators PROVE \E d \in donators' : e.ckey = d.ckey
    <3>1. CASE e \notin old
      BY <1>7, <3>1 DEF rows0
    <3>2. CASE e \in old
      <4>1. Longer(e) \in donators' /\ Longer(e).ckey = e.ckey
        BY <1>4, <1>5, <1>7, <3>2 DEF rows0
      <4> QED
        BY <4>1
    <3> QED
      BY <3>1, <3>2
  <2> QED
    BY <2>1, <2>2
<1> HIDE DEF old, c, Longer
<1>9. \A b \in Donors : Do!RowsOf(b)' = {} <=> Do!RowsOf(b) = {}
  BY <1>8 DEF Do!RowsOf
<1>10. DonatorsFresh'
  <2>1. ASSUME ~clash', NEW g \in Commands, at'[g] = "insert" PROVE Do!RowsOf(job[g].ckey)' = {}
    <3>1. Do!RowsOf(job[g].ckey) = {} /\ job[g].ckey \in Donors
      <4>1. job[g].ckey \in Donors
        BY DEF DonatorInv, Do!TypeOK, Do!Job
      <4>2. CASE g = h
        BY <1>2, <1>7, <2>1, <4>1, <4>2 DEF old, c
      <4>3. CASE g # h
        BY <1>7, <2>1, <4>1, <4>3 DEF DonatorInv, DonatorsFresh
      <4> QED
        BY <4>2, <4>3
    <3>2. \A b \in Donors : b = job[g].ckey => Do!RowsOf(b)' = {}
      BY <1>9, <3>1
    <3> QED
      BY <1>7, <3>1, <3>2 DEF Do!RowsOf
  <2> QED
    BY <1>7, <1>9, <2>1 DEF DonatorInv, DonatorsFresh
<1>11. DonatorsWait'
  BY <1>7, <1>8 DEF DonatorInv, DonatorsWait
<1>12. Do!PaidIsKept'
  <2> SUFFICES ASSUME ~clash', ~late', NEW b \in Donors, now <= paid'[b]
               PROVE  \E d \in donators' : d.ckey = b /\ d.upto >= paid'[b]
    BY <1>7 DEF Do!PaidIsKept
  <2>0. ~clash /\ ~late
    BY <1>7
  <2>1. now <= paid[b] => \E d \in donators : d.ckey = b /\ d.upto >= paid[b]
    BY <2>0 DEF DonatorInv, Do!PaidIsKept
  <2>2. CASE rows0 = donators
    BY <1>7, <2>1, <2>2
  <2>3. CASE b # c
    <3>1. PICK d \in donators : d.ckey = b /\ d.upto >= paid[b]
      BY <1>7, <2>1, <2>3
    <3>2. d \in donators'
      BY <1>5, <1>7, <2>3, <3>1 DEF rows0
    <3> QED
      BY <1>7, <2>3, <3>1, <3>2
  <2>4. CASE rows0 # donators /\ b = c
    <3>1. paid[c] \in Int /\ paid'[c] = Do!Max({paid[c], now}) + job[h].dur
      BY <1>3, <1>7, <2>4
    <3>2. Do!Max({paid[c], now}) \in {paid[c], now} /\ Do!Max({paid[c], now}) >= paid[c]
          /\ Do!Max({paid[c], now}) >= now
      BY <1>3, <3>1, MaxOfTwo
    <3>3. \E d \in old : d.upto >= Do!Max({paid[c], now})
      <4>1. CASE Do!Max({paid[c], now}) = paid[c]
        BY <1>3, <1>5, <2>1, <2>4, <3>2, <4>1
      <4>2. CASE Do!Max({paid[c], now}) = now
        <5>1. PICK d \in old : TRUE
          <6>1. old # {}
            BY <2>4 DEF rows0
          <6> QED
            BY <6>1
        <5>2. d.upto \in Int /\ ~(d.upto < now)
          BY <1>4, <1>5, <1>7
        <5> QED
          BY <1>3, <4>2, <5>2
      <4> QED
        BY <3>2, <4>1, <4>2
    <3>4. PICK d \in old : d.upto >= Do!Max({paid[c], now})
      BY <3>3
    <3>5. /\ Longer(d) \in donators' /\ Longer(d).ckey = c
          /\ Longer(d).upto = d.upto + job[h].dur /\ d.upto \in Int
      BY <1>4, <1>5, <1>7 DEF rows0
    <3>6. Do!Max({paid[c], now}) \in Int
      BY <1>3, <3>1, <3>2
    <3>7. Longer(d).upto >= paid'[c]
      BY <1>3, <3>1, <3>4, <3>5, <3>6
    <3> QED
      BY <2>4, <3>5, <3>7
  <2> QED
    BY <2>2, <2>3, <2>4
<1> QED
  BY <1>7, <1>10, <1>11, <1>12 DEF DonatorInv

\* It finds none and inserts one: what was paid for before has run out.
LEMMA DonatorInsertStep ==
    ASSUME DonatorInv, NEW h \in Commands, Do!InsertDonator(h) PROVE DonatorInv'
<1> DEFINE c == job[h].ckey
           new == [ckey |-> c, upto |-> now + job[h].dur, next |-> -1]
           rows0 == donators \cup {new}
<1>1. Do!GiveTime(h, "insert", rows0, "cleanup")
  BY DEF Do!InsertDonator
<1>2. /\ job[h].dur \in Int /\ c \in Donors /\ now \in Int /\ donators \subseteq Do!Donator
      /\ paid \in [Donors -> Int]
  BY DonatorBasics
<1>3. new \in Do!Donator /\ new.ckey = c /\ new.upto = now + job[h].dur /\ new.next = -1
  BY <1>2 DEF Do!Donator
<1>4. rows0 \subseteq Do!Donator
  BY <1>2, <1>3
<1> HIDE DEF new, rows0
<1>5. Given(h, "insert", rows0, "cleanup")
  BY <1>1, <1>4, DonatorGive
<1>6. /\ donators' = donators \cup {new} /\ UNCHANGED <<now, job, free>>
      /\ \A b \in Donors : b # c \/ rows0 = donators => paid'[b] = paid[b]
      /\ rows0 # donators => paid'[c] = Do!Max({paid[c], now}) + job[h].dur
      /\ ~late' => ~late
      /\ at[h] = "insert" /\ job[h].kind = "update"
      /\ at'[h] = "cleanup" /\ \A g \in Commands : g # h => at'[g] = at[g]
      /\ clash => clash'
      /\ Do!TypeOK' /\ DonatorKinds' /\ DonatorsAlone' /\ SpawnsCount'
  BY <1>5 DEF Given, rows0
<1>7. ~clash => Do!RowsOf(c) = {} /\ free[c] = -1
  BY <1>2, <1>6 DEF DonatorInv, DonatorsFresh
<1>8. DonatorsFresh'
  <2>1. ASSUME NEW b \in Donors, Do!RowsOf(b)' = {} PROVE free'[b] = -1
    <3>1. Do!RowsOf(b) = {}
      BY <1>6, <2>1 DEF Do!RowsOf
    <3> QED
      BY <1>6, <3>1 DEF DonatorInv, DonatorsFresh
  <2>2. ASSUME ~clash', NEW g \in Commands, at'[g] = "insert" PROVE Do!RowsOf(job[g].ckey)' = {}
    <3>1. ~clash /\ g # h /\ at[g] = "insert"
      BY <1>6, <2>2
    <3>2. job[g].kind = "update" /\ Do!Active(g) /\ Do!Active(h)
      BY <1>6, <3>1 DEF DonatorInv, DonatorKinds, Do!Active
    <3>3. job[g].ckey # c
      BY <1>6, <3>1, <3>2 DEF DonatorInv, DonatorsAlone
    <3>4. Do!RowsOf(job[g].ckey) = {}
      BY <3>1 DEF DonatorInv, DonatorsFresh
    <3> QED
      BY <1>3, <1>6, <3>3, <3>4 DEF Do!RowsOf
  <2> QED
    BY <1>6, <2>1, <2>2 DEF DonatorsFresh
<1>9. DonatorsWait'
  <2> SUFFICES ASSUME ~clash', NEW d \in donators' PROVE d.next >= free[d.ckey]
    BY <1>6 DEF DonatorsWait
  <2>1. CASE d \in donators
    BY <1>6, <2>1 DEF DonatorInv, DonatorsWait
  <2>2. CASE d = new
    BY <1>3, <1>6, <1>7, <2>2
  <2> QED
    BY <1>6, <2>1, <2>2
<1>10. Do!PaidIsKept'
  <2> SUFFICES ASSUME ~clash', ~late', NEW b \in Donors, now <= paid'[b]
               PROVE  \E d \in donators' : d.ckey = b /\ d.upto >= paid'[b]
    BY <1>6 DEF Do!PaidIsKept
  <2>1. now <= paid[b] => \E d \in donators : d.ckey = b /\ d.upto >= paid[b]
    BY <1>6 DEF DonatorInv, Do!PaidIsKept
  <2>2. CASE b # c \/ rows0 = donators
    BY <1>6, <2>1, <2>2
  <2>3. CASE b = c /\ rows0 # donators
    <3>1. ~(now <= paid[c])
      BY <1>6, <1>7, <2>1, <2>3 DEF Do!RowsOf
    <3>2. paid[c] \in Int /\ paid'[c] = Do!Max({paid[c], now}) + job[h].dur
      BY <1>2, <1>6, <2>3
    <3>3. Do!Max({paid[c], now}) \in {paid[c], now} /\ Do!Max({paid[c], now}) >= now
      BY <1>2, <3>2, MaxOfTwo
    <3>4. Do!Max({paid[c], now}) = now
      BY <1>2, <3>1, <3>2, <3>3
    <3>5. new.upto >= paid'[c]
      BY <1>2, <1>3, <3>2, <3>4
    <3> QED
      BY <1>3, <1>6, <2>3, <3>5
  <2> QED
    BY <2>2, <2>3
<1> QED
  BY <1>6, <1>8, <1>9, <1>10 DEF DonatorInv

\* Only rows that have expired are cleaned up.
LEMMA DonatorCleanupStep ==
    ASSUME DonatorInv, NEW h \in Commands, Do!Cleanup(h) PROVE DonatorInv'
<1> DEFINE kept == {d \in donators : ~(d.upto < now)}
<1>1. /\ donators' = kept
      /\ free' = [c \in Donors |-> IF \E d \in kept : d.ckey = c THEN free[c] ELSE -1]
      /\ UNCHANGED <<cooldown, now, round, job, left, paid, late, errors, restarts>>
      /\ Do!Goto(h, "ended") /\ "ended" \in Do!Stages
  BY DEF Do!Cleanup, Do!CleanupIf, Do!world, Do!faults, Do!Stages
<1>2. /\ at' \in [Commands -> Do!Stages] /\ at'[h] = "ended"
      /\ \A g \in Commands : g # h => at'[g] = at[g]
      /\ clash' \in BOOLEAN /\ (clash => clash')
      /\ DonatorsAlone'
  BY <1>1, DonatorGoto DEF DonatorInv
<1>3. /\ now \in Int /\ donators \subseteq Do!Donator
      /\ \A g \in Commands : job[g].ckey \in Donors
  BY DonatorBasics
<1>4. \A d \in donators : d.ckey \in Donors /\ d.upto \in Int /\ d.next \in Int
  BY <1>3 DEF Do!Donator
<1>5. kept \subseteq donators
  OBVIOUS
<1>6. free' \in [Donors -> Int]
      /\ \A c \in Donors : IF \E d \in kept : d.ckey = c THEN free'[c] = free[c] ELSE free'[c] = -1
  <2> HIDE DEF kept
  <2> QED
    BY <1>1 DEF DonatorInv, Do!TypeOK
<1>7. Do!TypeOK'
  <2> HIDE DEF kept
  <2> QED
    BY <1>1, <1>2, <1>3, <1>5, <1>6 DEF DonatorInv, Do!TypeOK
<1>8. DonatorKinds'
  BY <1>1, <1>2 DEF DonatorInv, DonatorKinds
<1>9. DonatorsFresh'
  <2>1. ASSUME NEW b \in Donors, Do!RowsOf(b)' = {} PROVE free'[b] = -1
    <3>1. ~\E d \in kept : d.ckey = b
      BY <1>1, <2>1 DEF Do!RowsOf
    <3> QED
      BY <1>6, <3>1
  <2>2. ASSUME ~clash', NEW g \in Commands, at'[g] = "insert" PROVE Do!RowsOf(job[g].ckey)' = {}
    <3>1. Do!RowsOf(job[g].ckey) = {}
      BY <1>2, <2>2 DEF DonatorInv, DonatorsFresh
    <3> QED
      BY <1>1, <1>5, <3>1 DEF Do!RowsOf
  <2> QED
    BY <2>1, <2>2 DEF DonatorsFresh
<1>10. DonatorsWait'
  <2> SUFFICES ASSUME ~clash', NEW d \in kept PROVE d.next >= free'[d.ckey]
    BY <1>1 DEF DonatorsWait
  <2>1. free'[d.ckey] = free[d.ckey]
    BY <1>4, <1>6
  <2> QED
    BY <1>2, <2>1 DEF DonatorInv, DonatorsWait
<1>11. SpawnsCount'
  <2> SUFFICES ASSUME ~clash', NEW g \in Commands
               PROVE  /\ at'[g] \in {"add", "write"} => left[g].next >= 0 /\ left[g].next >= free'[job[g].ckey]
                      /\ at'[g] = "add" => left[g].next >= left[g].round
                      /\ at'[g] = "write" => left[g].next >= left[g].free
    BY <1>1 DEF SpawnsCount
  <2>1. CASE at[g] \in {"add", "write"} /\ g # h
    <3>1. left[g].next \in Int /\ left[g].next >= 0 /\ left[g].next >= free[job[g].ckey]
      BY <1>2, <2>1 DEF DonatorInv, SpawnsCount, Do!TypeOK
    <3>2. free'[job[g].ckey] = free[job[g].ckey] \/ free'[job[g].ckey] = -1
      BY <1>3, <1>6
    <3>3. left[g].next >= free'[job[g].ckey]
      BY <3>1, <3>2
    <3> QED
      BY <1>2, <2>1, <3>1, <3>3 DEF DonatorInv, SpawnsCount
  <2>2. CASE at[g] \notin {"add", "write"} \/ g = h
    BY <1>2, <2>2
  <2> QED
    BY <2>1, <2>2
<1>12. Do!PaidIsKept'
  <2> SUFFICES ASSUME ~clash', ~late', NEW b \in Donors, now <= paid[b]
               PROVE  \E d \in kept : d.ckey = b /\ d.upto >= paid[b]
    BY <1>1 DEF Do!PaidIsKept
  <2>1. PICK d \in donators : d.ckey = b /\ d.upto >= paid[b]
    BY <1>1, <1>2 DEF DonatorInv, Do!PaidIsKept
  <2>2. paid[b] \in Int /\ d.upto \in Int
    BY <1>4 DEF DonatorInv, Do!TypeOK
  <2> QED
    BY <1>3, <2>1, <2>2
<1> QED
  BY <1>2, <1>7, <1>8, <1>9, <1>10, <1>11, <1>12 DEF DonatorInv

LEMMA DonatorRestartStep == ASSUME DonatorInv, Do!Restart PROVE DonatorInv'
<1>1. /\ at' = [h \in Commands |-> IF Do!Active(h) THEN "ended" ELSE at[h]]
      /\ restarts' = restarts + 1
      /\ UNCHANGED <<donators, cooldown, now, round, job, left, free, paid, clash, late, errors>>
  BY DEF Do!Restart, Do!world
<1>2. /\ at' \in [Commands -> Do!Stages] /\ \A h \in Commands : at'[h] \in {"idle", "ended"}
  BY <1>1 DEF DonatorInv, Do!TypeOK, Do!Active, Do!Stages
<1>3. Do!TypeOK' /\ DonatorKinds' /\ DonatorsAlone' /\ SpawnsCount'
  BY <1>1, <1>2 DEF DonatorInv, Do!TypeOK, DonatorKinds, DonatorsAlone, SpawnsCount, Do!Active
<1>4. DonatorsFresh' /\ DonatorsWait' /\ Do!PaidIsKept'
  BY <1>1, <1>2 DEF DonatorInv, DonatorsFresh, DonatorsWait, Do!PaidIsKept, Do!RowsOf
<1> QED
  BY <1>3, <1>4 DEF DonatorInv

LEMMA DonatorNext == DonatorInv /\ [Do!Next]_(Do!vars) => DonatorInv'
<1> SUFFICES ASSUME DonatorInv, [Do!Next]_(Do!vars) PROVE DonatorInv'
  OBVIOUS
<1>0. Do!DonatorsAssumption
  BY ComponentsAssumption DEF ComponentsAssumption
<1>1. CASE Do!World
  BY <1>0, <1>1, DonatorWorldStep
<1>2. ASSUME NEW h \in Commands, Do!Command(h) PROVE DonatorInv'
  BY <1>2, DonatorCommandStep
<1>3. ASSUME NEW h \in Commands, Do!UpdateDonator(h) PROVE DonatorInv'
  BY <1>3, DonatorUpdateStep
<1>4. ASSUME NEW h \in Commands, Do!InsertDonator(h) PROVE DonatorInv'
  BY <1>4, DonatorInsertStep
<1>5. ASSUME NEW h \in Commands, Do!Cleanup(h) PROVE DonatorInv'
  BY <1>5, DonatorCleanupStep
<1>6. ASSUME NEW h \in Commands, Do!ReadNextRound(h) PROVE DonatorInv'
  BY <1>6, DonatorReadStep
<1>7. ASSUME NEW h \in Commands, Do!AddCooldown(h) PROVE DonatorInv'
  BY <1>0, <1>7, DonatorAddStep
<1>8. ASSUME NEW h \in Commands, Do!ExpendDonator(h) PROVE DonatorInv'
  BY <1>8, DonatorExpendStep
<1>9. ASSUME NEW h \in Commands, Do!StatementFails(h) PROVE DonatorInv'
  BY <1>9, DonatorFailStep
<1>10. CASE Do!Restart
  BY <1>10, DonatorRestartStep
<1>11. CASE UNCHANGED Do!vars
  <2>1. UNCHANGED <<donators, cooldown, now, round, at, job, left, free, paid, clash, late,
                    errors, restarts>>
    BY <1>11 DEF Do!vars
  <2>2. Do!TypeOK' /\ DonatorKinds' /\ DonatorsAlone' /\ SpawnsCount'
    BY <2>1 DEF DonatorInv, Do!TypeOK, DonatorKinds, DonatorsAlone, SpawnsCount, Do!Active
  <2>3. DonatorsFresh' /\ DonatorsWait' /\ Do!PaidIsKept'
    BY <2>1 DEF DonatorInv, DonatorsFresh, DonatorsWait, Do!PaidIsKept, Do!RowsOf
  <2> QED
    BY <2>2, <2>3 DEF DonatorInv
<1> QED
  BY <1>1, <1>2, <1>3, <1>4, <1>5, <1>6, <1>7, <1>8, <1>9, <1>10, <1>11 DEF Do!Next

\* Whoever has a row may not play again before the round it names.
LEMMA CooldownFollows == DonatorInv => Do!CooldownHolds
<1> SUFFICES ASSUME DonatorInv, ~clash, NEW c \in Donors, c \in Do!Offered(free[c] - 1)
             PROVE  FALSE
  BY DEF Do!CooldownHolds
<1>1. PICK d \in donators : d.ckey = c /\ d.next <= free[c] - 1
  BY DEF Do!Offered
<1>2. d.next \in Int /\ free[c] \in Int
  BY DEF DonatorInv, Do!TypeOK, Do!Donator
<1>3. d.next >= free[c]
  BY <1>1 DEF DonatorInv, DonatorsWait
<1> QED
  BY <1>1, <1>2, <1>3

-----------------------------------------------------------------------------
(* Configs.                                                                *)

ConfigKinds ==
    \A h \in Commands :
        /\ job[h] \in ConfigJobs
        /\ at[h] \in {"update", "add", "store"} => job[h].kind # "delete"
        /\ at[h] = "nickname" => job[h].kind = "rename"

\* The nickname is the one wanted, or a change of it is yet to be looked at, or
\* somebody is about to set the one wanted.
NickFollows ==
    ~strayed /\ NickEntry \in DOMAIN memory =>
        /\ memory[NickEntry] \in Nicks
        /\ \/ nick = memory[NickEntry]
           \/ events[nick] > 0
           \/ reverts[memory[NickEntry]] > 0
           \/ \E h \in Commands : at[h] = "nickname" /\ job[h].value = memory[NickEntry]

\* What clash says: no two commands are at work on one entry.
ConfigsAlone ==
    ~clash => \A g, h \in Commands :
        g # h /\ Co!Active(g) /\ Co!Active(h) => job[g].entry # job[h].entry

\* Memory m has for an entry what table t has, or its default.
Agrees(t, m, e) ==
    IF e \in DOMAIN m
    THEN \/ \E r \in t : r.entry = e /\ m[e] = r.value
         \/ (\A r \in t : r.entry # e) /\ e \in DOMAIN DefaultOf /\ m[e] = DefaultOf[e]
    ELSE \A r \in t : r.entry # e

\* Between its statement and its change of memory a command knows what the table has.
TableIsKnown ==
    ~clash => \A h \in Commands :
        /\ at[h] \in {"add", "forget"} => Co!RowsOf(job[h].entry) = {}
        /\ at[h] = "store" => Co!RowsOf(job[h].entry) = {Co!Asked(h)}

\* Only of an entry between the two memory lags behind.
MemoryFollows ==
    ~clash => \A e \in Entries :
        (\A h \in Commands : at[h] \in {"store", "forget"} => job[h].entry # e) => Agrees(rows, memory, e)

ConfigInv ==
    Co!TypeOK /\ ConfigKinds /\ NickFollows /\ ConfigsAlone /\ TableIsKnown /\ MemoryFollows

\* What is made of a table agrees with it, and so do the types.
LEMMA LoadedAgrees ==
    ASSUME Co!ConfigsAssumption, NEW t \in SUBSET Co!Row, NEW m \in Co!Loaded(t)
    PROVE  /\ DOMAIN m \subseteq Entries /\ m \in [DOMAIN m -> Values]
           /\ \A e \in Entries : Agrees(t, m, e)
           /\ NickEntry \in DOMAIN m => \E r \in t : r.entry = NickEntry /\ r.value = m[NickEntry]
<1> DEFINE D == DOMAIN DefaultOf \cup {r.entry : r \in t}
           V(e) == {r.value : r \in {q \in t : q.entry = e}}
<1>1. /\ m \in [D -> Values]
      /\ \A e \in DOMAIN m : IF V(e) = {} THEN m[e] = DefaultOf[e] ELSE m[e] \in V(e)
  BY DEF Co!Loaded
<1>2. DOMAIN m = D /\ D \subseteq Entries
  BY <1>1 DEF Co!Row, Co!ConfigsAssumption
<1>3. ASSUME NEW e \in Entries PROVE Agrees(t, m, e)
  <2>1. V(e) = {} <=> \A r \in t : r.entry # e
    OBVIOUS
  <2>2. CASE e \notin D
    BY <1>2, <2>2 DEF Agrees
  <2>3. CASE e \in D /\ V(e) = {}
    <3>1. e \in DOMAIN DefaultOf
      BY <2>3
    <3> QED
      BY <1>1, <1>2, <2>1, <2>3, <3>1 DEF Agrees
  <2>4. CASE e \in D /\ V(e) # {}
    <3>1. m[e] \in V(e)
      BY <1>1, <1>2, <2>4
    <3> QED
      BY <1>2, <2>4, <3>1 DEF Agrees
  <2> QED
    BY <2>2, <2>3, <2>4
<1>4. ASSUME NickEntry \in DOMAIN m
      PROVE  \E r \in t : r.entry = NickEntry /\ r.value = m[NickEntry]
  <2>1. NickEntry \notin DOMAIN DefaultOf
    BY DEF Co!ConfigsAssumption
  <2>2. V(NickEntry) # {}
    BY <1>2, <1>4, <2>1
  <2>3. m[NickEntry] \in V(NickEntry)
    BY <1>1, <1>4, <2>2
  <2> QED
    BY <2>3
<1> QED
  BY <1>1, <1>2, <1>3, <1>4

LEMMA ConfigInit == Co!ConfigsAssumption /\ Co!Init => ConfigInv
<1> SUFFICES ASSUME Co!ConfigsAssumption, Co!Init PROVE ConfigInv
  OBVIOUS
<1>1. /\ rows \subseteq ConfigRows /\ memory \in Co!Loaded(rows)
      /\ nick = IF NickEntry \in DOMAIN memory THEN memory[NickEntry] ELSE CHOOSE n \in Nicks : TRUE
      /\ \A h \in Commands : at[h] = "idle" /\ job[h] \in ConfigJobs
  BY DEF Co!Init
<1>2. rows \in SUBSET Co!Row
  BY <1>1 DEF Co!ConfigsAssumption
<1>3. /\ DOMAIN memory \subseteq Entries /\ memory \in [DOMAIN memory -> Values]
      /\ \A e \in Entries : Agrees(rows, memory, e)
      /\ NickEntry \in DOMAIN memory => \E r \in rows : r.entry = NickEntry /\ r.value = memory[NickEntry]
  BY <1>1, <1>2, LoadedAgrees
<1>4. NickEntry \in DOMAIN memory => memory[NickEntry] \in Nicks
  BY <1>1, <1>3 DEF Co!ConfigsAssumption
<1>5. nick \in Nicks
  BY <1>1, <1>4 DEF Co!ConfigsAssumption
<1>6. Co!TypeOK
  <2>1. at \in [Commands -> Co!Stages] /\ job \in [Commands -> Co!Job]
    BY DEF Co!Init, Co!Stages, Co!ConfigsAssumption
  <2>2. events \in [Nicks -> Nat] /\ reverts \in [Nicks -> Nat]
    BY DEF Co!Init
  <2> QED
    BY <1>2, <1>3, <1>5, <2>1, <2>2 DEF Co!Init, Co!TypeOK
<1>7. ConfigKinds /\ ConfigsAlone /\ TableIsKnown
  BY <1>1 DEF ConfigKinds, ConfigsAlone, TableIsKnown, Co!Active
<1>8. NickFollows
  BY <1>1, <1>4 DEF NickFollows
<1>9. MemoryFollows
  BY <1>3 DEF MemoryFollows
<1> QED
  BY <1>6, <1>7, <1>8, <1>9 DEF ConfigInv

\* A goroutine goes on: clash tells of the first who is not alone.
LEMMA ConfigGoto ==
    ASSUME Co!TypeOK, ConfigsAlone, NEW h \in Commands, NEW next \in Co!Stages,
           Co!Goto(h, next), UNCHANGED job
    PROVE  /\ at' \in [Commands -> Co!Stages] /\ at'[h] = next
           /\ \A g \in Commands : g # h => at'[g] = at[g]
           /\ clash' \in BOOLEAN /\ (clash => clash')
           /\ ConfigsAlone'
<1>1. /\ at' = [at EXCEPT ![h] = next]
      /\ clash' = (clash \/ \E g \in Commands \ {h} :
                    job[g].entry = job[h].entry /\ Co!Active(g) /\ Co!Active(h)')
  BY DEF Co!Goto
<1>2. /\ at' \in [Commands -> Co!Stages] /\ at'[h] = next
      /\ \A g \in Commands : g # h => at'[g] = at[g]
  BY <1>1 DEF Co!TypeOK
<1>3. clash \in BOOLEAN /\ clash' \in BOOLEAN
  BY <1>1 DEF Co!TypeOK
<1>4. ConfigsAlone'
  <2> SUFFICES ASSUME ~clash', NEW g \in Commands, NEW k \in Commands, g # k,
                      Co!Active(g)', Co!Active(k)'
               PROVE  job[g].entry # job[k].entry
    BY DEF ConfigsAlone
  <2>1. ~clash
    BY <1>1
  <2>2. \A f \in Commands : f # h => (Co!Active(f)' <=> Co!Active(f))
    BY <1>2 DEF Co!Active
  <2>3. CASE g = h
    BY <1>1, <2>2, <2>3
  <2>4. CASE k = h
    BY <1>1, <2>2, <2>4
  <2>5. CASE g # h /\ k # h
    BY <2>1, <2>2, <2>5 DEF ConfigsAlone
  <2> QED
    BY <2>3, <2>4, <2>5
<1> QED
  BY <1>1, <1>2, <1>3, <1>4

\* A step of h that touches neither the table nor memory.
LEMMA ConfigAside ==
    ASSUME ConfigInv, NEW h \in Commands, NEW next \in Co!Stages, Co!Goto(h, next),
           UNCHANGED <<rows, memory, job>>,
           at[h] \notin {"store", "forget"}, next \notin {"add", "store", "forget"}
    PROVE  ConfigsAlone' /\ TableIsKnown' /\ MemoryFollows'
<1>1. /\ at'[h] = next /\ \A g \in Commands : g # h => at'[g] = at[g]
      /\ (clash => clash') /\ ConfigsAlone'
  BY ConfigGoto DEF ConfigInv
<1>2. \A e : Co!RowsOf(e)' = Co!RowsOf(e)
  BY DEF Co!RowsOf
<1>3. \A g \in Commands : Co!Asked(g)' = Co!Asked(g)
  BY DEF Co!Asked
<1>4. TableIsKnown'
  BY <1>1, <1>3 DEF ConfigInv, TableIsKnown, Co!RowsOf
<1>5. MemoryFollows'
  BY <1>1 DEF ConfigInv, MemoryFollows, Agrees
<1> QED
  BY <1>1, <1>4, <1>5

\* A step of h that does not touch the nickname either, nor was about to.
LEMMA NickAside ==
    ASSUME ConfigInv, NEW h \in Commands, at[h] # "nickname",
           \A g \in Commands : g # h => at'[g] = at[g], UNCHANGED job,
           UNCHANGED <<memory, nick, events, reverts>>, strayed => strayed'
    PROVE  NickFollows'
BY DEF ConfigInv, NickFollows

LEMMA ConfigCommandStep ==
    ASSUME ConfigInv, NEW h \in Commands, Co!Command(h) PROVE ConfigInv'
<1>1. PICK next \in {"update", "remove"} :
         Co!Goto(h, next) /\ (next = "update" => job[h].kind # "delete")
  BY DEF Co!Command
<1>2. next \in Co!Stages /\ at[h] = "idle"
      /\ UNCHANGED <<rows, memory, nick, events, reverts, job, strayed, renames, errors, restarts>>
  BY DEF Co!Command, Co!Stages, Co!guard, Co!counts
<1>3. /\ at' \in [Commands -> Co!Stages] /\ at'[h] = next
      /\ \A g \in Commands : g # h => at'[g] = at[g]
      /\ clash' \in BOOLEAN
  BY <1>1, <1>2, ConfigGoto DEF ConfigInv
<1>4. Co!TypeOK'
  BY <1>2, <1>3 DEF ConfigInv, Co!TypeOK
<1>5. ConfigKinds'
  BY <1>1, <1>2, <1>3 DEF ConfigInv, ConfigKinds
<1>6. NickFollows'
  BY <1>2, <1>3, NickAside
<1>7. ConfigsAlone' /\ TableIsKnown' /\ MemoryFollows'
  BY <1>1, <1>2, ConfigAside
<1> QED
  BY <1>4, <1>5, <1>6, <1>7 DEF ConfigInv

\* A statement: only the rows of the entry of h change, and h goes on to change
\* memory, or to insert where there is no row.
LEMMA ConfigTableStep ==
    ASSUME ConfigInv, NEW h \in Commands, Co!UpdateConfig(h) \/ Co!AddConfig(h) \/ Co!RemoveConfig(h)
    PROVE  ConfigInv'
<1> DEFINE e == job[h].entry
           old == Co!RowsOf(e)
<1>1. job[h] \in Co!Job /\ e \in Entries /\ Co!Asked(h) \in Co!Row
      /\ Co!Asked(h).entry = e
  BY DEF ConfigInv, Co!TypeOK, Co!Job, Co!Row, Co!Asked
<1>2. \A r \in rows : r \in old <=> r.entry = e
  BY DEF Co!RowsOf
<1>3. PICK next \in {"add", "store", "forget", "ended"} :
         /\ at[h] \in {"update", "add", "remove"}
         /\ Co!Goto(h, next) /\ (next \in {"add", "store"} => job[h].kind # "delete")
         /\ rows' \subseteq rows \cup {Co!Asked(h)}
         /\ \A r : r.entry # e => (r \in rows' <=> r \in rows)
         /\ next \in {"add", "ended"} => old = {} /\ rows' = rows
         /\ ~clash /\ next = "store" =>
               Co!Asked(h) \in rows' /\ \A r \in rows' : r.entry = e => r = Co!Asked(h)
         /\ next = "forget" => \A r \in rows' : r.entry # e
         /\ UNCHANGED <<memory, nick, events, reverts, job, strayed, renames, errors, restarts>>
  <2>1. CASE Co!UpdateConfig(h)
    <3>1. /\ at[h] = "update"
          /\ rows' = (rows \ old) \cup (IF old = {} THEN {} ELSE {Co!Asked(h)})
          /\ Co!Goto(h, IF old = {} THEN "add" ELSE "store")
          /\ UNCHANGED <<memory, nick, events, reverts, job, strayed, renames, errors, restarts>>
      BY <2>1 DEF Co!UpdateConfig, Co!ChangeRows, Co!guard, Co!counts
    <3>2. job[h].kind # "delete"
      BY <3>1 DEF ConfigInv, ConfigKinds
    <3> HIDE DEF old
    <3>3. CASE old = {}
      <4>1. rows' = rows
        BY <3>1, <3>3
      <4> QED
        BY <3>1, <3>2, <3>3, <4>1
    <3>4. CASE old # {}
      <4>1. rows' = (rows \ old) \cup {Co!Asked(h)}
        BY <3>1, <3>4
      <4> QED
        BY <1>1, <1>2, <3>1, <3>2, <3>4, <4>1
    <3> QED
      BY <3>3, <3>4
  <2>2. CASE Co!AddConfig(h)
    <3>1. /\ at[h] = "add"
          /\ rows' = rows \cup {Co!Asked(h)}
          /\ Co!Goto(h, "store")
          /\ UNCHANGED <<memory, nick, events, reverts, job, strayed, renames, errors, restarts>>
      BY <2>2 DEF Co!AddConfig, Co!ChangeRows, Co!guard, Co!counts
    <3>2. job[h].kind # "delete" /\ (~clash => old = {})
      BY <3>1 DEF ConfigInv, ConfigKinds, TableIsKnown
    <3> HIDE DEF old
    <3> QED
      BY <1>1, <1>2, <3>1, <3>2
  <2>3. CASE Co!RemoveConfig(h)
    <3>1. /\ at[h] = "remove"
          /\ rows' = rows \ old
          /\ Co!Goto(h, IF old = {} THEN "ended" ELSE "forget")
          /\ UNCHANGED <<memory, nick, events, reverts, job, strayed, renames, errors, restarts>>
      BY <2>3 DEF Co!RemoveConfig, Co!ChangeRows, Co!guard, Co!counts
    <3> HIDE DEF old
    <3>3. CASE old = {}
      BY <3>1, <3>3
    <3>4. CASE old # {}
      BY <1>2, <3>1, <3>4
    <3> QED
      BY <3>3, <3>4
  <2> QED
    BY <2>1, <2>2, <2>3
<1>4. next \in Co!Stages
  BY DEF Co!Stages
<1>5. /\ at' \in [Commands -> Co!Stages] /\ at'[h] = next
      /\ \A g \in Commands : g # h => at'[g] = at[g]
      /\ clash' \in BOOLEAN /\ (clash => clash') /\ ConfigsAlone'
  BY <1>3, <1>4, ConfigGoto DEF ConfigInv
<1>6. Co!TypeOK'
  <2>1. rows' \subseteq Co!Row
    BY <1>1, <1>3 DEF ConfigInv, Co!TypeOK
  <2> QED
    BY <1>3, <1>5, <2>1 DEF ConfigInv, Co!TypeOK
<1>7. ConfigKinds'
  BY <1>3, <1>5 DEF ConfigInv, ConfigKinds
<1>8. NickFollows'
  BY <1>3, <1>5, NickAside
<1>9. TableIsKnown'
  <2> SUFFICES ASSUME ~clash', NEW g \in Commands
               PROVE  /\ at'[g] \in {"add", "forget"} => \A r \in rows' : r.entry # job[g].entry
                      /\ at'[g] = "store" => Co!Asked(g) \in rows'
                            /\ \A r \in rows' : r.entry = job[g].entry => r = Co!Asked(g)
    <3>1. \A k \in Commands : Co!Asked(k).entry = job[k].entry /\ Co!Asked(k)' = Co!Asked(k)
      BY <1>3 DEF Co!Asked
    <3> QED
      BY <1>3, <3>1 DEF TableIsKnown, Co!RowsOf
  <2>0. ~clash
    BY <1>5
  <2>1. CASE g = h
    <3>1. at'[g] = next
      BY <1>5, <2>1
    <3>2. old = {} => \A r \in rows : r.entry # e
      BY <1>2
    <3> HIDE DEF old
    <3> QED
      BY <1>3, <2>0, <2>1, <3>1, <3>2
  <2>2. CASE g # h /\ at[g] \in {"add", "forget", "store"}
    <3>1. Co!Active(g) /\ Co!Active(h)
      BY <1>3, <2>2 DEF Co!Active
    <3>2. job[g].entry # e
      BY <2>0, <2>2, <3>1 DEF ConfigInv, ConfigsAlone
    <3>3. Co!Asked(g).entry = job[g].entry
      BY DEF Co!Asked
    <3>4. /\ at[g] \in {"add", "forget"} => \A r \in rows : r.entry # job[g].entry
          /\ at[g] = "store" => Co!Asked(g) \in rows
                            /\ \A r \in rows : r.entry = job[g].entry => r = Co!Asked(g)
      BY <2>0 DEF ConfigInv, TableIsKnown, Co!RowsOf
    <3> HIDE DEF e
    <3> QED
      BY <1>3, <1>5, <2>2, <3>2, <3>3, <3>4
  <2>3. CASE g # h /\ at[g] \notin {"add", "forget", "store"}
    BY <1>5, <2>3
  <2> QED
    BY <2>1, <2>2, <2>3
<1>10. MemoryFollows'
  <2> SUFFICES ASSUME ~clash', NEW d \in Entries,
                      \A g \in Commands : at'[g] \in {"store", "forget"} => job[g].entry # d
               PROVE  Agrees(rows', memory, d)
    BY <1>3 DEF MemoryFollows
  <2>1. ~clash /\ \A g \in Commands : at[g] \in {"store", "forget"} => job[g].entry # d
    BY <1>3, <1>5
  <2>2. Agrees(rows, memory, d)
    BY <2>1 DEF ConfigInv, MemoryFollows
  <2>3. CASE rows' = rows
    BY <2>2, <2>3
  <2>4. CASE d # e
    BY <1>3, <2>2, <2>4 DEF Agrees
  <2>5. CASE d = e /\ rows' # rows
    BY <1>3, <1>5, <2>5
  <2> QED
    BY <2>3, <2>4, <2>5
<1> QED
  BY <1>5, <1>6, <1>7, <1>8, <1>9, <1>10 DEF ConfigInv

\* Memory follows, and whoever wants another nickname goes on to set it.
LEMMA ConfigMemoryStep ==
    ASSUME Co!ConfigsAssumption, ConfigInv, NEW h \in Commands,
           Co!StoreConfig(h) \/ Co!ForgetConfig(h)
    PROVE  ConfigInv'
<1> DEFINE e == job[h].entry
<1>1. /\ job[h] \in ConfigJobs /\ e \in Entries /\ job[h].value \in Values
      /\ job[h].kind = "rename" => e = NickEntry /\ job[h].value \in Nicks
      /\ Co!Asked(h).entry = e /\ Co!Asked(h).value = job[h].value
  BY DEF ConfigInv, ConfigKinds, Co!TypeOK, Co!Job, Co!Asked, Co!ConfigsAssumption
<1>2. PICK next \in {"nickname", "ended"} :
         /\ Co!Goto(h, next)
         /\ (next = "nickname") <=> (at[h] = "store" /\ job[h].kind = "rename")
         /\ at[h] \in {"store", "forget"}
         /\ DOMAIN memory' = IF at[h] = "store" THEN DOMAIN memory \cup {e} ELSE DOMAIN memory \ {e}
         /\ memory' = [d \in DOMAIN memory' |-> memory'[d]]
         /\ \A d \in DOMAIN memory' : memory'[d] = IF d = e THEN job[h].value ELSE memory[d]
         /\ strayed' = (strayed \/ (e = NickEntry /\ job[h].kind # "rename"))
         /\ UNCHANGED <<rows, nick, events, reverts, job, renames, errors, restarts>>
  <2>1. CASE Co!StoreConfig(h)
    <3>1. /\ at[h] = "store"
          /\ memory' = [d \in DOMAIN memory \cup {e} |-> IF d = e THEN job[h].value ELSE memory[d]]
          /\ strayed' = (strayed \/ (e = NickEntry /\ job[h].kind # "rename"))
          /\ UNCHANGED <<rows, nick, events, reverts, job, renames, errors, restarts>>
          /\ Co!Goto(h, IF job[h].kind = "rename" THEN "nickname" ELSE "ended")
      BY <2>1 DEF Co!StoreConfig, Co!ChangeMemory, Co!guard, Co!counts
    <3>2. /\ DOMAIN memory' = DOMAIN memory \cup {e} /\ memory' = [d \in DOMAIN memory' |-> memory'[d]]
          /\ \A d \in DOMAIN memory' : memory'[d] = IF d = e THEN job[h].value ELSE memory[d]
      BY <3>1
    <3>3. CASE job[h].kind = "rename"
      BY <3>1, <3>2, <3>3
    <3>4. CASE job[h].kind # "rename"
      BY <3>1, <3>2, <3>4
    <3> QED
      BY <3>3, <3>4
  <2>2. CASE Co!ForgetConfig(h)
    <3>1. /\ at[h] = "forget"
          /\ memory' = [d \in DOMAIN memory \ {e} |-> memory[d]]
          /\ strayed' = (strayed \/ (e = NickEntry /\ job[h].kind # "rename"))
          /\ UNCHANGED <<rows, nick, events, reverts, job, renames, errors, restarts>>
          /\ Co!Goto(h, "ended")
      BY <2>2 DEF Co!ForgetConfig, Co!ChangeMemory, Co!guard, Co!counts
    <3>2. /\ DOMAIN memory' = DOMAIN memory \ {e} /\ memory' = [d \in DOMAIN memory' |-> memory'[d]]
          /\ \A d \in DOMAIN memory' : memory'[d] = IF d = e THEN job[h].value ELSE memory[d]
      BY <3>1
    <3> QED
      BY <3>1, <3>2
  <2> QED
    BY <2>1, <2>2
<1>3. next \in Co!Stages
  BY DEF Co!Stages
<1>4. /\ at' \in [Commands -> Co!Stages] /\ at'[h] = next
      /\ \A g \in Commands : g # h => at'[g] = at[g]
      /\ clash' \in BOOLEAN /\ (clash => clash') /\ ConfigsAlone'
  BY <1>2, <1>3, ConfigGoto DEF ConfigInv
<1>5. Co!TypeOK'
  <2>1. DOMAIN memory' \subseteq Entries
    BY <1>1, <1>2 DEF ConfigInv, Co!TypeOK
  <2>2. \A d \in DOMAIN memory' : memory'[d] \in Values
    <3>1. \A d \in DOMAIN memory : memory[d] \in Values
      BY DEF ConfigInv, Co!TypeOK
    <3> QED
      BY <1>1, <1>2, <3>1
  <2>3. memory' \in [DOMAIN memory' -> Values]
    BY <1>2, <2>2
  <2>4. strayed' \in BOOLEAN
    BY <1>2 DEF ConfigInv, Co!TypeOK
  <2> QED
    BY <1>2, <1>4, <2>1, <2>3, <2>4 DEF ConfigInv, Co!TypeOK
<1>6. ConfigKinds'
  BY <1>2, <1>4 DEF ConfigInv, ConfigKinds
<1>7. NickFollows'
  <2> SUFFICES ASSUME ~strayed', NickEntry \in DOMAIN memory'
               PROVE  NickFollows'
    BY DEF NickFollows
  <2>1. ~strayed
    BY <1>2
  <2>2. CASE e = NickEntry
    <3>1. job[h].kind = "rename"
      BY <1>2, <2>2
    <3>2. at[h] = "store"
      BY <1>2, <2>2
    <3>3. memory'[NickEntry] = job[h].value /\ at'[h] = "nickname"
      BY <1>2, <1>4, <2>2, <3>1, <3>2
    <3> QED
      BY <1>1, <1>2, <3>1, <3>3 DEF NickFollows
  <2>3. CASE e # NickEntry
    <3>1. NickEntry \in DOMAIN memory /\ memory'[NickEntry] = memory[NickEntry]
      BY <1>2, <2>3
    <3> QED
      BY <1>2, <1>4, <2>1, <3>1 DEF ConfigInv, NickFollows
  <2> QED
    BY <2>2, <2>3
<1>8. TableIsKnown'
  <2>1. \A g \in Commands : Co!RowsOf(job[g].entry)' = Co!RowsOf(job[g].entry) /\ Co!Asked(g)' = Co!Asked(g)
    BY <1>2 DEF Co!RowsOf, Co!Asked
  <2> QED
    BY <1>2, <1>4, <2>1 DEF ConfigInv, TableIsKnown
<1>9. MemoryFollows'
  <2> SUFFICES ASSUME ~clash', NEW d \in Entries,
                      \A g \in Commands : at'[g] \in {"store", "forget"} => job[g].entry # d
               PROVE  Agrees(rows, memory', d)
    BY <1>2 DEF MemoryFollows
  <2>0. ~clash
    BY <1>4
  <2>1. CASE d = e
    <3>1. CASE at[h] = "store"
      <4>1. Co!RowsOf(e) = {Co!Asked(h)}
        BY <2>0, <3>1 DEF ConfigInv, TableIsKnown
      <4>2. Co!Asked(h) \in rows
        BY <4>1 DEF Co!RowsOf
      <4> QED
        BY <1>1, <1>2, <2>1, <3>1, <4>2 DEF Agrees
    <3>2. CASE at[h] = "forget"
      <4>1. Co!RowsOf(e) = {}
        BY <2>0, <3>2 DEF ConfigInv, TableIsKnown
      <4> QED
        BY <1>2, <2>1, <3>2, <4>1 DEF Agrees, Co!RowsOf
    <3> QED
      BY <1>2, <3>1, <3>2
  <2>2. CASE d # e
    <3>1. \A g \in Commands : at[g] \in {"store", "forget"} => job[g].entry # d
      BY <1>4, <2>2
    <3>2. Agrees(rows, memory, d)
      BY <2>0, <3>1 DEF ConfigInv, MemoryFollows
    <3>3. /\ d \in DOMAIN memory' <=> d \in DOMAIN memory
          /\ d \in DOMAIN memory => memory'[d] = memory[d]
      BY <1>2, <2>2
    <3> QED
      BY <3>2, <3>3 DEF Agrees
  <2> QED
    BY <2>1, <2>2
<1> QED
  BY <1>4, <1>5, <1>6, <1>7, <1>8, <1>9 DEF ConfigInv

-----------------------------------------------------------------------------
(* Setting the nickname is told to nickchange_guard, when it is a change.  *)

LEMMA SetNickTold ==
    ASSUME Co!TypeOK, NEW n \in Nicks, Co!SetNick(n)
    PROVE  /\ nick' = n /\ events' \in [Nicks -> Nat]
           /\ n # nick => events'[nick'] > 0
           /\ n = nick => events' = events
BY DEF Co!SetNick, Co!TypeOK

LEMMA ConfigRenameStep ==
    ASSUME Co!ConfigsAssumption, ConfigInv, NEW h \in Commands, Co!RenameBot(h) PROVE ConfigInv'
<1>1. /\ at[h] = "nickname" /\ Co!SetNick(job[h].value) /\ Co!Goto(h, "ended")
      /\ UNCHANGED <<rows, memory, reverts, job, strayed, renames, errors, restarts>>
      /\ "ended" \in Co!Stages
  BY DEF Co!RenameBot, Co!counts, Co!Stages
<1>2. job[h].value \in Nicks
  BY <1>1 DEF ConfigInv, ConfigKinds, Co!ConfigsAssumption
<1>3. /\ nick' = job[h].value /\ events' \in [Nicks -> Nat]
      /\ job[h].value # nick => events'[nick'] > 0
      /\ job[h].value = nick => events' = events
  BY <1>1, <1>2, SetNickTold DEF ConfigInv
<1>4. /\ at' \in [Commands -> Co!Stages] /\ at'[h] = "ended"
      /\ \A g \in Commands : g # h => at'[g] = at[g]
      /\ clash' \in BOOLEAN
  BY <1>1, ConfigGoto DEF ConfigInv
<1>5. Co!TypeOK'
  BY <1>1, <1>2, <1>3, <1>4 DEF ConfigInv, Co!TypeOK
<1>6. ConfigKinds'
  BY <1>1, <1>4 DEF ConfigInv, ConfigKinds
<1>7. NickFollows'
  <2> SUFFICES ASSUME ~strayed, NickEntry \in DOMAIN memory PROVE NickFollows'
    BY <1>1 DEF NickFollows
  <2>1. CASE nick' = memory[NickEntry] \/ job[h].value # nick
    BY <1>1, <1>3, <2>1 DEF ConfigInv, NickFollows
  <2>2. CASE nick' # memory[NickEntry] /\ job[h].value = nick
    BY <1>1, <1>3, <1>4, <2>2 DEF ConfigInv, NickFollows
  <2> QED
    BY <2>1, <2>2
<1>8. ConfigsAlone' /\ TableIsKnown' /\ MemoryFollows'
  BY <1>1, ConfigAside
<1> QED
  BY <1>5, <1>6, <1>7, <1>8 DEF ConfigInv

\* What others and the guard do concerns no command.
LEMMA GuardAside ==
    ASSUME ConfigInv, UNCHANGED <<rows, memory, at, job, clash>>
    PROVE  ConfigKinds' /\ ConfigsAlone' /\ TableIsKnown' /\ MemoryFollows'
<1>1. ConfigKinds' /\ ConfigsAlone'
  BY DEF ConfigInv, ConfigKinds, ConfigsAlone, Co!Active
<1>2. TableIsKnown' /\ MemoryFollows'
  BY DEF ConfigInv, TableIsKnown, MemoryFollows, Agrees, Co!RowsOf, Co!Asked
<1> QED
  BY <1>1, <1>2

LEMMA OthersRenameStep == ASSUME ConfigInv, Co!OthersRename PROVE ConfigInv'
<1>1. PICK n \in Nicks \ {nick} :
         /\ Co!SetNick(n) /\ renames' = renames + 1
         /\ UNCHANGED <<rows, memory, reverts, at, job, clash, strayed, errors, restarts>>
  BY DEF Co!OthersRename
<1>2. nick' = n /\ events' \in [Nicks -> Nat] /\ events'[nick'] > 0
  BY <1>1, SetNickTold DEF ConfigInv
<1>3. Co!TypeOK'
  BY <1>1, <1>2 DEF ConfigInv, Co!TypeOK
<1>4. NickFollows'
  BY <1>1, <1>2 DEF ConfigInv, NickFollows
<1>5. ConfigKinds' /\ ConfigsAlone' /\ TableIsKnown' /\ MemoryFollows'
  BY <1>1, GuardAside
<1> QED
  BY <1>3, <1>4, <1>5 DEF ConfigInv

\* The guard looks at one change: at the last one of a wrong nickname it goes
\* on to set the right one.
LEMMA GuardChecksStep ==
    ASSUME ConfigInv, NEW n \in Nicks, Co!GuardChecks(n) PROVE ConfigInv'
<1>1. /\ events[n] > 0 /\ events' = [events EXCEPT ![n] = @ - 1]
      /\ reverts' = IF NickEntry \in DOMAIN memory /\ n # memory[NickEntry]
                    THEN [reverts EXCEPT ![memory[NickEntry]] = @ + 1] ELSE reverts
      /\ UNCHANGED <<rows, memory, nick, at, job, clash, strayed, renames, errors, restarts>>
  BY DEF Co!GuardChecks, Co!GuardIf, Co!counts
<1>2. events \in [Nicks -> Nat] /\ reverts \in [Nicks -> Nat] /\ nick \in Nicks
  BY DEF ConfigInv, Co!TypeOK
<1>3. events' \in [Nicks -> Nat] /\ \A k \in Nicks : k # n => events'[k] = events[k]
  BY <1>1, <1>2
<1>4. reverts' \in [Nicks -> Nat] /\ \A k \in Nicks : reverts'[k] >= reverts[k]
  <2> DEFINE w == memory[NickEntry]
  <2>1. CASE reverts' = reverts
    BY <1>2, <2>1
  <2>2. CASE reverts' = [reverts EXCEPT ![w] = @ + 1]
    <3> HIDE DEF w
    <3>1. reverts' = [k \in Nicks |-> IF k = w THEN reverts[w] + 1 ELSE reverts[k]]
      BY <1>2, <2>2
    <3>2. \A k \in Nicks : reverts[k] \in Nat
      BY <1>2
    <3>3. \A k \in Nicks : reverts'[k] \in Nat /\ reverts'[k] >= reverts[k]
      BY <3>1, <3>2
    <3>4. reverts' \in [Nicks -> Nat]
      BY <3>1, <3>2
    <3> QED
      BY <3>3, <3>4
  <2> QED
    BY <1>1, <2>1, <2>2
<1>5. Co!TypeOK'
  BY <1>1, <1>3, <1>4 DEF ConfigInv, Co!TypeOK
<1>6. NickFollows'
  <2> SUFFICES ASSUME ~strayed, NickEntry \in DOMAIN memory PROVE NickFollows'
    BY <1>1 DEF NickFollows
  <2>1. memory[NickEntry] \in Nicks
    BY DEF ConfigInv, NickFollows
  <2>2. CASE n # memory[NickEntry]
    <3>1. reverts'[memory[NickEntry]] = reverts[memory[NickEntry]] + 1
      BY <1>1, <1>2, <2>1, <2>2
    <3>2. reverts'[memory[NickEntry]] > 0
      BY <1>2, <2>1, <3>1
    <3> QED
      BY <1>1, <2>1, <3>2 DEF NickFollows
  <2>3. CASE n = memory[NickEntry]
    BY <1>1, <1>2, <1>3, <1>4, <2>1, <2>3 DEF ConfigInv, NickFollows
  <2> QED
    BY <2>2, <2>3
<1>7. ConfigKinds' /\ ConfigsAlone' /\ TableIsKnown' /\ MemoryFollows'
  BY <1>1, GuardAside
<1> QED
  BY <1>5, <1>6, <1>7 DEF ConfigInv

LEMMA GuardRevertsStep ==
    ASSUME ConfigInv, NEW n \in Nicks, Co!GuardReverts(n) PROVE ConfigInv'
<1>1. /\ reverts[n] > 0 /\ reverts' = [reverts EXCEPT ![n] = @ - 1] /\ Co!SetNick(n)
      /\ UNCHANGED <<rows, memory, at, job, clash, strayed, renames, errors, restarts>>
  BY DEF Co!GuardReverts, Co!counts
<1>2. reverts \in [Nicks -> Nat] /\ nick \in Nicks
  BY DEF ConfigInv, Co!TypeOK
<1>3. reverts' \in [Nicks -> Nat] /\ \A k \in Nicks : k # n => reverts'[k] = reverts[k]
  BY <1>1, <1>2
<1>4. /\ nick' = n /\ events' \in [Nicks -> Nat]
      /\ n # nick => events'[nick'] > 0
      /\ n = nick => events' = events
  BY <1>1, SetNickTold DEF ConfigInv
<1>5. Co!TypeOK'
  BY <1>1, <1>3, <1>4 DEF ConfigInv, Co!TypeOK
<1>6. NickFollows'
  <2> SUFFICES ASSUME ~strayed, NickEntry \in DOMAIN memory PROVE NickFollows'
    BY <1>1 DEF NickFollows
  <2>1. memory[NickEntry] \in Nicks
    BY DEF ConfigInv, NickFollows
  <2>2. CASE n = memory[NickEntry] \/ n # nick
    BY <1>1, <1>4, <2>1, <2>2 DEF NickFollows
  <2>3. CASE n # memory[NickEntry] /\ n = nick
    BY <1>1, <1>3, <1>4, <2>1, <2>3 DEF ConfigInv, NickFollows
  <2> QED
    BY <2>2, <2>3
<1>7. ConfigKinds' /\ ConfigsAlone' /\ TableIsKnown' /\ MemoryFollows'
  BY <1>1, GuardAside
<1> QED
  BY <1>5, <1>6, <1>7 DEF ConfigInv

LEMMA RevertFailsStep ==
    ASSUME ConfigInv, NEW n \in Nicks, Co!RevertFails(n) PROVE ConfigInv'
<1>1. /\ reverts[n] > 0 /\ reverts' = [reverts EXCEPT ![n] = @ - 1]
      /\ errors' = errors + 1 /\ strayed' = TRUE
      /\ UNCHANGED <<rows, memory, nick, events, at, job, clash, renames, restarts>>
  BY DEF Co!RevertFails
<1>2. Co!TypeOK'
  BY <1>1 DEF ConfigInv, Co!TypeOK
<1>3. NickFollows'
  BY <1>1 DEF NickFollows
<1>4. ConfigKinds' /\ ConfigsAlone' /\ TableIsKnown' /\ MemoryFollows'
  BY <1>1, GuardAside
<1> QED
  BY <1>2, <1>3, <1>4 DEF ConfigInv

\* bot_rename goes on when its statement has failed, with memory as it was.
LEMMA ConfigFailStep ==
    ASSUME ConfigInv, NEW h \in Commands, Co!StatementFails(h) PROVE ConfigInv'
<1>1. PICK next \in {"nickname", "ended"} :
         /\ Co!Goto(h, next)
         /\ next = "nickname" => job[h].kind = "rename"
         /\ at[h] \in {"update", "add", "remove", "nickname"}
         /\ strayed' = (strayed \/ at[h] = "nickname") /\ errors' = errors + 1
         /\ UNCHANGED <<rows, memory, nick, events, reverts, job, renames, restarts>>
  BY DEF Co!StatementFails, Co!guard
<1>2. next \in Co!Stages
  BY DEF Co!Stages
<1>3. /\ at' \in [Commands -> Co!Stages] /\ at'[h] = next
      /\ \A g \in Commands : g # h => at'[g] = at[g]
      /\ clash' \in BOOLEAN
  BY <1>1, <1>2, ConfigGoto DEF ConfigInv
<1>4. Co!TypeOK'
  BY <1>1, <1>3 DEF ConfigInv, Co!TypeOK
<1>5. ConfigKinds'
  BY <1>1, <1>3 DEF ConfigInv, ConfigKinds
<1>6. NickFollows'
  <2>1. CASE at[h] = "nickname"
    BY <1>1, <2>1 DEF NickFollows
  <2>2. CASE at[h] # "nickname"
    BY <1>1, <1>3, <2>2, NickAside
  <2> QED
    BY <2>1, <2>2
<1>7. ConfigsAlone' /\ TableIsKnown' /\ MemoryFollows'
  BY <1>1, <1>2, ConfigAside
<1> QED
  BY <1>4, <1>5, <1>6, <1>7 DEF ConfigInv

LEMMA ConfigRestartStep ==
    ASSUME Co!ConfigsAssumption, ConfigInv, Co!Restart PROVE ConfigInv'
<1>1. /\ memory' \in Co!Loaded(rows) /\ rows \in SUBSET Co!Row /\ UNCHANGED rows
      /\ clash' = FALSE /\ strayed' = TRUE
      /\ UNCHANGED <<nick, job, renames, errors>> /\ restarts' = restarts + 1
  BY DEF Co!Restart, ConfigInv, Co!TypeOK
<1>2. /\ DOMAIN memory' \subseteq Entries /\ memory' \in [DOMAIN memory' -> Values]
      /\ \A e \in Entries : Agrees(rows, memory', e)
  BY <1>1, LoadedAgrees
<1>3. /\ at' \in [Commands -> Co!Stages] /\ \A h \in Commands : at'[h] \in {"idle", "ended"}
      /\ events' \in [Nicks -> Nat] /\ reverts' \in [Nicks -> Nat]
  BY DEF Co!Restart, ConfigInv, Co!TypeOK, Co!Active, Co!Stages
<1>4. Co!TypeOK'
  <2>1. /\ nick \in Nicks /\ job \in [Commands -> Co!Job]
        /\ renames \in Nat /\ errors \in Nat /\ restarts \in Nat
    BY DEF ConfigInv, Co!TypeOK
  <2>2. rows' \subseteq Co!Row /\ clash' \in BOOLEAN /\ strayed' \in BOOLEAN
    BY <1>1
  <2>3. /\ nick' \in Nicks /\ job' \in [Commands -> Co!Job]
        /\ renames' \in Nat /\ errors' \in Nat /\ restarts' \in Nat
    BY <1>1, <2>1
  <2> QED
    BY <1>2, <1>3, <2>2, <2>3 DEF Co!TypeOK
<1>5. ConfigKinds' /\ NickFollows' /\ ConfigsAlone' /\ TableIsKnown'
  BY <1>1, <1>3 DEF ConfigInv, ConfigKinds, NickFollows, ConfigsAlone, TableIsKnown, Co!Active
<1>6. MemoryFollows'
  BY <1>1, <1>2 DEF MemoryFollows
<1> QED
  BY <1>4, <1>5, <1>6 DEF ConfigInv

LEMMA ConfigNext == ConfigInv /\ [Co!Next]_(Co!vars) => ConfigInv'
<1> SUFFICES ASSUME ConfigInv, [Co!Next]_(Co!vars) PROVE ConfigInv'
  OBVIOUS
<1>0. Co!ConfigsAssumption
  BY ComponentsAssumption DEF ComponentsAssumption
<1>1. ASSUME NEW h \in Commands, Co!Command(h) PROVE ConfigInv'
  BY <1>1, ConfigCommandStep
<1>2. ASSUME NEW h \in Commands, Co!UpdateConfig(h) \/ Co!AddConfig(h) \/ Co!RemoveConfig(h)
      PROVE  ConfigInv'
  BY <1>2, ConfigTableStep
<1>3. ASSUME NEW h \in Commands, Co!StoreConfig(h) \/ Co!ForgetConfig(h) PROVE ConfigInv'
  BY <1>0, <1>3, ConfigMemoryStep
<1>4. ASSUME NEW h \in Commands, Co!RenameBot(h) PROVE ConfigInv'
  BY <1>0, <1>4, ConfigRenameStep
<1>5. ASSUME NEW h \in Commands, Co!StatementFails(h) PROVE ConfigInv'
  BY <1>5, ConfigFailStep
<1>6. ASSUME NEW n \in Nicks, Co!GuardChecks(n) \/ Co!GuardReverts(n) \/ Co!RevertFails(n)
      PROVE  ConfigInv'
  BY <1>6, GuardChecksStep, GuardRevertsStep, RevertFailsStep
<1>7. CASE Co!OthersRename
  BY <1>7, OthersRenameStep
<1>8. CASE Co!Restart
  BY <1>0, <1>8, ConfigRestartStep
<1>9. CASE UNCHANGED Co!vars
  <2>1. UNCHANGED <<rows, memory, nick, events, reverts, at, job, clash, strayed,
                    renames, errors, restarts>>
    BY <1>9 DEF Co!vars
  <2>2. Co!TypeOK' /\ NickFollows'
    BY <2>1 DEF ConfigInv, Co!TypeOK, NickFollows
  <2> QED
    BY <2>1, <2>2, GuardAside DEF ConfigInv
<1> QED
  BY <1>1, <1>2, <1>3, <1>4, <1>5, <1>6, <1>7, <1>8, <1>9 DEF Co!Next

-----------------------------------------------------------------------------
LEMMA NickIsKept == ConfigInv => Co!NickIsRestored
<1> SUFFICES ASSUME ConfigInv, Co!Quiet, ~strayed,
                    \A n \in Nicks : events[n] = 0 /\ reverts[n] = 0, NickEntry \in DOMAIN memory
             PROVE  nick = memory[NickEntry]
  BY DEF Co!NickIsRestored
<1>1. nick \in Nicks /\ memory[NickEntry] \in Nicks /\ \A h \in Commands : at[h] # "nickname"
  BY DEF ConfigInv, Co!TypeOK, NickFollows, Co!Quiet, Co!Active
<1> QED
  BY <1>1 DEF ConfigInv, NickFollows

\* When nobody is at work memory is what a start makes of the table, but for
\* defaults that were deleted.
LEMMA MemoryIsTable == ConfigInv => Co!MemoryFollowsTable
<1> SUFFICES ASSUME ConfigInv, Co!Quiet, ~clash
             PROVE  \E m \in Co!Loaded(rows) :
                       /\ DOMAIN memory \subseteq DOMAIN m
                       /\ DOMAIN m \ DOMAIN memory \subseteq DOMAIN DefaultOf
                       /\ \A e \in DOMAIN memory : memory[e] = m[e]
  BY DEF Co!MemoryFollowsTable
<1> DEFINE D == DOMAIN DefaultOf \cup {r.entry : r \in rows}
           m == [e \in D |-> IF e \in DOMAIN memory THEN memory[e] ELSE DefaultOf[e]]
           V(e) == {r.value : r \in {q \in rows : q.entry = e}}
<1>1. \A e \in Entries : Agrees(rows, memory, e)
  BY DEF ConfigInv, MemoryFollows, Co!Quiet, Co!Active
<1>2. /\ DOMAIN memory \subseteq Entries /\ memory \in [DOMAIN memory -> Values]
      /\ D \subseteq Entries /\ \A e \in DOMAIN DefaultOf : DefaultOf[e] \in Values
  BY ComponentsAssumption DEF ConfigInv, Co!TypeOK, Co!Row, ComponentsAssumption, Co!ConfigsAssumption
<1>3. DOMAIN memory \subseteq D
  BY <1>1, <1>2 DEF Agrees
<1>4. \A e \in D : e \notin DOMAIN memory => e \in DOMAIN DefaultOf /\ V(e) = {}
  BY <1>1, <1>2 DEF Agrees
<1>5. m \in [D -> Values]
  BY <1>2, <1>4
<1>6. ASSUME NEW e \in D PROVE IF V(e) = {} THEN m[e] = DefaultOf[e] ELSE m[e] \in V(e)
  <2>1. CASE e \in DOMAIN memory
    <3>1. m[e] = memory[e]
      BY <2>1
    <3>2. (\E r \in rows : r.entry = e /\ memory[e] = r.value)
          \/ (V(e) = {} /\ memory[e] = DefaultOf[e])
      BY <1>1, <1>2, <2>1 DEF Agrees
    <3>3. (\E r \in rows : r.entry = e /\ memory[e] = r.value) => memory[e] \in V(e) /\ V(e) # {}
      OBVIOUS
    <3> HIDE DEF m, V
    <3> QED
      BY <3>1, <3>2, <3>3
  <2>2. CASE e \notin DOMAIN memory
    BY <1>4, <2>2
  <2> QED
    BY <2>1, <2>2
<1>7. m \in Co!Loaded(rows)
  BY <1>5, <1>6 DEF Co!Loaded
<1>8. /\ DOMAIN memory \subseteq DOMAIN m
      /\ DOMAIN m \ DOMAIN memory \subseteq DOMAIN DefaultOf
      /\ \A e \in DOMAIN memory : memory[e] = m[e]
  BY <1>3, <1>4
<1> QED
  BY <1>7, <1>8

-----------------------------------------------------------------------------
(* StatusEmbeds.                                                           *)

\* The table, and the map, have message m for channel c of server s.
HasRow(s, c, m) == [server |-> s, chan |-> c, msg |-> m] \in rows
Shows(s, c, m) == <<c, m>> \in embeds[s]

InSync(s, c) == \A m \in Se!Messages : HasRow(s, c, m) <=> Shows(s, c, m)
OneRow(s, c) == \A m, n \in Se!Messages : HasRow(s, c, m) /\ HasRow(s, c, n) => m = n

EmbedKinds ==
    \A h \in Commands :
        /\ at[h] \in {"update", "create", "store"} =>
              job[h].kind = "bind" /\ \E m \in Se!Messages : left[h] = {m}
        /\ at[h] \in {"forget", "delete"} => job[h].kind \in {"unbind", "update"}
        /\ at[h] \in {"forget", "delete"} /\ job[h].kind = "update" => left[h] \subseteq EmbedChans
        /\ at[h] = "edit" => left[h] \subseteq EmbedChans

\* What clash says: no two write one channel of one server.
EmbedsAlone ==
    ~clash => \A g, h \in Commands :
        Se!Writes(g) /\ Se!Writes(h) /\ job[g].server = job[h].server /\ job[g].chan = job[h].chan => g = h

\* What h knows of its channel between one write and the next.
KnownBy(h) ==
    \A m \in Se!Messages :
        /\ at[h] = "create" => ~HasRow(job[h].server, job[h].chan, m)
        /\ at[h] = "store" => (HasRow(job[h].server, job[h].chan, m) <=> m \in left[h])
        /\ at[h] = "delete" => ~Shows(job[h].server, job[h].chan, m)

EmbedsKnown == ~clash => \A h \in Commands : KnownBy(h)

RowsAreOne == ~clash => \A s \in Servers, c \in EmbedChans : OneRow(s, c)

\* Map and table differ only between the two writes of a bind or an unbind.
EmbedsFollow ==
    ~clash /\ ~torn => \A s \in Servers, c \in EmbedChans :
        (\A h \in Commands : at[h] \in {"store", "delete"} => job[h].server # s \/ job[h].chan # c)
        => InSync(s, c)

EmbedInv ==
    Se!TypeOK /\ EmbedKinds /\ EmbedsAlone /\ EmbedsKnown /\ RowsAreOne /\ EmbedsFollow

-----------------------------------------------------------------------------
\* What is loaded from a table.
LEMMA EmbedsLoaded ==
    ASSUME NEW t \in SUBSET Se!Row, NEW m \in Se!Loaded(t)
    PROVE  /\ m \in [Servers -> SUBSET (EmbedChans \X Se!Messages)]
           /\ (\A r, q \in t : r.server = q.server /\ r.chan = q.chan => r = q) =>
                \A s \in Servers, c \in EmbedChans, n \in Se!Messages :
                    [server |-> s, chan |-> c, msg |-> n] \in t <=> <<c, n>> \in m[s]
<1>1. PICK chosen \in SUBSET t :
         /\ m = [s \in Servers |-> {<<r.chan, r.msg>> : r \in {q \in chosen : q.server = s}}]
         /\ \A r \in t : Se!Cardinality({q \in chosen : q.server = r.server /\ q.chan = r.chan}) = 1
  BY DEF Se!Loaded
<1>2. m \in [Servers -> SUBSET (EmbedChans \X Se!Messages)]
  BY <1>1 DEF Se!Row
<1>3. ASSUME \A r, q \in t : r.server = q.server /\ r.chan = q.chan => r = q
      PROVE  chosen = t
  <2> SUFFICES ASSUME NEW r \in t, r \notin chosen PROVE FALSE
    OBVIOUS
  <2>1. {q \in chosen : q.server = r.server /\ q.chan = r.chan} = {}
    BY <1>3
  <2>2. Cardinality({}) = 1
    BY <1>1, <2>1, FiniteSetsAgree
  <2> QED
    BY <2>2, FS_EmptySet
<1>4. ASSUME chosen = t, NEW s \in Servers, NEW c \in EmbedChans, NEW n \in Se!Messages
      PROVE  [server |-> s, chan |-> c, msg |-> n] \in t <=> <<c, n>> \in m[s]
  <2>1. m[s] = {<<r.chan, r.msg>> : r \in {q \in t : q.server = s}}
    BY <1>1, <1>4
  <2>2. ASSUME <<c, n>> \in m[s] PROVE [server |-> s, chan |-> c, msg |-> n] \in t
    <3>1. PICK r \in t : r.server = s /\ r.chan = c /\ r.msg = n
      BY <2>1, <2>2
    <3>2. r = [server |-> r.server, chan |-> r.chan, msg |-> r.msg]
      BY DEF Se!Row
    <3> QED
      BY <3>1, <3>2
  <2>3. ASSUME [server |-> s, chan |-> c, msg |-> n] \in t PROVE <<c, n>> \in m[s]
    BY <2>1, <2>3
  <2> QED
    BY <2>2, <2>3
<1> QED
  BY <1>2, <1>3, <1>4

\* One row for each channel, and rows are what their fields are.
LEMMA RowsOfOne ==
    ASSUME Se!TypeOK, \A s \in Servers, c \in EmbedChans : OneRow(s, c)
    PROVE  \A r, q \in rows : r.server = q.server /\ r.chan = q.chan => r = q
<1> SUFFICES ASSUME NEW r \in rows, NEW q \in rows, r.server = q.server, r.chan = q.chan PROVE r = q
  OBVIOUS
<1>1. /\ r = [server |-> r.server, chan |-> r.chan, msg |-> r.msg]
      /\ q = [server |-> q.server, chan |-> q.chan, msg |-> q.msg]
      /\ r.server \in Servers /\ r.chan \in EmbedChans /\ r.msg \in Se!Messages /\ q.msg \in Se!Messages
  BY DEF Se!TypeOK, Se!Row
<1>2. r.msg = q.msg
  BY <1>1 DEF OneRow, HasRow
<1> QED
  BY <1>1, <1>2

LEMMA EmbedInit == Se!StatusEmbedsAssumption /\ Se!Init => EmbedInv
<1> SUFFICES ASSUME Se!StatusEmbedsAssumption, Se!Init PROVE EmbedInv
  OBVIOUS
<1>1. 0 \in Se!Messages
  BY DEF Se!StatusEmbedsAssumption, Se!Messages
<1>2. PICK s0 \in Servers, c0 \in EmbedChans : rows = {[server |-> s0, chan |-> c0, msg |-> 0]}
  BY DEF Se!Init
<1>3. rows \in SUBSET Se!Row /\ \A r, q \in rows : r.server = q.server /\ r.chan = q.chan => r = q
  BY <1>1, <1>2 DEF Se!Row
<1>4. embeds \in Se!Loaded(rows)
  BY DEF Se!Init
<1>5. /\ embeds \in [Servers -> SUBSET (EmbedChans \X Se!Messages)]
      /\ \A s \in Servers, c \in EmbedChans : InSync(s, c)
  BY <1>3, <1>4, EmbedsLoaded DEF InSync, HasRow, Shows
<1>6. \A h \in Commands : at[h] = "idle"
  BY DEF Se!Init
<1>7. Se!TypeOK
  <2>1. at \in [Commands -> Se!Stages] /\ job \in [Commands -> Se!Job]
    BY DEF Se!Init, Se!Stages, Se!StatusEmbedsAssumption
  <2>2. left \in [Commands -> SUBSET (Se!Messages \cup EmbedChans)]
    BY DEF Se!Init
  <2>3. /\ posted = 0 /\ gone \subseteq EmbedChans /\ clash = FALSE /\ torn = FALSE
        /\ errors = 0 /\ restarts = 0
    BY DEF Se!Init
  <2> QED
    BY <1>1, <1>3, <1>5, <2>1, <2>2, <2>3 DEF Se!TypeOK
<1>8. RowsAreOne
  BY <1>3 DEF RowsAreOne, OneRow, HasRow
<1> QED
  BY <1>5, <1>6, <1>7, <1>8 DEF EmbedInv, EmbedKinds, EmbedsAlone, Se!Writes, EmbedsKnown, KnownBy, EmbedsFollow

\* h goes on with j: clash tells of the first who is not alone.
LEMMA EmbedGoto ==
    ASSUME Se!TypeOK, EmbedsAlone, NEW h \in Commands, NEW j \in Se!Job, NEW next \in Se!Stages,
           Se!Goto(h, j, next)
    PROVE  /\ at' \in [Commands -> Se!Stages] /\ at'[h] = next
           /\ job' \in [Commands -> Se!Job] /\ job'[h] = j
           /\ \A g \in Commands : g # h => at'[g] = at[g] /\ job'[g] = job[g]
           /\ clash' \in BOOLEAN /\ (clash => clash') /\ EmbedsAlone'
           /\ ~clash' /\ Se!Writes(h)' => \A g \in Commands \ {h} :
                Se!Writes(g) => job[g].server # j.server \/ job[g].chan # j.chan
<1>1. /\ at' = [at EXCEPT ![h] = next] /\ job' = [job EXCEPT ![h] = j]
      /\ clash' = (clash \/ \E g \in Commands \ {h} :
            job[g].server = j.server /\ job[g].chan = j.chan /\ Se!Writes(g) /\ Se!Writes(h)')
  BY DEF Se!Goto
<1>2. /\ at' \in [Commands -> Se!Stages] /\ at'[h] = next
      /\ job' \in [Commands -> Se!Job] /\ job'[h] = j
      /\ \A g \in Commands : g # h => at'[g] = at[g] /\ job'[g] = job[g]
  BY <1>1 DEF Se!TypeOK
<1>3. clash \in BOOLEAN /\ clash' \in BOOLEAN /\ (clash => clash')
  BY <1>1 DEF Se!TypeOK
<1>4. ~clash' /\ Se!Writes(h)' => \A g \in Commands \ {h} :
         Se!Writes(g) => job[g].server # j.server \/ job[g].chan # j.chan
  BY <1>1
<1>5. \A g \in Commands : g # h => (Se!Writes(g)' <=> Se!Writes(g))
  BY <1>2 DEF Se!Writes
<1>6. EmbedsAlone'
  <2> SUFFICES ASSUME ~clash', NEW g \in Commands, NEW k \in Commands, Se!Writes(g)', Se!Writes(k)',
                      job'[g].server = job'[k].server, job'[g].chan = job'[k].chan, g # k
               PROVE  FALSE
    BY DEF EmbedsAlone
  <2>1. CASE g # h /\ k # h
    BY <1>2, <1>3, <1>5, <2>1 DEF EmbedsAlone
  <2>2. CASE g = h
    BY <1>2, <1>4, <1>5, <2>2
  <2>3. CASE k = h
    BY <1>2, <1>4, <1>5, <2>3
  <2> QED
    BY <2>1, <2>2, <2>3
<1> QED
  BY <1>2, <1>3, <1>4, <1>6

\* A step of h that changes no row and no embed but of the channel it writes.
LEMMA EmbedStep ==
    ASSUME EmbedInv, NEW h \in Commands, NEW j \in Se!Job, NEW next \in Se!Stages, Se!Goto(h, j, next),
           at[h] \in {"store", "delete"} => j = job[h],
           \A s \in Servers, c \in EmbedChans, m \in Se!Messages :
              s # j.server \/ c # j.chan \/ ~Se!Writes(h) =>
                 (HasRow(s, c, m)' <=> HasRow(s, c, m)) /\ (Shows(s, c, m)' <=> Shows(s, c, m)),
           Se!Writes(h) => j = job[h],
           \A g \in Commands \ {h} : left'[g] = left[g],
           UNCHANGED torn,
           ~clash' => /\ KnownBy(h)' /\ OneRow(j.server, j.chan)'
                      /\ ~torn /\ next \notin {"store", "delete"} => InSync(j.server, j.chan)'
    PROVE  EmbedsAlone' /\ EmbedsKnown' /\ RowsAreOne' /\ EmbedsFollow'
<1>1. /\ at'[h] = next /\ job'[h] = j
      /\ \A g \in Commands : g # h => at'[g] = at[g] /\ job'[g] = job[g]
      /\ (clash => clash') /\ EmbedsAlone'
  BY EmbedGoto DEF EmbedInv
<1>2. j.server \in Servers /\ j.chan \in EmbedChans
      /\ \A g \in Commands : job[g].server \in Servers /\ job[g].chan \in EmbedChans
  BY DEF EmbedInv, Se!TypeOK, Se!Job
<1>3. EmbedsKnown'
  <2> SUFFICES ASSUME ~clash', NEW g \in Commands, g # h PROVE KnownBy(g)'
    BY DEF EmbedsKnown
  <2>1. ~clash /\ KnownBy(g)
    BY <1>1 DEF EmbedInv, EmbedsKnown
  <2>2. CASE Se!Writes(g) /\ Se!Writes(h)
    <3>1. job[g].server # j.server \/ job[g].chan # j.chan
      BY <2>1, <2>2 DEF EmbedInv, EmbedsAlone
    <3> QED
      BY <1>1, <1>2, <2>1, <3>1 DEF KnownBy
  <2>3. CASE ~Se!Writes(g)
    BY <1>1, <2>3 DEF KnownBy, Se!Writes
  <2>4. CASE ~Se!Writes(h)
    BY <1>1, <1>2, <2>1, <2>4 DEF KnownBy
  <2> QED
    BY <2>2, <2>3, <2>4
<1>4. RowsAreOne'
  <2> SUFFICES ASSUME ~clash', NEW s \in Servers, NEW c \in EmbedChans PROVE OneRow(s, c)'
    BY DEF RowsAreOne
  <2>1. CASE s = j.server /\ c = j.chan
    BY <2>1
  <2>2. CASE s # j.server \/ c # j.chan
    BY <1>1, <2>2 DEF EmbedInv, RowsAreOne, OneRow
  <2> QED
    BY <2>1, <2>2
<1>5. EmbedsFollow'
  <2> SUFFICES ASSUME ~clash', ~torn', NEW s \in Servers, NEW c \in EmbedChans,
                      \A g \in Commands : at'[g] \in {"store", "delete"} =>
                         job'[g].server # s \/ job'[g].chan # c
               PROVE  InSync(s, c)'
    BY DEF EmbedsFollow
  <2>1. CASE s = j.server /\ c = j.chan
    BY <1>1, <2>1
  <2>2. CASE s # j.server \/ c # j.chan
    <3>1. \A g \in Commands : at[g] \in {"store", "delete"} => job[g].server # s \/ job[g].chan # c
      BY <1>1, <2>2
    <3>2. InSync(s, c)
      BY <1>1, <3>1 DEF EmbedInv, EmbedsFollow
    <3> QED
      BY <2>2, <3>2 DEF InSync
  <2> QED
    BY <2>1, <2>2
<1> QED
  BY <1>1, <1>3, <1>4, <1>5

\* A step that writes nothing.
LEMMA EmbedAside ==
    ASSUME EmbedInv, NEW h \in Commands, NEW j \in Se!Job, NEW next \in Se!Stages, Se!Goto(h, j, next),
           at[h] \notin {"store", "delete"}, next \notin {"create", "store", "delete"},
           Se!Writes(h) => j = job[h],
           UNCHANGED <<rows, embeds, torn>>,
           \A g \in Commands \ {h} : left'[g] = left[g]
    PROVE  EmbedsAlone' /\ EmbedsKnown' /\ RowsAreOne' /\ EmbedsFollow'
<1>1. /\ at'[h] = next /\ job'[h] = j
      /\ \A g \in Commands : g # h => at'[g] = at[g] /\ job'[g] = job[g]
      /\ (clash => clash') /\ EmbedsAlone'
  BY EmbedGoto DEF EmbedInv
<1>2. EmbedsKnown'
  BY <1>1 DEF EmbedInv, EmbedsKnown, KnownBy, HasRow, Shows
<1>3. RowsAreOne'
  BY <1>1 DEF EmbedInv, RowsAreOne, OneRow, HasRow
<1>4. EmbedsFollow'
  <2> SUFFICES ASSUME ~clash', ~torn', NEW s \in Servers, NEW c \in EmbedChans,
                      \A g \in Commands : at'[g] \in {"store", "delete"} =>
                         job'[g].server # s \/ job'[g].chan # c
               PROVE  InSync(s, c)'
    BY DEF EmbedsFollow
  <2>1. \A g \in Commands : at[g] \in {"store", "delete"} => job[g].server # s \/ job[g].chan # c
    BY <1>1
  <2>2. InSync(s, c)
    BY <1>1, <2>1 DEF EmbedInv, EmbedsFollow
  <2> QED
    BY <2>2 DEF InSync, HasRow, Shows
<1> QED
  BY <1>1, <1>2, <1>3, <1>4

-----------------------------------------------------------------------------
\* Kinds and locals: each step says where its goroutine goes, with what.
LEMMA EmbedKindsStep ==
    ASSUME EmbedInv, NEW h \in Commands, NEW j \in Se!Job, NEW next \in Se!Stages, Se!Goto(h, j, next),
           \A g \in Commands \ {h} : left'[g] = left[g],
           next \in {"update", "create", "store"} =>
              j.kind = "bind" /\ \E m \in Se!Messages : left'[h] = {m},
           next \in {"forget", "delete"} => j.kind \in {"unbind", "update"},
           next \in {"forget", "delete"} /\ j.kind = "update" => left'[h] \subseteq EmbedChans,
           next = "edit" => left'[h] \subseteq EmbedChans
    PROVE  EmbedKinds'
<1>1. /\ at'[h] = next /\ job'[h] = j
      /\ \A g \in Commands : g # h => at'[g] = at[g] /\ job'[g] = job[g]
  BY EmbedGoto DEF EmbedInv
<1> SUFFICES ASSUME NEW g \in Commands
             PROVE  /\ at'[g] \in {"update", "create", "store"} =>
                          job'[g].kind = "bind" /\ \E m \in Se!Messages : left'[g] = {m}
                    /\ at'[g] \in {"forget", "delete"} => job'[g].kind \in {"unbind", "update"}
                    /\ at'[g] \in {"forget", "delete"} /\ job'[g].kind = "update" => left'[g] \subseteq EmbedChans
                    /\ at'[g] = "edit" => left'[g] \subseteq EmbedChans
  BY DEF EmbedKinds
<1>2. CASE g = h
  BY <1>1, <1>2
<1>3. CASE g # h
  BY <1>1, <1>3 DEF EmbedInv, EmbedKinds
<1> QED
  BY <1>2, <1>3

LEMMA EmbedBindStep ==
    ASSUME Se!StatusEmbedsAssumption, EmbedInv, NEW h \in Commands, Se!StatusBind(h) PROVE EmbedInv'
<1>1. /\ at[h] = "idle" /\ job[h].kind = "bind" /\ posted < MaxEmbeds /\ posted' = posted + 1
      /\ left' = [left EXCEPT ![h] = {posted + 1}]
      /\ UNCHANGED <<rows, embeds, gone, torn, errors, restarts>>
      /\ Se!Goto(h, job[h], "update") /\ "update" \in Se!Stages
  BY DEF Se!StatusBind, Se!faults, Se!Stages
<1>2. job[h] \in Se!Job
  BY DEF EmbedInv, Se!TypeOK
<1>3. posted + 1 \in Se!Messages
  BY <1>1 DEF Se!StatusEmbedsAssumption, Se!Messages, EmbedInv, Se!TypeOK
<1>4. /\ left' \in [Commands -> SUBSET (Se!Messages \cup EmbedChans)] /\ left'[h] = {posted + 1}
      /\ \A g \in Commands \ {h} : left'[g] = left[g]
  BY <1>1, <1>3 DEF EmbedInv, Se!TypeOK
<1>5. EmbedsAlone' /\ EmbedsKnown' /\ RowsAreOne' /\ EmbedsFollow'
  BY <1>1, <1>2, <1>4, EmbedAside
<1>6. EmbedKinds'
  BY <1>1, <1>2, <1>3, <1>4, EmbedKindsStep
<1>7. Se!TypeOK'
  <2>1. /\ at' \in [Commands -> Se!Stages] /\ job' \in [Commands -> Se!Job] /\ clash' \in BOOLEAN
    BY <1>1, <1>2, EmbedGoto DEF EmbedInv
  <2> QED
    BY <1>1, <1>3, <1>4, <2>1 DEF EmbedInv, Se!TypeOK
<1> QED
  BY <1>5, <1>6, <1>7 DEF EmbedInv

\* The types, when a step changes no more than these.
LEMMA EmbedTypes ==
    ASSUME Se!TypeOK, EmbedsAlone, NEW h \in Commands, NEW j \in Se!Job, NEW next \in Se!Stages, Se!Goto(h, j, next),
           rows' \subseteq Se!Row, embeds' \in [Servers -> SUBSET (EmbedChans \X Se!Messages)],
           left' \in [Commands -> SUBSET (Se!Messages \cup EmbedChans)],
           torn' \in BOOLEAN, errors' \in Nat, UNCHANGED <<posted, gone, restarts>>
    PROVE  Se!TypeOK'
<1>1. at' \in [Commands -> Se!Stages] /\ job' \in [Commands -> Se!Job] /\ clash' \in BOOLEAN
  BY EmbedGoto
<1> QED
  BY <1>1 DEF Se!TypeOK

\* Steps that write nothing: unbind begins, an update begins or goes on.
LEMMA EmbedWalkStep ==
    ASSUME EmbedInv, NEW h \in Commands, Se!StatusUnbind(h) \/ Se!UpdateEmbeds(h) \/ Se!EditEmbed(h)
    PROVE  EmbedInv'
<1>0. job[h] \in Se!Job /\ left[h] \subseteq (Se!Messages \cup EmbedChans)
  BY DEF EmbedInv, Se!TypeOK
<1>1. PICK j \in Se!Job, next \in {"forget", "edit", "ended"} :
         /\ Se!Goto(h, j, next) /\ at[h] \in {"idle", "refresh", "edit"}
         /\ left' \in [Commands -> SUBSET (Se!Messages \cup EmbedChans)]
         /\ \A g \in Commands \ {h} : left'[g] = left[g]
         /\ next = "edit" => left'[h] \subseteq EmbedChans
         /\ next = "forget" => j.kind \in {"unbind", "update"}
         /\ next = "forget" /\ j.kind = "update" => left'[h] \subseteq EmbedChans
         /\ UNCHANGED <<rows, embeds, posted, gone, torn, errors, restarts>>
  <2>1. CASE Se!StatusUnbind(h)
    <3>1. /\ Se!Goto(h, job[h], "forget") /\ at[h] = "idle" /\ job[h].kind = "unbind" /\ UNCHANGED left
          /\ UNCHANGED <<rows, embeds, posted, gone, torn, errors, restarts>>
      BY <2>1 DEF Se!StatusUnbind, Se!discord, Se!faults
    <3> QED
      BY <1>0, <3>1 DEF EmbedInv, Se!TypeOK
  <2>2. CASE Se!UpdateEmbeds(h)
    <3>1. PICK walk \in {{}, {e[1] : e \in embeds[job[h].server]}} : left' = [left EXCEPT ![h] = walk]
      BY <2>2 DEF Se!UpdateEmbeds
    <3>2. walk \subseteq EmbedChans
      BY <1>0 DEF EmbedInv, Se!TypeOK, Se!Job
    <3>3. /\ Se!Goto(h, job[h], "edit") /\ at[h] \in {"idle", "refresh"}
          /\ UNCHANGED <<rows, embeds, posted, gone, torn, errors, restarts>>
      BY <2>2 DEF Se!UpdateEmbeds, Se!discord, Se!faults
    <3>4. /\ left' \in [Commands -> SUBSET (Se!Messages \cup EmbedChans)] /\ left'[h] = walk
          /\ \A g \in Commands \ {h} : left'[g] = left[g]
      BY <3>1, <3>2 DEF EmbedInv, Se!TypeOK
    <3> QED
      BY <1>0, <3>2, <3>3, <3>4
  <2>3. CASE Se!EditEmbed(h)
    <3>1. at[h] = "edit" /\ UNCHANGED <<rows, embeds, posted, gone, torn, errors, restarts>>
      BY <2>3 DEF Se!EditEmbed, Se!discord, Se!faults
    <3>2. left[h] \subseteq EmbedChans
      BY <3>1 DEF EmbedInv, EmbedKinds
    <3>3. CASE UNCHANGED left /\ Se!Goto(h, job[h], "ended")
      BY <1>0, <3>1, <3>3 DEF EmbedInv, Se!TypeOK
    <3>4. ASSUME NEW c \in left[h], left' = [left EXCEPT ![h] = @ \ {c}],
                 IF c \in gone /\ \E e \in embeds[job[h].server] : e[1] = c
                 THEN Se!Goto(h, [job[h] EXCEPT !.kind = "update", !.chan = c], "forget")
                 ELSE Se!Goto(h, job[h], "edit")
          PROVE  \E j \in Se!Job, next \in {"forget", "edit", "ended"} :
                    /\ Se!Goto(h, j, next)
                    /\ left' \in [Commands -> SUBSET (Se!Messages \cup EmbedChans)]
                    /\ \A g \in Commands \ {h} : left'[g] = left[g]
                    /\ left'[h] \subseteq EmbedChans
                    /\ next = "forget" => j.kind \in {"unbind", "update"}
      <4>1. /\ left' \in [Commands -> SUBSET (Se!Messages \cup EmbedChans)] /\ left'[h] \subseteq EmbedChans
            /\ \A g \in Commands \ {h} : left'[g] = left[g]
        BY <3>2, <3>4 DEF EmbedInv, Se!TypeOK
      <4> DEFINE k == [job[h] EXCEPT !.kind = "update", !.chan = c]
      <4>2. k \in Se!Job /\ k.kind = "update"
        BY <1>0, <3>2 DEF Se!Job
      <4> HIDE DEF k
      <4>3. CASE Se!Goto(h, k, "forget")
        BY <4>1, <4>2, <4>3
      <4>4. CASE Se!Goto(h, job[h], "edit")
        BY <1>0, <4>1, <4>4
      <4> QED
        BY <3>4, <4>3, <4>4 DEF k
    <3>5. \/ UNCHANGED left /\ Se!Goto(h, job[h], "ended")
          \/ \E c \in left[h] :
                /\ left' = [left EXCEPT ![h] = @ \ {c}]
                /\ IF c \in gone /\ \E e \in embeds[job[h].server] : e[1] = c
                   THEN Se!Goto(h, [job[h] EXCEPT !.kind = "update", !.chan = c], "forget")
                   ELSE Se!Goto(h, job[h], "edit")
      BY <2>3 DEF Se!EditEmbed
    <3>6. CASE \E c \in left[h] :
                /\ left' = [left EXCEPT ![h] = @ \ {c}]
                /\ IF c \in gone /\ \E e \in embeds[job[h].server] : e[1] = c
                   THEN Se!Goto(h, [job[h] EXCEPT !.kind = "update", !.chan = c], "forget")
                   ELSE Se!Goto(h, job[h], "edit")
      BY <3>1, <3>4, <3>6
    <3> QED
      BY <3>3, <3>5, <3>6
  <2> QED
    BY <2>1, <2>2, <2>3
<1>2. next \in Se!Stages
  BY DEF Se!Stages
<1>3. ~Se!Writes(h)
  BY <1>1 DEF Se!Writes
<1>4. EmbedsAlone' /\ EmbedsKnown' /\ RowsAreOne' /\ EmbedsFollow'
  BY <1>1, <1>2, <1>3, EmbedAside
<1>5. EmbedKinds'
  BY <1>1, <1>2, EmbedKindsStep
<1>6. Se!TypeOK'
  <2>1. /\ rows' \subseteq Se!Row /\ embeds' \in [Servers -> SUBSET (EmbedChans \X Se!Messages)]
        /\ torn' \in BOOLEAN /\ errors' \in Nat
    BY <1>1 DEF EmbedInv, Se!TypeOK
  <2> QED
    BY <1>1, <1>2, <2>1, EmbedTypes DEF EmbedInv
<1> QED
  BY <1>4, <1>5, <1>6 DEF EmbedInv

-----------------------------------------------------------------------------
\* Nobody else is between two writes of the channel h writes.
LEMMA EmbedInSyncBefore ==
    ASSUME EmbedInv, NEW h \in Commands, ~clash, ~torn, Se!Writes(h), at[h] \notin {"store", "delete"}
    PROVE  InSync(job[h].server, job[h].chan)
<1>1. job[h].server \in Servers /\ job[h].chan \in EmbedChans
  BY DEF EmbedInv, Se!TypeOK, Se!Job
<1>2. \A g \in Commands : at[g] \in {"store", "delete"} =>
         job[g].server # job[h].server \/ job[g].chan # job[h].chan
  BY DEF EmbedInv, EmbedsAlone, Se!Writes
<1> QED
  BY <1>1, <1>2 DEF EmbedInv, EmbedsFollow

LEMMA EmbedRowStep ==
    ASSUME EmbedInv, NEW h \in Commands,
           Se!UpdateEmbedRow(h) \/ Se!CreateEmbedRow(h) \/ Se!DeleteEmbedRow(h)
    PROVE  EmbedInv'
<1>0. PICK j \in Se!Job : j = job[h]
  BY DEF EmbedInv, Se!TypeOK
<1> DEFINE s0 == j.server
           c0 == j.chan
<1>1. job[h] = j /\ s0 \in Servers /\ c0 \in EmbedChans
  BY <1>0 DEF Se!Job
<1>2. \E next \in {"create", "store", "edit", "ended"}, ms \in SUBSET Se!Messages,
         gone0 \in {{}, Se!OwnRows(h)} :
         /\ Se!Goto(h, j, next)
         /\ rows' = (rows \ gone0) \cup {[server |-> s0, chan |-> c0, msg |-> m] : m \in ms}
         /\ UNCHANGED <<embeds, posted, gone, left, torn, errors, restarts>>
         /\ next = "create" => at[h] = "update" /\ Se!OwnRows(h) = {} /\ ms = {}
         /\ next = "store" => /\ ms = left[h] /\ at[h] \in {"update", "create"}
                              /\ at[h] = "update" => gone0 # {}
         /\ next \in {"edit", "ended"} => at[h] = "delete" /\ ms = {} /\ gone0 = Se!OwnRows(h)
         /\ next = "edit" => job[h].kind # "unbind"
  <2>1. Se!NewRows(h) = {[server |-> s0, chan |-> c0, msg |-> m] : m \in left[h]}
    BY <1>1 DEF Se!NewRows
  <2>2. at[h] \in {"update", "create"} => left[h] \subseteq Se!Messages
    BY DEF EmbedInv, EmbedKinds
  <2>3. {[server |-> s0, chan |-> c0, msg |-> m] : m \in {}} = {}
    OBVIOUS
  <2>4. CASE Se!UpdateEmbedRow(h) /\ Se!OwnRows(h) = {}
    BY <1>1, <2>3, <2>4 DEF Se!UpdateEmbedRow, Se!ChangeRows, Se!discord, Se!faults
  <2>5. CASE Se!UpdateEmbedRow(h) /\ Se!OwnRows(h) # {}
    <3>1. /\ at[h] = "update" /\ rows' = (rows \ Se!OwnRows(h)) \cup Se!NewRows(h)
          /\ UNCHANGED <<embeds, posted, gone, left, torn, errors, restarts>>
          /\ Se!Goto(h, job[h], "store")
      BY <2>5 DEF Se!UpdateEmbedRow, Se!ChangeRows, Se!discord, Se!faults
    <3> QED
      BY <1>1, <2>1, <2>2, <2>5, <3>1
  <2>6. CASE Se!CreateEmbedRow(h)
    <3>1. /\ at[h] = "create" /\ rows' = (rows \ {}) \cup Se!NewRows(h)
          /\ UNCHANGED <<embeds, posted, gone, left, torn, errors, restarts>>
          /\ Se!Goto(h, job[h], "store")
      BY <2>6 DEF Se!CreateEmbedRow, Se!ChangeRows, Se!discord, Se!faults
    <3> QED
      BY <1>1, <2>1, <2>2, <3>1
  <2>7. CASE Se!DeleteEmbedRow(h)
    <3>1. /\ at[h] = "delete" /\ rows' = (rows \ Se!OwnRows(h)) \cup {}
          /\ UNCHANGED <<embeds, posted, gone, left, torn, errors, restarts>>
          /\ Se!Goto(h, job[h], IF job[h].kind = "unbind" THEN "ended" ELSE "edit")
      BY <2>7 DEF Se!DeleteEmbedRow, Se!DeleteIf, Se!ChangeRows, Se!discord, Se!faults
    <3>2. CASE job[h].kind = "unbind"
      BY <1>1, <2>3, <3>1, <3>2
    <3>3. CASE job[h].kind # "unbind"
      BY <1>1, <2>3, <3>1, <3>3
    <3> QED
      BY <3>2, <3>3
  <2> QED
    BY <2>4, <2>5, <2>6, <2>7
<1>3. PICK next \in {"create", "store", "edit", "ended"}, ms \in SUBSET Se!Messages,
         gone0 \in {{}, Se!OwnRows(h)} :
         /\ Se!Goto(h, j, next)
         /\ rows' = (rows \ gone0) \cup {[server |-> s0, chan |-> c0, msg |-> m] : m \in ms}
         /\ UNCHANGED <<embeds, posted, gone, left, torn, errors, restarts>>
         /\ next = "create" => at[h] = "update" /\ Se!OwnRows(h) = {} /\ ms = {}
         /\ next = "store" => /\ ms = left[h] /\ at[h] \in {"update", "create"}
                              /\ at[h] = "update" => gone0 # {}
         /\ next \in {"edit", "ended"} => at[h] = "delete" /\ ms = {} /\ gone0 = Se!OwnRows(h)
         /\ next = "edit" => job[h].kind # "unbind"
  BY <1>2
<1>4. next \in Se!Stages /\ at[h] \in {"update", "create", "delete"} /\ Se!Writes(h)
  BY <1>3 DEF Se!Stages, Se!Writes
<1>5. /\ rows' \subseteq Se!Row
      /\ \A s \in Servers, c \in EmbedChans, m \in Se!Messages :
           HasRow(s, c, m)' <=> IF s = s0 /\ c = c0 THEN m \in ms \/ (HasRow(s, c, m) /\ gone0 = {})
                                ELSE HasRow(s, c, m)
  <2>0. rows \subseteq Se!Row
    BY DEF EmbedInv, Se!TypeOK
  <2>1. rows' \subseteq Se!Row
    BY <1>1, <1>3, <2>0 DEF Se!Row
  <2> SUFFICES ASSUME NEW s \in Servers, NEW c \in EmbedChans, NEW m \in Se!Messages
               PROVE  HasRow(s, c, m)' <=>
                         IF s = s0 /\ c = c0 THEN m \in ms \/ (HasRow(s, c, m) /\ gone0 = {})
                         ELSE HasRow(s, c, m)
    BY <2>1
  <2> DEFINE r == [server |-> s, chan |-> c, msg |-> m]
             come == {[server |-> s0, chan |-> c0, msg |-> n] : n \in ms}
  <2>2. r \in come <=> s = s0 /\ c = c0 /\ m \in ms
    OBVIOUS
  <2>3. r \in Se!OwnRows(h) <=> r \in rows /\ s = s0 /\ c = c0
    BY <1>1 DEF Se!OwnRows
  <2>4. (HasRow(s, c, m)' <=> r \in rows') /\ (HasRow(s, c, m) <=> r \in rows)
    BY DEF HasRow
  <2>5. rows' = (rows \ gone0) \cup come
    BY <1>3
  <2> HIDE DEF r, come, s0, c0
  <2>6. CASE gone0 = {}
    BY <2>2, <2>4, <2>5, <2>6
  <2>7. CASE gone0 = Se!OwnRows(h) /\ gone0 # {}
    BY <2>2, <2>3, <2>4, <2>5, <2>7
  <2> QED
    BY <2>6, <2>7
<1>6. \A s, c, m : Shows(s, c, m)' <=> Shows(s, c, m)
  BY <1>3 DEF Shows
<1>7. /\ at'[h] = next /\ job'[h] = j
      /\ \A g \in Commands : g # h => at'[g] = at[g] /\ job'[g] = job[g]
      /\ (clash => clash')
  BY <1>1, <1>3, <1>4, EmbedGoto DEF EmbedInv
<1>8. Se!OwnRows(h) = {} => \A m \in Se!Messages : ~HasRow(s0, c0, m)
  BY <1>1 DEF Se!OwnRows, HasRow
<1>9. at[h] \in {"update", "create"} => \E m \in Se!Messages : left[h] = {m}
  BY DEF EmbedInv, EmbedKinds
<1>10. ASSUME ~clash'
       PROVE  /\ KnownBy(h)' /\ OneRow(s0, c0)'
              /\ ~torn /\ next \notin {"store", "delete"} => InSync(s0, c0)'
  <2>1. KnownBy(h) /\ OneRow(s0, c0)
    BY <1>1, <1>7, <1>10 DEF EmbedInv, EmbedsKnown, RowsAreOne
  <2>2. CASE next = "create"
    <3>1. \A m \in Se!Messages : ~HasRow(s0, c0, m)'
      BY <1>1, <1>3, <1>5, <1>8, <2>2
    <3>2. ~torn => InSync(s0, c0)
      BY <1>1, <1>3, <1>4, <1>7, <1>10, <2>2, EmbedInSyncBefore
    <3>3. KnownBy(h)' /\ OneRow(s0, c0)'
      BY <1>7, <2>2, <3>1 DEF KnownBy, OneRow
    <3>4. ~torn => InSync(s0, c0)'
      BY <1>3, <1>6, <1>8, <2>2, <3>1, <3>2 DEF InSync
    <3> QED
      BY <3>3, <3>4
  <2>3. CASE next = "store"
    <3>1. \A m \in Se!Messages : HasRow(s0, c0, m)' <=> m \in left[h]
      <4>1. CASE at[h] = "update"
        BY <1>1, <1>3, <1>5, <2>3, <4>1
      <4>2. CASE at[h] = "create"
        <5>1. \A m \in Se!Messages : ~HasRow(s0, c0, m)
          BY <1>1, <2>1, <4>2 DEF KnownBy
        <5> QED
          BY <1>1, <1>3, <1>5, <2>3, <5>1
      <4> QED
        BY <1>3, <2>3, <4>1, <4>2
    <3>2. KnownBy(h)'
      BY <1>3, <1>7, <2>3, <3>1 DEF KnownBy
    <3>3. OneRow(s0, c0)'
      BY <1>3, <1>9, <2>3, <3>1 DEF OneRow
    <3> QED
      BY <2>3, <3>2, <3>3
  <2>4. CASE next \in {"edit", "ended"}
    <3>1. \A m \in Se!Messages : ~HasRow(s0, c0, m)'
      BY <1>1, <1>3, <1>5, <1>8, <2>4
    <3>2. \A m \in Se!Messages : ~Shows(s0, c0, m)'
      BY <1>1, <1>3, <1>6, <2>1, <2>4 DEF KnownBy
    <3>3. KnownBy(h)'
      BY <1>7, <2>4 DEF KnownBy
    <3> QED
      BY <3>1, <3>2, <3>3 DEF OneRow, InSync
  <2> QED
    BY <2>2, <2>3, <2>4
<1>11. EmbedsAlone' /\ EmbedsKnown' /\ RowsAreOne' /\ EmbedsFollow'
  <2>1. \A s \in Servers, c \in EmbedChans, m \in Se!Messages :
           s # s0 \/ c # c0 \/ ~Se!Writes(h) =>
              (HasRow(s, c, m)' <=> HasRow(s, c, m)) /\ (Shows(s, c, m)' <=> Shows(s, c, m))
    BY <1>4, <1>5, <1>6
  <2>2. \A g \in Commands \ {h} : left'[g] = left[g]
    BY <1>3
  <2> HIDE DEF s0, c0
  <2> QED
    BY <1>1, <1>3, <1>4, <1>10, <2>1, <2>2, EmbedStep DEF s0, c0
<1>12. EmbedKinds'
  <2>1. next \in {"create", "store"} => job[h].kind = "bind" /\ \E m \in Se!Messages : left'[h] = {m}
    BY <1>3 DEF EmbedInv, EmbedKinds
  <2>2. next = "edit" => left'[h] \subseteq EmbedChans
    BY <1>3 DEF EmbedInv, EmbedKinds
  <2> QED
    BY <1>1, <1>3, <1>4, <2>1, <2>2, EmbedKindsStep
<1>13. Se!TypeOK'
  <2>1. /\ embeds' \in [Servers -> SUBSET (EmbedChans \X Se!Messages)]
        /\ left' \in [Commands -> SUBSET (Se!Messages \cup EmbedChans)]
        /\ torn' \in BOOLEAN /\ errors' \in Nat
    BY <1>3 DEF EmbedInv, Se!TypeOK
  <2> QED
    BY <1>1, <1>3, <1>4, <1>5, <2>1, EmbedTypes DEF EmbedInv
<1> QED
  BY <1>11, <1>12, <1>13 DEF EmbedInv

\* A write of the map: the embeds of one channel are those with messages ms.
LEMMA EmbedMapStep ==
    ASSUME EmbedInv, NEW h \in Commands, Se!StoreEmbed(h) \/ Se!ForgetEmbed(h) PROVE EmbedInv'
<1>0. PICK j \in Se!Job : j = job[h]
  BY DEF EmbedInv, Se!TypeOK
<1> DEFINE s0 == j.server
           c0 == j.chan
<1>1. job[h] = j /\ s0 \in Servers /\ c0 \in EmbedChans
  BY <1>0 DEF Se!Job
<1>2. at[h] = "store" => \E m \in Se!Messages : left[h] = {m}
  BY DEF EmbedInv, EmbedKinds
<1>3. PICK next \in {"refresh", "delete"}, ms \in SUBSET Se!Messages :
         /\ Se!Goto(h, j, next)
         /\ embeds' = [embeds EXCEPT ![s0] = Se!Others(h) \cup ({c0} \X ms)]
         /\ UNCHANGED <<rows, posted, gone, left, torn, errors, restarts>>
         /\ next = "refresh" => ms = left[h] /\ at[h] = "store"
         /\ next = "delete" => ms = {} /\ at[h] = "forget"
  <2>1. CASE Se!StoreEmbed(h)
    BY <1>1, <1>2, <2>1 DEF Se!StoreEmbed, Se!ChangeMap, Se!discord, Se!faults
  <2>2. CASE Se!ForgetEmbed(h)
    <3>1. Se!Others(h) \cup ({c0} \X {}) = Se!Others(h)
      OBVIOUS
    <3> QED
      BY <1>1, <2>2, <3>1 DEF Se!ForgetEmbed, Se!ChangeMap, Se!discord, Se!faults
  <2> QED
    BY <2>1, <2>2
<1>4. next \in Se!Stages /\ Se!Writes(h)
  BY <1>3 DEF Se!Stages, Se!Writes
<1>5. embeds \in [Servers -> SUBSET (EmbedChans \X Se!Messages)]
  BY DEF EmbedInv, Se!TypeOK
<1>6. /\ embeds' \in [Servers -> SUBSET (EmbedChans \X Se!Messages)]
      /\ \A s \in Servers, c \in EmbedChans, m \in Se!Messages :
           Shows(s, c, m)' <=> IF s = s0 /\ c = c0 THEN m \in ms ELSE Shows(s, c, m)
  <2> DEFINE new == Se!Others(h) \cup ({c0} \X ms)
  <2>1. new \subseteq EmbedChans \X Se!Messages
    BY <1>1, <1>5 DEF Se!Others
  <2>2. ASSUME NEW c \in EmbedChans, NEW m \in Se!Messages
        PROVE  <<c, m>> \in new <=> IF c = c0 THEN m \in ms ELSE <<c, m>> \in embeds[s0]
    BY <1>1 DEF Se!Others
  <2> HIDE DEF new
  <2>3. embeds' \in [Servers -> SUBSET (EmbedChans \X Se!Messages)]
    BY <1>3, <1>5, <2>1 DEF new
  <2>4. embeds'[s0] = new /\ \A s \in Servers : s # s0 => embeds'[s] = embeds[s]
    BY <1>1, <1>3, <1>5 DEF new
  <2> QED
    BY <2>2, <2>3, <2>4 DEF Shows
<1>7. \A s, c, m : HasRow(s, c, m)' <=> HasRow(s, c, m)
  BY <1>3 DEF HasRow
<1>8. /\ at'[h] = next /\ job'[h] = j
      /\ \A g \in Commands : g # h => at'[g] = at[g] /\ job'[g] = job[g]
      /\ (clash => clash')
  BY <1>1, <1>3, <1>4, EmbedGoto DEF EmbedInv
<1>9. ASSUME ~clash'
      PROVE  /\ KnownBy(h)' /\ OneRow(s0, c0)'
             /\ ~torn /\ next \notin {"store", "delete"} => InSync(s0, c0)'
  <2>1. KnownBy(h) /\ OneRow(s0, c0)
    BY <1>1, <1>8, <1>9 DEF EmbedInv, EmbedsKnown, RowsAreOne
  <2>2. OneRow(s0, c0)'
    BY <1>7, <2>1 DEF OneRow
  <2>3. CASE next = "refresh"
    <3>1. \A m \in Se!Messages : HasRow(s0, c0, m) <=> m \in ms
      BY <1>1, <1>3, <2>1, <2>3 DEF KnownBy
    <3>2. InSync(s0, c0)'
      BY <1>1, <1>6, <1>7, <3>1 DEF InSync
    <3>3. KnownBy(h)'
      BY <1>8, <2>3 DEF KnownBy
    <3> QED
      BY <2>2, <3>2, <3>3
  <2>4. CASE next = "delete"
    <3>1. KnownBy(h)'
      BY <1>1, <1>3, <1>6, <1>8, <2>4 DEF KnownBy
    <3> QED
      BY <2>2, <2>4, <3>1
  <2> QED
    BY <2>3, <2>4
<1>10. EmbedsAlone' /\ EmbedsKnown' /\ RowsAreOne' /\ EmbedsFollow'
  <2>1. \A s \in Servers, c \in EmbedChans, m \in Se!Messages :
           s # s0 \/ c # c0 \/ ~Se!Writes(h) =>
              (HasRow(s, c, m)' <=> HasRow(s, c, m)) /\ (Shows(s, c, m)' <=> Shows(s, c, m))
    BY <1>4, <1>6, <1>7
  <2>2. \A g \in Commands \ {h} : left'[g] = left[g]
    BY <1>3
  <2> HIDE DEF s0, c0
  <2> QED
    BY <1>1, <1>3, <1>4, <1>9, <2>1, <2>2, EmbedStep DEF s0, c0
<1>11. EmbedKinds'
  <2>1. next = "delete" => /\ job[h].kind \in {"unbind", "update"}
                           /\ job[h].kind = "update" => left'[h] \subseteq EmbedChans
    BY <1>3 DEF EmbedInv, EmbedKinds
  <2> QED
    BY <1>1, <1>3, <1>4, <2>1, EmbedKindsStep
<1>12. Se!TypeOK'
  <2>1. /\ rows' \subseteq Se!Row
        /\ left' \in [Commands -> SUBSET (Se!Messages \cup EmbedChans)]
        /\ torn' \in BOOLEAN /\ errors' \in Nat
    BY <1>3 DEF EmbedInv, Se!TypeOK
  <2> QED
    BY <1>1, <1>3, <1>4, <1>6, <2>1, EmbedTypes DEF EmbedInv
<1> QED
  BY <1>10, <1>11, <1>12 DEF EmbedInv

\* A statement fails: the bind or unbind has ended, the walk of an update goes on.
LEMMA EmbedFailStep ==
    ASSUME EmbedInv, NEW h \in Commands, Se!StatementFails(h) PROVE EmbedInv'
<1>0. PICK j \in Se!Job : j = job[h]
  BY DEF EmbedInv, Se!TypeOK
<1>1. PICK next \in {"edit", "ended"} :
         /\ Se!Goto(h, j, next) /\ at[h] \in {"update", "create", "delete"}
         /\ next = IF j.kind = "update" THEN "edit" ELSE "ended"
         /\ torn' = (torn \/ at[h] = "delete") /\ errors' = errors + 1
         /\ UNCHANGED <<rows, embeds, posted, gone, left, restarts>>
  BY <1>0 DEF Se!StatementFails, Se!discord
<1>2. next \in Se!Stages
  BY DEF Se!Stages
<1>3. /\ at'[h] = next /\ job'[h] = j
      /\ \A g \in Commands : g # h => at'[g] = at[g] /\ job'[g] = job[g]
      /\ (clash => clash') /\ EmbedsAlone'
  BY <1>1, <1>2, EmbedGoto DEF EmbedInv
<1>4. next = "edit" => at[h] = "delete" /\ left[h] \subseteq EmbedChans
  BY <1>0, <1>1 DEF EmbedInv, EmbedKinds
<1>5. EmbedsAlone' /\ EmbedsKnown' /\ RowsAreOne' /\ EmbedsFollow'
  <2>1. CASE at[h] = "delete"
    <3>1. EmbedsKnown'
      BY <1>1, <1>3 DEF EmbedInv, EmbedsKnown, KnownBy, HasRow, Shows
    <3>2. RowsAreOne'
      BY <1>1, <1>3 DEF EmbedInv, RowsAreOne, OneRow, HasRow
    <3>3. torn'
      BY <1>1, <2>1
    <3> QED
      BY <1>3, <3>1, <3>2, <3>3 DEF EmbedsFollow
  <2>2. CASE at[h] # "delete"
    <3>1. UNCHANGED torn
      BY <1>1, <2>2 DEF EmbedInv, Se!TypeOK
    <3>2. /\ UNCHANGED <<rows, embeds, torn>>
          /\ \A g \in Commands \ {h} : left'[g] = left[g]
          /\ at[h] \notin {"store", "delete"} /\ next \notin {"create", "store", "delete"}
      BY <1>1, <2>2, <3>1
    <3> QED
      BY <1>0, <1>1, <1>2, <3>2, EmbedAside
  <2> QED
    BY <2>1, <2>2
<1>6. EmbedKinds'
  <2>1. next = "edit" => left'[h] \subseteq EmbedChans
    BY <1>1, <1>4
  <2>2. \A g \in Commands \ {h} : left'[g] = left[g]
    BY <1>1
  <2> QED
    BY <1>1, <1>2, <2>1, <2>2, EmbedKindsStep
<1>7. Se!TypeOK'
  <2>1. /\ rows' \subseteq Se!Row /\ embeds' \in [Servers -> SUBSET (EmbedChans \X Se!Messages)]
        /\ left' \in [Commands -> SUBSET (Se!Messages \cup EmbedChans)]
        /\ torn' \in BOOLEAN /\ errors' \in Nat /\ UNCHANGED <<posted, gone, restarts>>
    BY <1>1 DEF EmbedInv, Se!TypeOK
  <2> QED
    BY <1>1, <1>2, <2>1, EmbedTypes DEF EmbedInv
<1> QED
  BY <1>5, <1>6, <1>7 DEF EmbedInv

LEMMA EmbedRestartStep == ASSUME EmbedInv, Se!Restart PROVE EmbedInv'
<1>1. /\ embeds' \in Se!Loaded(rows) /\ torn' = FALSE /\ restarts' = restarts + 1
      /\ at' = [h \in Commands |-> IF Se!Active(h) THEN "ended" ELSE at[h]]
      /\ UNCHANGED <<rows, posted, gone, job, left, clash, errors>>
  BY DEF Se!Restart, Se!discord
<1>2. rows \in SUBSET Se!Row
  BY DEF EmbedInv, Se!TypeOK
<1>3. \A h \in Commands : at'[h] \in {"idle", "ended"}
  BY <1>1 DEF Se!Active
<1>4. /\ embeds' \in [Servers -> SUBSET (EmbedChans \X Se!Messages)]
      /\ (\A r, q \in rows : r.server = q.server /\ r.chan = q.chan => r = q) =>
            \A s \in Servers, c \in EmbedChans, n \in Se!Messages :
                [server |-> s, chan |-> c, msg |-> n] \in rows <=> <<c, n>> \in embeds'[s]
  BY <1>1, <1>2, EmbedsLoaded
<1>5. EmbedsFollow'
  <2> SUFFICES ASSUME ~clash', NEW s \in Servers, NEW c \in EmbedChans PROVE InSync(s, c)'
    BY DEF EmbedsFollow
  <2>1. \A s1 \in Servers, c1 \in EmbedChans : OneRow(s1, c1)
    BY <1>1 DEF EmbedInv, RowsAreOne
  <2>2. \A r, q \in rows : r.server = q.server /\ r.chan = q.chan => r = q
    BY <2>1, RowsOfOne DEF EmbedInv
  <2>3. \A n \in Se!Messages : [server |-> s, chan |-> c, msg |-> n] \in rows <=> <<c, n>> \in embeds'[s]
    BY <1>4, <2>2
  <2> QED
    BY <1>1, <2>3 DEF InSync, HasRow, Shows
<1>6. RowsAreOne'
  BY <1>1 DEF EmbedInv, RowsAreOne, OneRow, HasRow
<1>7. Se!TypeOK'
  <2>1. at' \in [Commands -> Se!Stages]
    BY <1>1 DEF EmbedInv, Se!TypeOK, Se!Stages
  <2>2. restarts' \in Nat
    BY <1>1 DEF EmbedInv, Se!TypeOK
  <2>3. /\ rows' \subseteq Se!Row /\ posted' \in Se!Messages /\ gone' \subseteq EmbedChans
        /\ job' \in [Commands -> Se!Job] /\ left' \in [Commands -> SUBSET (Se!Messages \cup EmbedChans)]
        /\ clash' \in BOOLEAN /\ errors' \in Nat
    BY <1>1 DEF EmbedInv, Se!TypeOK
  <2> QED
    BY <1>1, <1>4, <2>1, <2>2, <2>3 DEF Se!TypeOK
<1>8. EmbedKinds' /\ EmbedsAlone' /\ EmbedsKnown'
  BY <1>3 DEF EmbedKinds, EmbedsAlone, Se!Writes, EmbedsKnown, KnownBy
<1> QED
  BY <1>5, <1>6, <1>7, <1>8 DEF EmbedInv

\* What the invariant does not speak of.
LEMMA EmbedKept ==
    ASSUME EmbedInv, UNCHANGED <<rows, embeds, posted, at, job, left, clash, torn, errors, restarts>>,
           gone' \subseteq EmbedChans
    PROVE  EmbedInv'
<1>1. Se!TypeOK'
  BY DEF EmbedInv, Se!TypeOK
<1>2. EmbedKinds' /\ EmbedsAlone'
  BY DEF EmbedInv, EmbedKinds, EmbedsAlone, Se!Writes
<1>3. EmbedsKnown' /\ RowsAreOne'
  BY DEF EmbedInv, EmbedsKnown, KnownBy, RowsAreOne, OneRow, HasRow, Shows
<1>4. EmbedsFollow'
  BY DEF EmbedInv, EmbedsFollow, InSync, HasRow, Shows
<1> QED
  BY <1>1, <1>2, <1>3, <1>4 DEF EmbedInv

LEMMA EmbedNext == Se!StatusEmbedsAssumption /\ EmbedInv /\ [Se!Next]_(Se!vars) => EmbedInv'
<1> SUFFICES ASSUME Se!StatusEmbedsAssumption, EmbedInv, [Se!Next]_(Se!vars) PROVE EmbedInv'
  OBVIOUS
<1>1. ASSUME NEW h \in Commands,
             \/ Se!StatusBind(h) \/ Se!UpdateEmbedRow(h) \/ Se!CreateEmbedRow(h) \/ Se!StoreEmbed(h)
             \/ Se!StatusUnbind(h) \/ Se!ForgetEmbed(h) \/ Se!DeleteEmbedRow(h)
             \/ Se!UpdateEmbeds(h) \/ Se!EditEmbed(h) \/ Se!StatementFails(h)
      PROVE  EmbedInv'
  BY <1>1, EmbedBindStep, EmbedRowStep, EmbedMapStep, EmbedWalkStep, EmbedFailStep
<1>2. CASE Se!ChannelDeleted
  <2>1. gone' \subseteq EmbedChans
    BY <1>2 DEF Se!ChannelDeleted, EmbedInv, Se!TypeOK
  <2> QED
    BY <1>2, <2>1, EmbedKept DEF Se!ChannelDeleted, Se!faults
<1>3. CASE Se!Restart
  BY <1>3, EmbedRestartStep
<1>4. CASE UNCHANGED Se!vars
  <2>1. gone' \subseteq EmbedChans
    BY <1>4 DEF Se!vars, EmbedInv, Se!TypeOK
  <2> QED
    BY <1>4, <2>1, EmbedKept DEF Se!vars
<1> QED
  BY <1>1, <1>2, <1>3, <1>4 DEF Se!Next

LEMMA EmbedsMatch == EmbedInv => Se!EmbedsOutliveTheBot
<1> SUFFICES ASSUME EmbedInv, Se!Quiet, ~clash, ~torn
             PROVE  rows = UNION {{[server |-> s, chan |-> e[1], msg |-> e[2]] : e \in embeds[s]} : s \in Servers}
  BY DEF Se!EmbedsOutliveTheBot
<1>1. \A s \in Servers, c \in EmbedChans : InSync(s, c)
  <2>1. \A h \in Commands : at[h] \notin {"store", "delete"}
    BY DEF Se!Quiet, Se!Active
  <2> QED
    BY <2>1 DEF EmbedInv, EmbedsFollow
<1>2. rows \subseteq Se!Row /\ embeds \in [Servers -> SUBSET (EmbedChans \X Se!Messages)]
  BY DEF EmbedInv, Se!TypeOK
<1>3. ASSUME NEW r \in rows
      PROVE  r \in UNION {{[server |-> s, chan |-> e[1], msg |-> e[2]] : e \in embeds[s]} : s \in Servers}
  <2>1. /\ r = [server |-> r.server, chan |-> r.chan, msg |-> r.msg]
        /\ r.server \in Servers /\ r.chan \in EmbedChans /\ r.msg \in Se!Messages
    BY <1>2 DEF Se!Row
  <2>2. <<r.chan, r.msg>> \in embeds[r.server]
    BY <1>1, <2>1 DEF InSync, HasRow, Shows
  <2> DEFINE e == <<r.chan, r.msg>>
  <2>3. r = [server |-> r.server, chan |-> e[1], msg |-> e[2]]
    BY <2>1
  <2>4. r \in {[server |-> r.server, chan |-> d[1], msg |-> d[2]] : d \in embeds[r.server]}
    BY <2>2, <2>3
  <2> QED
    BY <2>1, <2>4
<1>4. ASSUME NEW r, r \in UNION {{[server |-> s, chan |-> e[1], msg |-> e[2]] : e \in embeds[s]} : s \in Servers}
      PROVE  r \in rows
  <2>0. PICK s \in Servers : r \in {[server |-> s, chan |-> e[1], msg |-> e[2]] : e \in embeds[s]}
    BY <1>4
  <2>1. PICK e \in embeds[s] : r = [server |-> s, chan |-> e[1], msg |-> e[2]]
    BY <2>0
  <2>2. e[1] \in EmbedChans /\ e[2] \in Se!Messages /\ e = <<e[1], e[2]>>
    BY <1>2
  <2> QED
    BY <1>1, <2>1, <2>2 DEF InSync, HasRow, Shows
<1> QED
  BY <1>3, <1>4

-----------------------------------------------------------------------------
(* Moderators.                                                             *)

Held(c) == Mo!Places(c) # {}
HeldOnce(c) == \A i, k \in Mo!Places(c) : i = k

ModAlone ==
    ~clash => \A g, h \in Commands : g # h =>
        /\ Mo!Active(g) /\ Mo!Active(h) => job[g].ckey # job[h].ckey
        /\ ~(Mo!InMemory(g) /\ Mo!InMemory(h))

\* What the search found still holds when the slice is written.
ModFound ==
    ~clash => \A h \in Commands : Mo!InMemory(h) =>
        /\ left[h].slice = moderators
        /\ at[h] = "append" => ~Held(job[h].ckey)
        /\ at[h] = "cut" => left[h].index \in Mo!Places(job[h].ckey)

\* Slice and table differ by the one that a command has yet to write.
ModFollow ==
    ~clash /\ ~torn => \A c \in Ckeys :
        /\ rows[c] \in {0, 1} /\ HeldOnce(c)
        /\ \A h \in Commands : job[h].ckey = c =>
              /\ at[h] = "insert" => Held(c) /\ rows[c] = 0
              /\ at[h] = "delete" => ~Held(c)
        /\ (\A h \in Commands : job[h].ckey = c => at[h] \notin {"insert", "delete"}) =>
              (Held(c) <=> rows[c] = 1)

ModInv == Mo!TypeOK /\ ModAlone /\ ModFound /\ ModFollow

-----------------------------------------------------------------------------
\* The entries of a table, and what is loaded from it.
ModEntries(t) == UNION {{c} \X (1..t[c]) : c \in Ckeys}

LEMMA ModEntriesAre ==
    ASSUME NEW t \in [Ckeys -> Nat], IsFiniteSet(Ckeys)
    PROVE  /\ IsFiniteSet(ModEntries(t))
           /\ ModEntries(t) \subseteq Ckeys \X Nat
           /\ \A c \in Ckeys, n \in Nat : <<c, n>> \in ModEntries(t) <=> n \in 1..t[c]
<1> DEFINE f == [c \in Ckeys |-> {c} \X (1..t[c])]
<1>1. ASSUME NEW c \in Ckeys PROVE IsFiniteSet({c} \X (1..t[c]))
  <2>1. t[c] \in Int
    OBVIOUS
  <2>2. IsFiniteSet(1..t[c])
    BY <2>1, FS_Interval
  <2>3. IsFiniteSet({c})
    BY FS_Singleton
  <2> QED
    BY <2>2, <2>3, FS_Product
<1>2. IsFiniteSet({f[c] : c \in Ckeys})
  <2>1. DOMAIN f = Ckeys /\ f = [c \in Ckeys |-> f[c]]
    OBVIOUS
  <2> HIDE DEF f
  <2> QED
    BY <2>1, FiniteImage
<1>3. {f[c] : c \in Ckeys} = {{c} \X (1..t[c]) : c \in Ckeys}
  OBVIOUS
<1>4. \A T \in {{c} \X (1..t[c]) : c \in Ckeys} : IsFiniteSet(T)
  BY <1>1
<1>5. IsFiniteSet(ModEntries(t))
  BY <1>2, <1>3, <1>4, FS_UNION DEF ModEntries
<1> QED
  BY <1>5 DEF ModEntries

LEMMA ModsLoaded ==
    ASSUME NEW t \in [Ckeys -> Nat], IsFiniteSet(Ckeys), NEW m \in Mo!Loaded(t)
    PROVE  /\ m \in Seq(Ckeys)
           /\ ~Mo!Doubled(t) => \A c \in Ckeys :
                /\ t[c] \in {0, 1}
                /\ \A i, k \in DOMAIN m : m[i] = c /\ m[k] = c => i = k
                /\ (\E i \in DOMAIN m : m[i] = c) <=> t[c] = 1
<1> DEFINE E == ModEntries(t)
           n == Cardinality(E)
<1>1. /\ IsFiniteSet(E) /\ E \subseteq Ckeys \X Nat
      /\ \A c \in Ckeys, k \in Nat : <<c, k>> \in E <=> k \in 1..t[c]
  BY ModEntriesAre
<1>2. n \in Nat
  BY <1>1, FS_CardinalityType
<1>3. PICK s \in [1..n -> E] :
         /\ \A i, k \in 1..n : i # k => s[i] # s[k]
         /\ m = [i \in 1..n |-> s[i][1]]
  <2>1. Mo!Cardinality(E) = n
    BY FiniteSetsAgree
  <2>2. PICK s \in Mo!SetToSeqs(E) : m = [i \in DOMAIN s |-> s[i][1]]
    BY DEF Mo!Loaded, ModEntries
  <2> HIDE DEF E, n
  <2>3. s \in [1..n -> E] /\ \A i, k \in 1..n : i # k => s[i] # s[k]
    BY <2>1, <2>2 DEF Mo!SetToSeqs
  <2> QED
    BY <2>2, <2>3
<1> HIDE DEF E, n
<1>4. m \in Seq(Ckeys)
  <2>1. m \in [1..n -> Ckeys]
    BY <1>1, <1>3
  <2> QED
    BY <1>2, <2>1
<1>5. \A e \in E : \E i \in 1..n : s[i] = e
  <2>1. s \in Injection(1..n, E)
    BY <1>3 DEF Injection, IsInjective
  <2>2. Cardinality(1..n) = n
    BY <1>2, FS_Interval
  <2>3. s \in Surjection(1..n, E)
    BY <1>1, <2>1, <2>2, FS_Injection DEF n
  <2> QED
    BY <2>3 DEF Surjection
<1>6. ASSUME ~Mo!Doubled(t), NEW c \in Ckeys
      PROVE  /\ t[c] \in {0, 1}
             /\ \A i, k \in DOMAIN m : m[i] = c /\ m[k] = c => i = k
             /\ (\E i \in DOMAIN m : m[i] = c) <=> t[c] = 1
  <2>1. t[c] \in {0, 1}
    <3>1. t[c] \in Nat /\ ~(t[c] > 1)
      BY <1>6 DEF Mo!Doubled
    <3> QED
      BY <3>1
  <2>2. \A e \in E : e[1] = c => e = <<c, 1>> /\ t[c] = 1
    <3> SUFFICES ASSUME NEW e \in E, e[1] = c PROVE e = <<c, 1>> /\ t[c] = 1
      OBVIOUS
    <3>1. e = <<c, e[2]>> /\ e[2] \in Nat
      BY <1>1
    <3>2. e[2] \in 1..t[c]
      BY <1>1, <3>1
    <3> QED
      BY <2>1, <3>1, <3>2
  <2>3. \A i, k \in DOMAIN m : m[i] = c /\ m[k] = c => i = k
    BY <1>3, <2>2
  <2>4. (\E i \in DOMAIN m : m[i] = c) => t[c] = 1
    BY <1>3, <2>2
  <2>5. ASSUME t[c] = 1 PROVE \E i \in DOMAIN m : m[i] = c
    <3>1. <<c, 1>> \in E
      BY <1>1, <2>5
    <3>2. PICK i \in 1..n : s[i] = <<c, 1>>
      BY <1>5, <3>1
    <3> QED
      BY <1>3, <3>2
  <2> QED
    BY <2>1, <2>3, <2>4, <2>5
<1> QED
  BY <1>4, <1>6

LEMMA ModInit == Mo!ModeratorsAssumption /\ Mo!Init => ModInv
<1> SUFFICES ASSUME Mo!ModeratorsAssumption, Mo!Init PROVE ModInv
  OBVIOUS
<1>1. rows \in [Ckeys -> Nat] /\ IsFiniteSet(Ckeys) /\ moderators \in Mo!Loaded(rows)
  BY FiniteSetsAgree DEF Mo!Init, Mo!ModeratorsAssumption
<1>2. /\ moderators \in Seq(Ckeys)
      /\ ~Mo!Doubled(rows) => \A c \in Ckeys :
            rows[c] \in {0, 1} /\ HeldOnce(c) /\ (Held(c) <=> rows[c] = 1)
  BY <1>1, ModsLoaded DEF Held, HeldOnce, Mo!Places
<1>3. /\ torn = Mo!Doubled(rows) /\ clash = FALSE /\ errors = 0 /\ restarts = 0
      /\ at = [h \in Commands |-> "idle"] /\ job \in [Commands -> ModeratorJobs]
      /\ left = [h \in Commands |-> [slice |-> <<>>, index |-> 0]]
  BY DEF Mo!Init
<1>4. Mo!TypeOK
  <2>1. at \in [Commands -> Mo!Stages] /\ job \in [Commands -> Mo!Job]
    BY <1>3 DEF Mo!Stages, Mo!ModeratorsAssumption
  <2>2. <<>> \in Seq(Ckeys)
    OBVIOUS
  <2>3. left \in [Commands -> [slice : Seq(Ckeys), index : Nat]]
    BY <1>3, <2>2
  <2>4. torn \in BOOLEAN /\ clash \in BOOLEAN
    BY <1>3 DEF Mo!Doubled
  <2>5. errors \in Nat /\ restarts \in Nat
    BY <1>3
  <2> QED
    BY <1>1, <1>2, <2>1, <2>3, <2>4, <2>5 DEF Mo!TypeOK
<1>5. \A h \in Commands : at[h] = "idle"
  BY <1>3
<1>6. ModAlone /\ ModFound
  BY <1>5 DEF ModAlone, ModFound, Mo!Active, Mo!InMemory
<1>7. ModFollow
  BY <1>2, <1>3, <1>5 DEF ModFollow
<1> QED
  BY <1>4, <1>6, <1>7 DEF ModInv

-----------------------------------------------------------------------------
\* h goes on: clash tells of the first who is not alone.
LEMMA ModGoto ==
    ASSUME Mo!TypeOK, ModAlone, NEW h \in Commands, NEW next \in Mo!Stages, Mo!Goto(h, next), UNCHANGED job
    PROVE  /\ at' \in [Commands -> Mo!Stages] /\ at'[h] = next
           /\ \A g \in Commands : g # h => at'[g] = at[g]
           /\ clash' \in BOOLEAN /\ (clash => clash') /\ ModAlone'
<1>1. /\ at' = [at EXCEPT ![h] = next]
      /\ clash' = (clash \/ \E g \in Commands \ {h} :
            \/ job[g].ckey = job[h].ckey /\ Mo!Active(g) /\ Mo!Active(h)'
            \/ Mo!InMemory(g) /\ Mo!InMemory(h)')
  BY DEF Mo!Goto
<1>2. /\ at' \in [Commands -> Mo!Stages] /\ at'[h] = next
      /\ \A g \in Commands : g # h => at'[g] = at[g]
  BY <1>1 DEF Mo!TypeOK
<1>3. clash \in BOOLEAN /\ clash' \in BOOLEAN /\ (clash => clash')
  BY <1>1 DEF Mo!TypeOK
<1>4. \A g \in Commands : g # h =>
         /\ Mo!Active(g)' <=> Mo!Active(g)
         /\ Mo!InMemory(g)' <=> Mo!InMemory(g)
  BY <1>2 DEF Mo!Active, Mo!InMemory
<1>5. ASSUME ~clash', NEW g \in Commands, g # h
      PROVE  /\ Mo!Active(g)' /\ Mo!Active(h)' => job'[g].ckey # job'[h].ckey
             /\ ~(Mo!InMemory(g)' /\ Mo!InMemory(h)')
  BY <1>1, <1>4, <1>5
<1>6. ModAlone'
  <2> SUFFICES ASSUME ~clash', NEW g \in Commands, NEW k \in Commands, g # k
               PROVE  /\ Mo!Active(g)' /\ Mo!Active(k)' => job'[g].ckey # job'[k].ckey
                      /\ ~(Mo!InMemory(g)' /\ Mo!InMemory(k)')
    BY DEF ModAlone
  <2>1. CASE g # h /\ k # h
    BY <1>3, <1>4, <2>1 DEF ModAlone
  <2>2. CASE g = h
    BY <1>5, <2>2
  <2>3. CASE k = h
    BY <1>5, <2>3
  <2> QED
    BY <2>1, <2>2, <2>3
<1> QED
  BY <1>2, <1>3, <1>6

\* The types, when a step changes no more than these.
LEMMA ModTypes ==
    ASSUME Mo!TypeOK, ModAlone, NEW h \in Commands, NEW next \in Mo!Stages, Mo!Goto(h, next),
           rows' \in [Ckeys -> Nat], moderators' \in Seq(Ckeys),
           left' \in [Commands -> [slice : Seq(Ckeys), index : Nat]],
           torn' \in BOOLEAN, errors' \in Nat, UNCHANGED <<job, restarts>>
    PROVE  Mo!TypeOK'
<1>1. at' \in [Commands -> Mo!Stages] /\ clash' \in BOOLEAN
  BY ModGoto
<1> QED
  BY <1>1 DEF Mo!TypeOK

LEMMA LeastIsIn ==
    ASSUME NEW S \in SUBSET Nat, S # {} PROVE Mo!Min(S) \in S
<1>1. PICK x \in S : \A y \in S : ~(y < x)
  BY HasLeast
<1>2. \A y \in S : x =< y
  BY <1>1
<1> QED
  BY <1>2 DEF Mo!Min

\* What a search may find.
LEMMA ModSearchStep ==
    ASSUME ModInv, NEW h \in Commands, Mo!Promote(h) \/ Mo!Demote(h) PROVE ModInv'
<1> DEFINE P == Mo!Places(job[h].ckey)
<1>0. /\ job[h].ckey \in Ckeys /\ moderators \in Seq(Ckeys) /\ P \in SUBSET Nat
      /\ \A k \in Commands : job[k].ckey \in Ckeys
  BY DEF ModInv, Mo!TypeOK, Mo!Job, Mo!Places
<1>1. \E index \in Nat, next \in {"append", "cut", "ended"} :
         /\ at[h] = "idle" /\ left' = [left EXCEPT ![h] = [slice |-> moderators, index |-> index]]
         /\ UNCHANGED <<rows, moderators, job, torn, errors, restarts>>
         /\ Mo!Goto(h, next)
         /\ next = "append" => P = {}
         /\ next = "cut" => index \in P
  <2>1. CASE Mo!Promote(h)
    BY <2>1 DEF Mo!Promote, Mo!Search
  <2>2. CASE Mo!Demote(h)
    <3> HIDE DEF P
    <3>1. /\ at[h] = "idle" /\ UNCHANGED <<rows, moderators, job, torn, errors, restarts>>
          /\ left' = [left EXCEPT ![h] = [slice |-> moderators, index |-> IF P = {} THEN 0 ELSE Mo!Min(P)]]
          /\ Mo!Goto(h, IF P = {} THEN "ended" ELSE "cut")
      BY <2>2 DEF Mo!Demote, Mo!Search, P
    <3>2. CASE P = {}
      BY <3>1, <3>2
    <3>3. CASE P # {}
      <4>1. Mo!Min(P) \in P /\ Mo!Min(P) \in Nat
        BY <1>0, <3>3, LeastIsIn
      <4> QED
        BY <3>1, <3>3, <4>1
    <3> QED
      BY <3>2, <3>3
  <2> QED
    BY <2>1, <2>2
<1>2. PICK index \in Nat, next \in {"append", "cut", "ended"} :
         /\ at[h] = "idle" /\ left' = [left EXCEPT ![h] = [slice |-> moderators, index |-> index]]
         /\ UNCHANGED <<rows, moderators, job, torn, errors, restarts>>
         /\ Mo!Goto(h, next)
         /\ next = "append" => P = {}
         /\ next = "cut" => index \in P
  BY <1>1
<1>3. next \in Mo!Stages
  BY DEF Mo!Stages
<1>4. /\ at'[h] = next /\ \A g \in Commands : g # h => at'[g] = at[g]
      /\ (clash => clash') /\ ModAlone'
  BY <1>2, <1>3, ModGoto DEF ModInv
<1>5. /\ left' \in [Commands -> [slice : Seq(Ckeys), index : Nat]]
      /\ left'[h] = [slice |-> moderators, index |-> index]
      /\ \A g \in Commands : g # h => left'[g] = left[g]
  BY <1>0, <1>2 DEF ModInv, Mo!TypeOK
<1>6. \A c : Mo!Places(c)' = Mo!Places(c)
  BY <1>2 DEF Mo!Places
<1>7. ModFound'
  <2> SUFFICES ASSUME ~clash', NEW g \in Commands, Mo!InMemory(g)'
               PROVE  /\ left'[g].slice = moderators
                      /\ at'[g] = "append" => Mo!Places(job[g].ckey) = {}
                      /\ at'[g] = "cut" => left'[g].index \in Mo!Places(job[g].ckey)
    BY <1>2, <1>6 DEF ModFound, Held
  <2>1. CASE g = h
    BY <1>2, <1>4, <1>5, <2>1
  <2>2. CASE g # h
    <3>1. Mo!InMemory(g) /\ ~clash
      BY <1>4, <2>2 DEF Mo!InMemory
    <3> QED
      BY <1>4, <1>5, <2>2, <3>1 DEF ModInv, ModFound, Held
  <2> QED
    BY <2>1, <2>2
<1>8. ModFollow'
  <2>1. \A g \in Commands : at'[g] \in {"insert", "delete"} <=> at[g] \in {"insert", "delete"}
    BY <1>2, <1>4
  <2>2. \A g \in Commands : (at'[g] = "insert" => at[g] = "insert") /\ (at'[g] = "delete" => at[g] = "delete")
    BY <1>2, <1>4
  <2> SUFFICES ASSUME ~clash', ~torn', NEW c \in Ckeys
               PROVE  /\ rows'[c] \in {0, 1} /\ HeldOnce(c)'
                      /\ \A k \in Commands : job'[k].ckey = c =>
                            /\ at'[k] = "insert" => Held(c)' /\ rows'[c] = 0
                            /\ at'[k] = "delete" => ~Held(c)'
                      /\ (\A k \in Commands : job'[k].ckey = c => at'[k] \notin {"insert", "delete"}) =>
                            (Held(c)' <=> rows'[c] = 1)
    BY DEF ModFollow
  <2>3. ~clash /\ ~torn
    BY <1>2, <1>4
  <2>4. (Held(c)' <=> Held(c)) /\ (HeldOnce(c)' <=> HeldOnce(c))
    BY <1>6 DEF Held, HeldOnce
  <2> QED
    BY <1>2, <2>1, <2>2, <2>3, <2>4 DEF ModInv, ModFollow
<1>9. Mo!TypeOK'
  <2>1. rows' \in [Ckeys -> Nat] /\ moderators' \in Seq(Ckeys) /\ torn' \in BOOLEAN /\ errors' \in Nat
    BY <1>2 DEF ModInv, Mo!TypeOK
  <2> QED
    BY <1>2, <1>3, <1>5, <2>1, ModTypes DEF ModInv
<1> QED
  BY <1>4, <1>7, <1>8, <1>9 DEF ModInv

\* The slice, after it was searched, is written only by who searched it.
LEMMA ModFoundStep ==
    ASSUME ModInv, NEW h \in Commands, NEW next \in {"insert", "delete", "ended"}, Mo!Goto(h, next),
           UNCHANGED <<job, left>>, Mo!InMemory(h) \/ UNCHANGED moderators
    PROVE  ModFound'
<1>0. next \in Mo!Stages
  BY DEF Mo!Stages
<1>1. /\ at'[h] = next /\ \A g \in Commands : g # h => at'[g] = at[g]
      /\ (clash => clash')
  BY <1>0, ModGoto DEF ModInv
<1>2. ASSUME ~clash', NEW g \in Commands, Mo!InMemory(g)'
      PROVE  ~clash /\ g # h /\ Mo!InMemory(g) /\ UNCHANGED moderators
  <2>1. ~clash /\ g # h /\ Mo!InMemory(g)
    BY <1>1, <1>2 DEF Mo!InMemory
  <2> QED
    BY <2>1 DEF ModInv, ModAlone
<1>3. CASE ~clash' /\ \E g \in Commands : Mo!InMemory(g)'
  <2>1. ~clash /\ \A c : Mo!Places(c)' = Mo!Places(c)
    BY <1>2, <1>3 DEF Mo!Places
  <2> SUFFICES ASSUME NEW g \in Commands, Mo!InMemory(g)'
               PROVE  /\ left'[g].slice = moderators
                      /\ at'[g] = "append" => Mo!Places(job[g].ckey) = {}
                      /\ at'[g] = "cut" => left'[g].index \in Mo!Places(job[g].ckey)
    BY <1>2, <1>3, <2>1 DEF ModFound, Held
  <2>2. g # h /\ Mo!InMemory(g)
    BY <1>2, <1>3
  <2> QED
    BY <1>1, <2>1, <2>2 DEF ModInv, ModFound, Held
<1> QED
  BY <1>3 DEF ModFound

\* A step of h, on its ckey.
LEMMA ModFollowStep ==
    ASSUME ModInv, NEW h \in Commands, NEW next \in {"insert", "delete", "ended"}, Mo!Goto(h, next),
           Mo!Active(h), UNCHANGED <<job, torn>>, NEW ckey, ckey = job[h].ckey,
           ~clash' => \A c \in Ckeys : c # ckey =>
              rows'[c] = rows[c] /\ (Held(c)' <=> Held(c)) /\ (HeldOnce(c) => HeldOnce(c)'),
           ~clash' /\ ~torn => /\ rows'[ckey] \in {0, 1} /\ HeldOnce(ckey)'
                               /\ next = "insert" => Held(ckey)' /\ rows'[ckey] = 0
                               /\ next = "delete" => ~Held(ckey)'
                               /\ next = "ended" => (Held(ckey)' <=> rows'[ckey] = 1)
    PROVE  ModFollow'
<1>0. next \in Mo!Stages
  BY DEF Mo!Stages
<1>1. /\ at'[h] = next /\ \A g \in Commands : g # h => at'[g] = at[g]
      /\ (clash => clash')
  BY <1>0, ModGoto DEF ModInv
<1> SUFFICES ASSUME ~clash', ~torn', NEW c \in Ckeys
             PROVE  /\ rows'[c] \in {0, 1} /\ HeldOnce(c)'
                    /\ \A k \in Commands : job'[k].ckey = c =>
                          /\ at'[k] = "insert" => Held(c)' /\ rows'[c] = 0
                          /\ at'[k] = "delete" => ~Held(c)'
                    /\ (\A k \in Commands : job'[k].ckey = c => at'[k] \notin {"insert", "delete"}) =>
                          (Held(c)' <=> rows'[c] = 1)
  BY DEF ModFollow
<1>2. ~clash /\ ~torn
  BY <1>1
<1>3. CASE c # ckey
  <2>1. \A k \in Commands : job[k].ckey = c => at'[k] = at[k]
    BY <1>1, <1>3
  <2> QED
    BY <1>2, <1>3, <2>1 DEF ModInv, ModFollow
<1>4. CASE c = ckey
  <2>1. \A k \in Commands : k # h /\ job[k].ckey = c => at'[k] \in {"idle", "ended"}
    BY <1>1, <1>2, <1>4 DEF ModInv, ModAlone, Mo!Active
  <2> QED
    BY <1>1, <1>2, <1>4, <2>1
<1> QED
  BY <1>3, <1>4

\* A slice without its i-th element.
LEMMA Removed ==
    ASSUME NEW S, NEW s \in Seq(S), NEW i \in 1..Len(s), NEW t, t = Mo!RemoveAt(s, i)
    PROVE  /\ t \in Seq(S) /\ Len(t) = Len(s) - 1
           /\ \A k \in 1..Len(t) : t[k] = s[IF k < i THEN k ELSE k + 1]
<1> DEFINE a == SubSeq(s, 1, i - 1)
           b == SubSeq(s, i + 1, Len(s))
<1>1. a \in Seq(S) /\ Len(a) = i - 1 /\ \A k \in 1..Len(a) : a[k] = s[k]
  OBVIOUS
<1>2. b \in Seq(S) /\ Len(b) = Len(s) - i /\ \A k \in 1..Len(b) : b[k] = s[i + k]
  OBVIOUS
<1>3. t = a \o b
  BY DEF Mo!RemoveAt
<1> HIDE DEF a, b
<1>4. t \in Seq(S) /\ Len(t) = Len(a) + Len(b)
      /\ \A k \in 1..Len(t) : t[k] = IF k <= Len(a) THEN a[k] ELSE b[k - Len(a)]
  <2>1. t \in Seq(S)
    BY <1>1, <1>2, <1>3
  <2>0. a \in Seq(S) /\ b \in Seq(S)
    BY <1>1, <1>2
  <2>2. Len(a \o b) = Len(a) + Len(b)
    BY <2>0
  <2>3. \A k \in 1..(Len(a) + Len(b)) : (a \o b)[k] = IF k <= Len(a) THEN a[k] ELSE b[k - Len(a)]
    BY <1>1, <1>2
  <2> QED
    BY <1>3, <2>1, <2>2, <2>3
<1>5. Len(t) = Len(s) - 1
  BY <1>1, <1>2, <1>4
<1>6. ASSUME NEW k \in 1..Len(t) PROVE t[k] = s[IF k < i THEN k ELSE k + 1]
  <2>1. CASE k < i
    BY <1>1, <1>4, <2>1
  <2>2. CASE ~(k < i)
    <3>1. k - Len(a) \in 1..Len(b) /\ i + (k - Len(a)) = k + 1
      BY <1>1, <1>2, <1>5, <2>2
    <3>2. t[k] = b[k - Len(a)]
      BY <1>1, <1>4, <2>2
    <3> QED
      BY <1>2, <2>2, <3>1, <3>2
  <2> QED
    BY <2>1, <2>2
<1> QED
  BY <1>4, <1>5, <1>6

\* Whoever is alone writes the slice he has searched.
LEMMA ModSlices ==
    ASSUME ModInv, NEW h \in Commands, Mo!InMemory(h), NEW s \in Mo!Slices(h)
    PROVE  s \in Seq(Ckeys) /\ (~clash => s = moderators)
  BY DEF ModInv, Mo!TypeOK, ModFound, ModAlone, Mo!Slices

LEMMA ModAppendStep ==
    ASSUME ModInv, NEW h \in Commands, Mo!AppendModerator(h) PROVE ModInv'
<1>0. PICK ckey \in Ckeys : ckey = job[h].ckey
  BY DEF ModInv, Mo!TypeOK, Mo!Job
<1>1. PICK s \in Mo!Slices(h) :
         /\ at[h] = "append" /\ moderators' = Append(s, ckey)
         /\ UNCHANGED <<rows, job, left, torn, errors, restarts>> /\ Mo!Goto(h, "insert")
  BY <1>0 DEF Mo!AppendModerator
<1>2. Mo!InMemory(h) /\ Mo!Active(h) /\ "insert" \in Mo!Stages
  BY <1>1 DEF Mo!InMemory, Mo!Active, Mo!Stages
<1>3. s \in Seq(Ckeys) /\ (~clash => s = moderators)
  BY <1>2, ModSlices
<1>4. (clash => clash') /\ ModAlone'
  BY <1>1, <1>2, ModGoto DEF ModInv
<1>5. ModFound'
  BY <1>1, <1>2, ModFoundStep
<1>6. ASSUME ~clash'
      PROVE  /\ \A c \in Ckeys : c # ckey => Mo!Places(c)' = Mo!Places(c)
             /\ Mo!Places(ckey) = {} /\ Mo!Places(ckey)' = {Len(moderators) + 1}
  <2>1. Mo!Places(ckey) = {}
    BY <1>0, <1>1, <1>2, <1>4, <1>6 DEF ModInv, ModFound, Held
  <2>2. /\ moderators \in Seq(Ckeys) /\ moderators' \in Seq(Ckeys)
        /\ Len(moderators') = Len(moderators) + 1
        /\ \A i \in 1..Len(moderators) : moderators'[i] = moderators[i]
        /\ moderators'[Len(moderators) + 1] = ckey
    BY <1>1, <1>3, <1>4, <1>6
  <2> QED
    BY <2>1, <2>2 DEF Mo!Places
<1>7. ModFollow'
  <2>1. ASSUME ~clash', ~torn PROVE rows[ckey] = 0
    <3>1. \A k \in Commands : job[k].ckey = ckey => at[k] \notin {"insert", "delete"}
      BY <1>0, <1>1, <1>2, <1>4, <2>1 DEF ModInv, ModAlone, Mo!Active
    <3>2. ~Held(ckey)
      BY <1>6, <2>1 DEF Held
    <3> QED
      BY <1>4, <2>1, <3>1, <3>2 DEF ModInv, ModFollow
  <2>2. ~clash' => \A c \in Ckeys : c # ckey =>
           rows'[c] = rows[c] /\ (Held(c)' <=> Held(c)) /\ (HeldOnce(c) => HeldOnce(c)')
    BY <1>1, <1>6 DEF Held, HeldOnce
  <2>3. ~clash' /\ ~torn => rows'[ckey] = 0 /\ HeldOnce(ckey)' /\ Held(ckey)'
    BY <1>1, <1>6, <2>1 DEF Held, HeldOnce
  <2> QED
    BY <1>0, <1>1, <1>2, <2>2, <2>3, ModFollowStep
<1>8. Mo!TypeOK'
  <2>1. moderators' \in Seq(Ckeys)
    BY <1>1, <1>3
  <2>2. /\ rows' \in [Ckeys -> Nat] /\ torn' \in BOOLEAN /\ errors' \in Nat
        /\ left' \in [Commands -> [slice : Seq(Ckeys), index : Nat]]
    BY <1>1 DEF ModInv, Mo!TypeOK
  <2> QED
    BY <1>1, <1>2, <2>1, <2>2, ModTypes DEF ModInv
<1> QED
  BY <1>4, <1>5, <1>7, <1>8 DEF ModInv

LEMMA ModCutStep ==
    ASSUME ModInv, NEW h \in Commands, Mo!CutModerator(h) PROVE ModInv'
<1>0. PICK ckey \in Ckeys : ckey = job[h].ckey
  BY DEF ModInv, Mo!TypeOK, Mo!Job
<1> DEFINE i == left[h].index
<1>1. PICK s \in Mo!Slices(h), next \in {"delete", "ended"} :
         /\ at[h] = "cut" /\ UNCHANGED <<rows, job, left, torn, errors, restarts>> /\ Mo!Goto(h, next)
         /\ next = "delete" => i \in DOMAIN s /\ moderators' = Mo!RemoveAt(s, i)
         /\ next = "ended" => i \notin DOMAIN s /\ UNCHANGED moderators
  BY DEF Mo!CutModerator
<1>2. Mo!InMemory(h) /\ Mo!Active(h) /\ next \in Mo!Stages /\ i \in Nat
  BY <1>1 DEF Mo!InMemory, Mo!Active, Mo!Stages, ModInv, Mo!TypeOK
<1>3. s \in Seq(Ckeys) /\ (~clash => s = moderators)
  BY <1>2, ModSlices
<1> HIDE DEF i
<1>4. (clash => clash') /\ ModAlone'
  BY <1>1, <1>2, ModGoto DEF ModInv
<1>5. ModFound'
  BY <1>1, <1>2, ModFoundStep
<1>6. next = "delete" =>
         /\ i \in 1..Len(s) /\ moderators' \in Seq(Ckeys) /\ Len(moderators') = Len(s) - 1
         /\ \A k \in 1..Len(moderators') : moderators'[k] = s[IF k < i THEN k ELSE k + 1]
  <2> SUFFICES ASSUME next = "delete"
               PROVE  /\ i \in 1..Len(s) /\ moderators' \in Seq(Ckeys) /\ Len(moderators') = Len(s) - 1
                      /\ \A k \in 1..Len(moderators') : moderators'[k] = s[IF k < i THEN k ELSE k + 1]
    OBVIOUS
  <2>1. i \in 1..Len(s)
    BY <1>1, <1>3
  <2> QED
    BY <1>1, <1>3, <2>1, Removed
<1>7. ASSUME ~clash'
      PROVE  /\ next = "delete" /\ i \in Mo!Places(ckey)
             /\ \A c \in Ckeys : c # ckey => (Held(c)' <=> Held(c)) /\ (HeldOnce(c) => HeldOnce(c)')
             /\ HeldOnce(ckey) => Mo!Places(ckey)' = {}
  <2>1. i \in Mo!Places(ckey) /\ s = moderators
    BY <1>0, <1>1, <1>2, <1>3, <1>4, <1>7 DEF ModInv, ModFound, i
  <2>2. next = "delete"
    BY <1>1, <2>1 DEF Mo!Places
  <2>3. /\ moderators \in Seq(Ckeys) /\ i \in 1..Len(moderators) /\ moderators[i] = ckey
        /\ moderators' \in Seq(Ckeys) /\ Len(moderators') = Len(moderators) - 1
        /\ \A k \in 1..Len(moderators') : moderators'[k] = moderators[IF k < i THEN k ELSE k + 1]
    BY <1>3, <1>6, <2>1, <2>2 DEF Mo!Places
  <2>4. \A c : /\ Mo!Places(c) = {k \in 1..Len(moderators) : moderators[k] = c}
               /\ Mo!Places(c)' = {k \in 1..Len(moderators') : moderators'[k] = c}
    BY <2>3 DEF Mo!Places
  <2>5. ASSUME NEW c, NEW k \in Mo!Places(c)'
        PROVE  (IF k < i THEN k ELSE k + 1) \in Mo!Places(c) \ {i}
    <3>1. k \in 1..Len(moderators') /\ moderators[IF k < i THEN k ELSE k + 1] = c
      BY <2>3, <2>4
    <3>2. (IF k < i THEN k ELSE k + 1) \in 1..Len(moderators) \ {i}
      BY <2>3, <3>1
    <3> QED
      BY <2>4, <3>1, <3>2
  <2>6. ASSUME NEW c, NEW k \in Mo!Places(c) \ {i}
        PROVE  Mo!Places(c)' # {}
    <3> DEFINE l == IF k < i THEN k ELSE k - 1
    <3>1. k \in 1..Len(moderators) /\ moderators[k] = c /\ k # i
      BY <2>4
    <3>2. l \in 1..Len(moderators') /\ (IF l < i THEN l ELSE l + 1) = k
      BY <2>3, <3>1
    <3> HIDE DEF l
    <3>3. l \in Mo!Places(c)'
      BY <2>3, <2>4, <3>1, <3>2
    <3> QED
      BY <3>3
  <2>7. ASSUME NEW c \in Ckeys, c # ckey
        PROVE  (Held(c)' <=> Held(c)) /\ (HeldOnce(c) => HeldOnce(c)')
    <3>1. i \notin Mo!Places(c)
      BY <2>3, <2>4, <2>7
    <3>2. Held(c)' <=> Held(c)
      BY <2>5, <2>6, <3>1 DEF Held
    <3>3. ASSUME HeldOnce(c), NEW k \in Mo!Places(c)', NEW l \in Mo!Places(c)' PROVE k = l
      <4>1. (IF k < i THEN k ELSE k + 1) = (IF l < i THEN l ELSE l + 1)
        BY <2>5, <3>3 DEF HeldOnce
      <4>2. k \in Int /\ l \in Int /\ i \in Int
        BY <2>3, <2>4
      <4> QED
        BY <4>1, <4>2
    <3> QED
      BY <3>2, <3>3 DEF HeldOnce
  <2>8. ASSUME HeldOnce(ckey) PROVE Mo!Places(ckey)' = {}
    BY <2>1, <2>5, <2>8 DEF HeldOnce
  <2> QED
    BY <2>1, <2>2, <2>7, <2>8
<1>8. ModFollow'
  <2>1. ASSUME ~clash', ~torn
        PROVE  rows[ckey] \in {0, 1} /\ HeldOnce(ckey)
    BY <1>4, <2>1 DEF ModInv, ModFollow
  <2>2. ~clash' => \A c \in Ckeys : c # ckey =>
           rows'[c] = rows[c] /\ (Held(c)' <=> Held(c)) /\ (HeldOnce(c) => HeldOnce(c)')
    BY <1>1, <1>7
  <2>3. ~clash' /\ ~torn => rows'[ckey] \in {0, 1} /\ HeldOnce(ckey)' /\ ~Held(ckey)' /\ next = "delete"
    BY <1>1, <1>7, <2>1 DEF Held, HeldOnce
  <2> QED
    BY <1>0, <1>1, <1>2, <2>2, <2>3, ModFollowStep
<1>9. Mo!TypeOK'
  <2>1. moderators' \in Seq(Ckeys)
    BY <1>1, <1>6 DEF ModInv, Mo!TypeOK
  <2>2. /\ rows' \in [Ckeys -> Nat] /\ torn' \in BOOLEAN /\ errors' \in Nat
        /\ left' \in [Commands -> [slice : Seq(Ckeys), index : Nat]]
    BY <1>1 DEF ModInv, Mo!TypeOK
  <2> QED
    BY <1>1, <1>2, <2>1, <2>2, ModTypes DEF ModInv
<1> QED
  BY <1>4, <1>5, <1>8, <1>9 DEF ModInv

LEMMA ModRowsStep ==
    ASSUME ModInv, NEW h \in Commands, Mo!InsertModerator(h) \/ Mo!DeleteModerator(h) PROVE ModInv'
<1>0. PICK ckey \in Ckeys : ckey = job[h].ckey
  BY DEF ModInv, Mo!TypeOK, Mo!Job
<1>1. PICK n \in {0, rows[ckey] + 1} :
         /\ rows' = [rows EXCEPT ![ckey] = n] /\ at[h] \in {"insert", "delete"}
         /\ UNCHANGED <<moderators, job, left, torn, errors, restarts>> /\ Mo!Goto(h, "ended")
         /\ at[h] = "insert" => n = rows[ckey] + 1
         /\ at[h] = "delete" => n = 0
  BY <1>0 DEF Mo!InsertModerator, Mo!DeleteModerator, Mo!WriteRows
<1>2. Mo!Active(h) /\ "ended" \in Mo!Stages /\ rows \in [Ckeys -> Nat] /\ n \in Nat
  BY <1>1 DEF Mo!Active, Mo!Stages, ModInv, Mo!TypeOK
<1>3. (clash => clash') /\ ModAlone'
  BY <1>1, <1>2, ModGoto DEF ModInv
<1>4. ModFound'
  BY <1>1, ModFoundStep
<1>5. \A c : (Held(c)' <=> Held(c)) /\ (HeldOnce(c)' <=> HeldOnce(c))
  BY <1>1 DEF Held, HeldOnce, Mo!Places
<1>6. rows' \in [Ckeys -> Nat] /\ rows'[ckey] = n /\ \A c \in Ckeys : c # ckey => rows'[c] = rows[c]
  BY <1>1, <1>2
<1>7. ASSUME ~clash', ~torn
      PROVE  n \in {0, 1} /\ HeldOnce(ckey) /\ (Held(ckey) <=> n = 1)
  <2>1. /\ HeldOnce(ckey) /\ at[h] = "insert" => Held(ckey) /\ rows[ckey] = 0
        /\ at[h] = "delete" => ~Held(ckey)
    BY <1>0, <1>3, <1>7 DEF ModInv, ModFollow
  <2>2. HeldOnce(ckey)
    BY <1>3, <1>7 DEF ModInv, ModFollow
  <2> QED
    BY <1>1, <2>1, <2>2
<1>8. ModFollow'
  <2>1. ~clash' => \A c \in Ckeys : c # ckey =>
           rows'[c] = rows[c] /\ (Held(c)' <=> Held(c)) /\ (HeldOnce(c) => HeldOnce(c)')
    BY <1>5, <1>6
  <2>2. ~clash' /\ ~torn => /\ rows'[ckey] \in {0, 1} /\ HeldOnce(ckey)'
                            /\ Held(ckey)' <=> rows'[ckey] = 1
    BY <1>5, <1>6, <1>7
  <2> QED
    BY <1>0, <1>1, <1>2, <2>1, <2>2, ModFollowStep
<1>9. Mo!TypeOK'
  <2>1. /\ moderators' \in Seq(Ckeys) /\ torn' \in BOOLEAN /\ errors' \in Nat
        /\ left' \in [Commands -> [slice : Seq(Ckeys), index : Nat]]
    BY <1>1 DEF ModInv, Mo!TypeOK
  <2> QED
    BY <1>1, <1>2, <1>6, <2>1, ModTypes DEF ModInv
<1> QED
  BY <1>3, <1>4, <1>8, <1>9 DEF ModInv

LEMMA ModFailStep ==
    ASSUME ModInv, NEW h \in Commands, Mo!StatementFails(h) PROVE ModInv'
<1>1. /\ errors' = errors + 1 /\ torn' = TRUE /\ Mo!Goto(h, "ended") /\ "ended" \in Mo!Stages
      /\ UNCHANGED <<rows, moderators, job, left, restarts>>
  BY DEF Mo!StatementFails, Mo!Stages
<1>2. ModAlone'
  BY <1>1, ModGoto DEF ModInv
<1>3. ModFound'
  BY <1>1, ModFoundStep
<1>4. ModFollow'
  BY <1>1 DEF ModFollow
<1>5. Mo!TypeOK'
  <2>1. /\ rows' \in [Ckeys -> Nat] /\ moderators' \in Seq(Ckeys) /\ errors' \in Nat
        /\ left' \in [Commands -> [slice : Seq(Ckeys), index : Nat]]
    BY <1>1 DEF ModInv, Mo!TypeOK
  <2>2. torn' \in BOOLEAN
    BY <1>1
  <2> QED
    BY <1>1, <2>1, <2>2, ModTypes DEF ModInv
<1> QED
  BY <1>2, <1>3, <1>4, <1>5 DEF ModInv

LEMMA ModRestartStep == ASSUME Mo!ModeratorsAssumption, ModInv, Mo!Restart PROVE ModInv'
<1>1. /\ moderators' \in Mo!Loaded(rows) /\ torn' = Mo!Doubled(rows) /\ restarts' = restarts + 1
      /\ at' = [h \in Commands |-> IF Mo!Active(h) THEN "ended" ELSE at[h]]
      /\ UNCHANGED <<rows, job, left, clash, errors>>
  BY DEF Mo!Restart
<1>2. rows \in [Ckeys -> Nat] /\ IsFiniteSet(Ckeys)
  BY FiniteSetsAgree DEF ModInv, Mo!TypeOK, Mo!ModeratorsAssumption
<1>3. /\ moderators' \in Seq(Ckeys)
      /\ ~Mo!Doubled(rows) => \A c \in Ckeys :
            rows[c] \in {0, 1} /\ HeldOnce(c)' /\ (Held(c)' <=> rows[c] = 1)
  BY <1>1, <1>2, ModsLoaded DEF Held, HeldOnce, Mo!Places
<1>4. \A h \in Commands : at'[h] \in {"idle", "ended"}
  BY <1>1 DEF Mo!Active
<1>5. ModAlone' /\ ModFound'
  BY <1>4 DEF ModAlone, ModFound, Mo!Active, Mo!InMemory
<1>6. ModFollow'
  BY <1>1, <1>3, <1>4 DEF ModFollow
<1>7. Mo!TypeOK'
  <2>1. at' \in [Commands -> Mo!Stages]
    BY <1>1 DEF ModInv, Mo!TypeOK, Mo!Stages
  <2>2. torn' \in BOOLEAN
    BY <1>1 DEF Mo!Doubled
  <2>3. restarts' \in Nat
    BY <1>1 DEF ModInv, Mo!TypeOK
  <2>4. /\ rows' \in [Ckeys -> Nat] /\ job' \in [Commands -> Mo!Job] /\ errors' \in Nat
        /\ left' \in [Commands -> [slice : Seq(Ckeys), index : Nat]] /\ clash' \in BOOLEAN
    BY <1>1 DEF ModInv, Mo!TypeOK
  <2> QED
    BY <1>3, <2>1, <2>2, <2>3, <2>4 DEF Mo!TypeOK
<1> QED
  BY <1>5, <1>6, <1>7 DEF ModInv

LEMMA ModNext == Mo!ModeratorsAssumption /\ ModInv /\ [Mo!Next]_(Mo!vars) => ModInv'
<1> SUFFICES ASSUME Mo!ModeratorsAssumption, ModInv, [Mo!Next]_(Mo!vars) PROVE ModInv'
  OBVIOUS
<1>1. ASSUME NEW h \in Commands,
             \/ Mo!Promote(h) \/ Mo!AppendModerator(h) \/ Mo!InsertModerator(h)
             \/ Mo!Demote(h) \/ Mo!CutModerator(h) \/ Mo!DeleteModerator(h) \/ Mo!StatementFails(h)
      PROVE  ModInv'
  BY <1>1, ModSearchStep, ModAppendStep, ModCutStep, ModRowsStep, ModFailStep
<1>2. CASE Mo!Restart
  BY <1>2, ModRestartStep
<1>3. CASE UNCHANGED Mo!vars
  <2>1. Mo!TypeOK'
    BY <1>3 DEF ModInv, Mo!TypeOK, Mo!vars
  <2>2. ModAlone' /\ ModFound'
    BY <1>3 DEF ModInv, ModAlone, ModFound, Held, Mo!Places, Mo!Active, Mo!InMemory, Mo!vars
  <2>3. ModFollow'
    BY <1>3 DEF ModInv, ModFollow, Held, HeldOnce, Mo!Places, Mo!vars
  <2> QED
    BY <2>1, <2>2, <2>3 DEF ModInv
<1> QED
  BY <1>1, <1>2, <1>3 DEF Mo!Next

LEMMA ModsMatch == ModInv => Mo!ModeratorsOutliveTheBot
<1> SUFFICES ASSUME ModInv, Mo!Quiet, ~clash, ~torn, NEW c \in Ckeys
             PROVE  Mo!Cardinality(Mo!Places(c)) = rows[c]
  BY DEF Mo!ModeratorsOutliveTheBot
<1>1. \A h \in Commands : at[h] \notin {"insert", "delete"}
  BY DEF Mo!Quiet, Mo!Active
<1>2. rows[c] \in {0, 1} /\ HeldOnce(c) /\ (Held(c) <=> rows[c] = 1)
  BY <1>1 DEF ModInv, ModFollow
<1>3. CASE rows[c] = 0
  <2>1. Mo!Places(c) = {}
    BY <1>2, <1>3 DEF Held
  <2> QED
    BY <1>3, <2>1, FS_EmptySet, FiniteSetsAgree
<1>4. CASE rows[c] = 1
  <2>1. PICK i \in Mo!Places(c) : TRUE
    BY <1>2, <1>4 DEF Held
  <2>2. Mo!Places(c) = {i}
    BY <1>2, <2>1 DEF HeldOnce
  <2> QED
    BY <1>4, <2>2, FS_Singleton, FiniteSetsAgree
<1> QED
  BY <1>2, <1>3, <1>4

-----------------------------------------------------------------------------
(***************************************************************************)
(* The union: the component at work keeps its own invariant.               *)
(***************************************************************************)

UnionInv ==
    /\ part \in Parts
    /\ part = "bans" => Base
    /\ part = "channels" => ChannelInv /\ ListInv
    /\ part = "configs" => ConfigInv
    /\ part = "donators" => DonatorInv
    /\ part = "moderators" => ModInv
    /\ part = "embeds" => EmbedInv
    /\ part = "long messages" => AnswerInv
    /\ part = "byond wire" => Bw!TypeOK /\ WireInv
    /\ part = "dispatch" => Di!TypeOK /\ BannedHaveCkeys /\ DispatchInv

LEMMA UnionInvHolds == UnionSpec => []UnionInv
<1> USE ComponentsAssumption DEF ComponentsAssumption
<1>1. UnionInit => UnionInv
  <2> SUFFICES ASSUME UnionInit PROVE UnionInv
    OBVIOUS
  <2>1. part \in Parts
    BY DEF UnionInit
  <2>2. /\ part = "bans" => Base
        /\ part = "channels" => ChannelInv /\ ListInv
        /\ part = "configs" => ConfigInv
        /\ part = "donators" => DonatorInv
    BY AtStart, BaseStarts, BansAssumption, PermissionsAssumption, ChannelsInit, ListsInit, ConfigInit, DonatorInit
  <2>3. /\ part = "moderators" => ModInv
        /\ part = "embeds" => EmbedInv
        /\ part = "long messages" => AnswerInv
        /\ part = "byond wire" => Bw!TypeOK /\ WireInv
        /\ part = "dispatch" => Di!TypeOK /\ BannedHaveCkeys /\ DispatchInv
    BY AtStart, ModInit, EmbedInit, AnswerInit, WireInit, WireTypesInit, DispatchInit, DispatchTypesInit
  <2> QED
    BY <2>1, <2>2, <2>3 DEF UnionInv
<1>2. UnionInv /\ [UnionNext]_union_vars => UnionInv'
  <2> SUFFICES ASSUME UnionInv, [UnionNext]_union_vars PROVE UnionInv'
    OBVIOUS
  <2>1. UNCHANGED part
    BY AtWork
  <2>2. part = "bans" => Base'
    BY AtWork, BaseKept, BansAssumption, PermissionsAssumption DEF UnionInv
  <2>3. part = "channels" => ChannelInv' /\ ListInv'
    BY AtWork, ChannelsNext, ListsNext DEF UnionInv
  <2>4. (part = "configs" => ConfigInv') /\ (part = "donators" => DonatorInv')
    BY AtWork, ConfigNext, DonatorNext DEF UnionInv
  <2>5. (part = "moderators" => ModInv') /\ (part = "embeds" => EmbedInv')
    BY AtWork, ModNext, EmbedNext DEF UnionInv
  <2>6. (part = "long messages" => AnswerInv') /\ (part = "byond wire" => Bw!TypeOK' /\ WireInv')
    BY AtWork, AnswerNext, WireNext, WireTypesNext DEF UnionInv
  <2>7. part = "dispatch" => Di!TypeOK' /\ BannedHaveCkeys' /\ DispatchInv'
    BY AtWork, DispatchNext, DispatchTypesNext DEF UnionInv
  <2> QED
    BY <2>1, <2>2, <2>3, <2>4, <2>5, <2>6, <2>7 DEF UnionInv
<1> QED
  BY <1>1, <1>2, PTL DEF UnionSpec

\* For every instance of each component: its tables, maps, goroutines and ghosts
\* keep their types and bounds (the state of discord_main.go, db_part.go,
\* station_part.go and byond_part.go).
THEOREM TypesAreKept == UnionSpec => []TypesOK
<1>1. UnionInv => TypesOK
  <2>1. Base => TypeOK
    BY DEF Base
  <2>2. (ConfigInv => Co!TypeOK) /\ (DonatorInv => Do!TypeOK)
    BY DEF ConfigInv, DonatorInv
  <2>3. (ModInv => Mo!TypeOK) /\ (EmbedInv => Se!TypeOK)
    BY DEF ModInv, EmbedInv
  <2>4. AnswerInv => Lm!TypeOK
    BY DEF AnswerInv, Chunk, Lm!TypeOK
  <2> QED
    BY <2>1, <2>2, <2>3, <2>4, ChannelTypesOK DEF UnionInv, TypesOK
<1> QED
  BY <1>1, UnionInvHolds, PTL

\* For any channels, entries, ckeys and servers, start tables, commands that
\* overlap, failures and restarts: the lists of channels, the configuration, the
\* moderators and the status embeds in memory are what the next start would load,
\* under the conditions each module states (discord_main.go:684-761, 1138-1230,
\* 1328-1384, byond_part.go:364-447).
THEOREM CopiesAlwaysFollowTables == UnionSpec => []CopiesFollowTables
<1>1. UnionInv => CopiesFollowTables
  BY ListsCount, MemoryIsTable, ModsMatch, EmbedsMatch DEF UnionInv, CopiesFollowTables
<1> QED
  BY <1>1, UnionInvHolds, PTL

\* For any feeds, channels, guilds, commands and failures: however commands and
\* rebuilds overlap, a channel that a row binds is known when all have ended,
\* unless the last rebuild failed (discord_main.go:684-761).
THEOREM BoundChannelsAreAlwaysKnown == UnionSpec => []BoundChannelsAreKnown
<1>1. UnionInv => BoundChannelsAreKnown
  <2> SUFFICES ASSUME ChannelInv, Ch!Quiet, ~torn, NEW r \in table
               PROVE  r.chan \in DOMAIN bound
    BY DEF UnionInv, BoundChannelsAreKnown, Ch!BoundChannelsAreKnown
  <2>1. \A h \in Commands : ~WillKnow(h, r.chan)
    BY DEF Ch!Quiet, Ch!Active, WillKnow
  <2> QED
    BY <2>1 DEF ChannelInv, BoundAreKnown
<1> QED
  BY <1>1, UnionInvHolds, PTL

\* For any lengths of requests and responses that the game can send: an answer
\* that is looked at is the whole data of the response (byond_part.go:64-118).
THEOREM AnswersAreWhole == UnionSpec => []AnswerIsWhole
<1>1. UnionInv => AnswerIsWhole
  <2> SUFFICES ASSUME WireInv, stage = "answered", Bw!TypeRead # "NULL"
               PROVE  data = <<Bw!Header + 1, Bw!Header - 1 + length>>
    BY DEF UnionInv, AnswerIsWhole, Bw!AnswerIsWhole
  <2>1. got = Bw!Header
    BY DEF Bw!TypeRead
  <2>2. length \in Responses /\ size = (Bw!LengthRead(got) - 1) % Bw!Word
    BY DEF WireInv
  <2>3. Bw!ByondWireAssumption
    BY ComponentsAssumption DEF ComponentsAssumption
  <2>4. size = length - 1 /\ length \in Int
    BY <2>1, <2>2, <2>3, LengthIsRead DEF Bw!ByondWireAssumption
  <2>5. got + size = Bw!Header - 1 + length
    BY <2>1, <2>4 DEF Bw!Header
  <2> QED
    BY <2>1, <2>5 DEF WireInv
<1> QED
  BY <1>1, UnionInvHolds, PTL

\* For any texts, wherever their newlines are: no chunk is too long or empty,
\* each goes on where the last one ended, and what is cut off the end follows a
\* newline (discord_main.go:501-528).
THEOREM AnswersAlwaysArrive == UnionSpec => []AnswerArrives
<1>1. UnionInv => AnswerArrives
  BY DEF UnionInv, AnswerInv, AnswerArrives
<1> QED
  BY <1>1, UnionInvHolds, PTL

\* For any entries and nicknames, commands, renamings by others and handlers in
\* any order: when all is quiet the bot has the nickname of its configuration
\* (discord_main.go:1394-1410).
THEOREM NickIsAlwaysRestored == UnionSpec => []NickIsRestored
<1>1. UnionInv => NickIsRestored
  BY NickIsKept DEF UnionInv, NickIsRestored
<1> QED
  BY <1>1, UnionInvHolds, PTL

\* For any donators, durations and discounts that do not exceed the cooldown:
\* nobody is offered to the game before the cooldown of the spawns recorded for
\* him is over (station_part.go:27-62).
THEOREM CooldownAlwaysHolds == UnionSpec => []CooldownHolds
<1>1. UnionInv => CooldownHolds
  BY CooldownFollows DEF UnionInv, CooldownHolds
<1> QED
  BY <1>1, UnionInvHolds, PTL

\* For the same donators: nobody is cleaned up before what he has paid for is
\* over, however updates, spawns, the clock and failures interleave
\* (station_part.go:22-25).
THEOREM PaidIsAlwaysKept == UnionSpec => []PaidIsKept
<1>1. UnionInv => PaidIsKept
  BY DEF UnionInv, DonatorInv, PaidIsKept
<1> QED
  BY <1>1, UnionInvHolds, PTL

\* For any limit, users and messages: only who was counted more often than the
\* limit between two ticks is flagged, banned or loses a message, unless a tick
\* came between a read and a write of his count (discord_main.go:1253-1269).
THEOREM OnlySpammersAreEverFlagged == UnionSpec => []OnlySpammersAreFlagged
<1>1. UnionInv => OnlySpammersAreFlagged
  BY DEF UnionInv, DispatchInv, OnlySpammersAreFlagged
<1> QED
  BY <1>1, UnionInvHolds, PTL
=============================================================================
