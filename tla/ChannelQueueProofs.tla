------------------------- MODULE ChannelQueueProofs -------------------------
(***************************************************************************)
(* Theorems about ChannelQueue, for every set of channels, calls and       *)
(* shapes and every MaxSize and MarkLen that SizeAssumption admits: types, *)
(* one loop to a channel, chunks that fit; then that send_message loses    *)
(* nothing, reorders nothing and implements ChannelRelay.                  *)
(***************************************************************************)
EXTENDS ChannelQueue, SequenceTheorems, TLAPS

Byte == Nat \cup {NL, MARK}

-----------------------------------------------------------------------------
(* What the operators on texts return. *)

\* A line is a text as long as its shape.
LEMMA LineType ==
    ASSUME NEW ch \in Channels, NEW shape \in Shapes, count[ch] \in Nat
    PROVE  /\ Line(ch, shape) \in Text
           /\ Len(Line(ch, shape)) = Len(shape)
           /\ Line(ch, shape) # <<>>
<1>1. /\ shape \in Seq({"byte", "newline"}) /\ Len(shape) \in Nat
      /\ Len(shape) > 0 /\ DOMAIN shape = 1..Len(shape)
  BY ShapeAssumption
<1>2. \A i \in 1..Len(shape) : Line(ch, shape)[i] \in Byte
  BY <1>1 DEF Line, Byte
<1>3. Line(ch, shape) \in [1..Len(shape) -> Byte]
  BY <1>1, <1>2 DEF Line
<1>4. Line(ch, shape) \in Seq(Byte)
  BY <1>1, <1>3, IsASeq
<1>5. Len(Line(ch, shape)) = Len(shape)
  BY <1>1, <1>3
<1> QED
  BY <1>1, <1>4, <1>5 DEF Text, Byte

\* The cut mark is a text of MarkLen bytes.
LEMMA MarkType == Mark \in Text /\ Len(Mark) = MarkLen
<1>1. Mark \in [1..MarkLen -> Byte]
  BY SizeAssumption DEF Mark, Byte
<1>2. Mark \in Seq(Byte)
  BY <1>1, SizeAssumption, IsASeq
<1> QED
  BY <1>1, <1>2, SizeAssumption DEF Text, Byte

\* Joining and cutting texts gives texts.
LEMMA JoinType ==
    ASSUME NEW t \in Text, NEW u \in Text, u # <<>>
    PROVE  Join(t, u) \in Text /\ Join(t, u) # <<>>
<1> SUFFICES ASSUME t # <<>>
             PROVE  Join(t, u) \in Text /\ Join(t, u) # <<>>
  BY DEF Join
<1>1. t \in Seq(Byte) /\ u \in Seq(Byte) /\ <<NL>> \in Seq(Byte)
  BY DEF Text, Byte
<1>2. t \o <<NL>> \in Seq(Byte) /\ t \o <<NL>> # <<>>
  BY <1>1, ConcatProperties, ConcatEqualIffEmpty, EmptySeq
<1>3. t \o <<NL>> \o u \in Seq(Byte) /\ t \o <<NL>> \o u # <<>>
  BY <1>1, <1>2, ConcatProperties, ConcatEqualIffEmpty
<1> QED
  BY <1>3 DEF Join, Text, Byte

\* The first n bytes of a text are a text of length n.
LEMMA UptoType ==
    ASSUME NEW t \in Text, NEW n \in 0..Len(t)
    PROVE  /\ Upto(t, n) \in Text
           /\ Len(Upto(t, n)) = n
           /\ \A i \in 1..n : Upto(t, n)[i] = t[i]
<1>1. t \in Seq(Byte) /\ \A i \in 1..n : t[i] \in Byte
  BY DEF Text, Byte
<1> QED
  BY <1>1, SubSeqProperties DEF Upto, Text, Byte

\* So is what starts at position n.
LEMMA FromType ==
    ASSUME NEW t \in Text, NEW n \in 1..(Len(t) + 1)
    PROVE  /\ From(t, n) \in Text
           /\ Len(From(t, n)) = Len(t) - n + 1
           /\ \A i \in 1..(Len(t) - n + 1) : From(t, n)[i] = t[n + i - 1]
<1>1. t \in Seq(Byte) /\ \A i \in n..Len(t) : t[i] \in Byte
  BY DEF Text, Byte
<1> QED
  BY <1>1, SubSeqProperties DEF From, Text, Byte

-----------------------------------------------------------------------------
(* What a drain takes, for each of its three ways to cut. *)

\* The three cuts are one: a chunk that fits and a remainder, both texts.
LEMMA DrainTakes ==
    ASSUME TypeOK, NEW c \in Calls, TakeAll(c) \/ CutAtNewline(c) \/ ForceCut(c)
    PROVE  \E taken \in Text, rest \in Text :
               /\ loop[c] = "drain"
               /\ Len(taken) <= MaxSize
               /\ Take(c, taken, rest)
<1> DEFINE text == buffer[target[c]]
<1>0. text \in Text /\ Len(text) \in Nat
  BY DEF TypeOK, Text
<1>1. CASE TakeAll(c)
  <2>1. loop[c] = "drain" /\ Len(text) <= MaxSize /\ Take(c, text, <<>>)
    BY <1>1 DEF TakeAll
  <2>2. <<>> \in Text
    BY DEF Text
  <2> USE <1>0, <2>2
  <2> WITNESS text \in Text, <<>> \in Text
  <2> QED
    BY <2>1
<1>2. CASE CutAtNewline(c)
  <2>1. PICK li \in 1..MaxSize : Take(c, Upto(text, li - 1), From(text, li + 1))
    BY <1>2 DEF CutAtNewline
  <2>2. /\ loop[c] = "drain" /\ Len(text) > MaxSize
    BY <1>2 DEF CutAtNewline
  <2>3. li - 1 \in 0..Len(text) /\ li + 1 \in 1..(Len(text) + 1) /\ li - 1 <= MaxSize
    BY <1>0, <2>2, SizeAssumption
  <2>4. /\ Upto(text, li - 1) \in Text /\ From(text, li + 1) \in Text
        /\ Len(Upto(text, li - 1)) <= MaxSize
    BY <1>0, <2>3, UptoType, FromType
  <2> USE <2>4
  <2> WITNESS Upto(text, li - 1) \in Text, From(text, li + 1) \in Text
  <2> QED
    BY <2>1, <2>2, <2>4
<1>3. CASE ForceCut(c)
  <2> DEFINE li == MaxSize - MarkLen
  <2>1. /\ loop[c] = "drain" /\ Len(text) > MaxSize
        /\ Take(c, Upto(text, li) \o Mark, Mark \o From(text, li + 1))
    BY <1>3 DEF ForceCut, CutLine
  <2>2. li \in 0..Len(text) /\ li + 1 \in 1..(Len(text) + 1)
    BY <1>0, <2>1, SizeAssumption
  <2>3. Upto(text, li) \in Seq(Byte) /\ Len(Upto(text, li)) = li
        /\ From(text, li + 1) \in Seq(Byte)
        /\ Mark \in Seq(Byte) /\ Len(Mark) = MarkLen
    BY <1>0, <2>2, UptoType, FromType, MarkType DEF Text, Byte
  <2>4. /\ Upto(text, li) \o Mark \in Seq(Byte)
        /\ Mark \o From(text, li + 1) \in Seq(Byte)
        /\ Len(Upto(text, li) \o Mark) = MaxSize
    <3>1. Len(Upto(text, li) \o Mark) = Len(Upto(text, li)) + Len(Mark)
      BY <2>3, ConcatProperties
    <3> QED
      BY <2>3, <3>1, ConcatProperties, SizeAssumption
  <2>5. /\ Upto(text, li) \o Mark \in Text
        /\ Mark \o From(text, li + 1) \in Text
        /\ Len(Upto(text, li) \o Mark) <= MaxSize
    BY <2>4, SizeAssumption DEF Text, Byte
  <2> USE <2>5
  <2> WITNESS Upto(text, li) \o Mark \in Text, Mark \o From(text, li + 1) \in Text
  <2> QED
    BY <2>1, <2>5
<1> QED
  BY <1>1, <1>2, <1>3

-----------------------------------------------------------------------------
(* Type correctness, and one loop per channel. *)

\* The types hold at the start: every buffer is empty.
LEMMA TypeInit == Init => TypeOK
BY DEF Init, TypeOK, Places, Text

\* Every critical section and every post keep the types.
LEMMA TypeNext == TypeOK /\ [Next]_vars => TypeOK'
<1> SUFFICES ASSUME TypeOK, [Next]_vars
             PROVE  TypeOK'
  OBVIOUS
<1>1. ASSUME NEW c \in Calls, NEW shape \in Shapes, Enqueue(c, shape)
      PROVE  TypeOK'
  <2> DEFINE ch == target[c]
             line == Line(ch, shape)
  <2>1. ch \in Channels /\ count[ch] \in Nat /\ buffer[ch] \in Text
    BY DEF TypeOK
  <2>2. line \in Text /\ line # <<>> /\ Len(shape) \in Nat
    BY <2>1, LineType, ShapeAssumption
  <2>3. Join(buffer[ch], line) \in Text
    BY <2>1, <2>2, JoinType
  <2>4. Bytes(line) \subseteq Nat
    BY DEF Bytes
  <2> HIDE DEF line
  <2> QED
    BY <1>1, <2>1, <2>2, <2>3, <2>4 DEF TypeOK, Enqueue, EnqueueTo, Places, line
<1>2. ASSUME NEW c \in Calls, FoundEmpty(c)
      PROVE  TypeOK'
  BY <1>2 DEF TypeOK, FoundEmpty, Places
<1>3. ASSUME NEW c \in Calls, TakeAll(c) \/ CutAtNewline(c) \/ ForceCut(c)
      PROVE  TypeOK'
  BY <1>3, DrainTakes DEF TypeOK, Take, Places
<1>4. ASSUME NEW c \in Calls, Post(c)
      PROVE  TypeOK'
  <2>1. <<>> \in Text
    BY DEF Text
  <2>2. Append(posted[target[c]], chunk[c]) \in Seq(Text)
    BY DEF TypeOK
  <2> QED
    BY <1>4, <2>1, <2>2 DEF TypeOK, Post, PostThen, Places
<1>5. ASSUME NEW c \in Calls, GoOffline(c)
      PROVE  TypeOK'
  BY <1>5 DEF TypeOK, GoOffline, Places
<1>6. CASE UNCHANGED vars
  BY <1>6 DEF TypeOK, vars
<1> QED
  BY <1>1, <1>2, <1>3, <1>4, <1>5, <1>6 DEF Next

\* Every variable of send_message keeps its type (discord_main.go:448-499).
THEOREM TypeCorrect == Spec => []TypeOK
BY TypeInit, TypeNext, PTL DEF Spec

\* The flag and the loops keep each other right: neither half is inductive
\* without the other.
LoopInv == OneLoop /\ FlagTruth

\* No goroutine and no flag at the start.
LEMMA LoopInit == Init => LoopInv
BY DEF Init, LoopInv, OneLoop, FlagTruth, Live

\* The mutex makes the flag and the goroutine change together.
LEMMA LoopNext == TypeOK /\ LoopInv /\ [Next]_vars => LoopInv'
<1> SUFFICES ASSUME TypeOK, LoopInv, [Next]_vars
             PROVE  LoopInv'
  OBVIOUS
<1> USE DEF LoopInv, OneLoop, FlagTruth, Live, TypeOK
<1>1. ASSUME NEW c \in Calls, NEW shape \in Shapes, Enqueue(c, shape)
      PROVE  LoopInv'
  <2>1. CASE online[target[c]]
    BY <1>1, <2>1 DEF Enqueue, EnqueueTo
  <2>2. CASE ~online[target[c]]
    BY <1>1, <2>2 DEF Enqueue, EnqueueTo
  <2> QED
    BY <2>1, <2>2
<1>2. ASSUME NEW c \in Calls, FoundEmpty(c)
      PROVE  LoopInv'
  BY <1>2 DEF FoundEmpty
<1>3. ASSUME NEW c \in Calls, TakeAll(c) \/ CutAtNewline(c) \/ ForceCut(c)
      PROVE  LoopInv'
  <2>1. PICK taken \in Text, rest \in Text : loop[c] = "drain" /\ Take(c, taken, rest)
    BY <1>3, DrainTakes
  <2> QED
    BY <2>1 DEF Take
<1>4. ASSUME NEW c \in Calls, Post(c)
      PROVE  LoopInv'
  BY <1>4 DEF Post, PostThen
<1>5. ASSUME NEW c \in Calls, GoOffline(c)
      PROVE  LoopInv'
  BY <1>5 DEF GoOffline
<1>6. CASE UNCHANGED vars
  BY <1>6 DEF vars
<1> QED
  BY <1>1, <1>2, <1>3, <1>4, <1>5, <1>6 DEF Next

LEMMA LoopInvCorrect == Spec => []LoopInv
<1>1. Init => TypeOK /\ LoopInv
  BY TypeInit, LoopInit
<1>2. (TypeOK /\ LoopInv) /\ [Next]_vars => (TypeOK /\ LoopInv)'
  BY TypeNext, LoopNext
<1> QED
  BY <1>1, <1>2, PTL DEF Spec

\* send_message never has two goroutines draining one channel
\* (discord_main.go:458-463).
THEOREM LoopCorrect == Spec => []OneLoop
<1>1. LoopInv => OneLoop
  BY DEF LoopInv
<1> QED
  BY <1>1, LoopInvCorrect, PTL

\* The flag of a channel is set exactly while a goroutine serves it, so no call
\* leaves its line to a loop that has ended (discord_main.go:458-463, 495-497).
THEOREM FlagCorrect == Spec => []FlagTruth
<1>1. LoopInv => FlagTruth
  BY DEF LoopInv
<1> QED
  BY <1>1, LoopInvCorrect, PTL

-----------------------------------------------------------------------------
(* No chunk exceeds max_message_size. *)

\* Whatever the lines and wherever they are cut, what is posted fits
\* (discord_main.go:471-488).
THEOREM ChunkCorrect == Spec => []ChunkFits
<1>1. Init => ChunkFits
  BY SizeAssumption DEF Init, ChunkFits
<1>2. TypeOK /\ ChunkFits /\ [Next]_vars => ChunkFits'
  <2> SUFFICES ASSUME TypeOK, ChunkFits, [Next]_vars
               PROVE  ChunkFits'
    OBVIOUS
  <2>1. ASSUME NEW c \in Calls, NEW shape \in Shapes, Enqueue(c, shape)
        PROVE  ChunkFits'
    BY <2>1 DEF ChunkFits, Enqueue, EnqueueTo
  <2>2. ASSUME NEW c \in Calls, FoundEmpty(c) \/ GoOffline(c)
        PROVE  ChunkFits'
    BY <2>2 DEF ChunkFits, FoundEmpty, GoOffline
  <2>3. ASSUME NEW c \in Calls, TakeAll(c) \/ CutAtNewline(c) \/ ForceCut(c)
        PROVE  ChunkFits'
    BY <2>3, DrainTakes DEF ChunkFits, Take, TypeOK
  <2>4. ASSUME NEW c \in Calls, Post(c)
        PROVE  ChunkFits'
    BY <2>4, SizeAssumption DEF ChunkFits, Post, PostThen, TypeOK
  <2>5. CASE UNCHANGED vars
    BY <2>5 DEF ChunkFits, vars
  <2> QED
    BY <2>1, <2>2, <2>3, <2>4, <2>5 DEF Next
<1> QED
  BY <1>1, <1>2, TypeInit, TypeNext, PTL DEF Spec

\* Every position of S comes before every position of T.
Before(S, T) == \A m \in S, n \in T : m < n

-----------------------------------------------------------------------------
(* Which bytes a text carries, and in which order, when it is put together *)
(* and cut.                                                                *)

\* The bytes of a text are the naturals found at its positions.
LEMMA InBytes ==
    ASSUME NEW t \in Text
    PROVE  /\ \A n : n \in Bytes(t) <=> n \in Nat /\ \E i \in 1..Len(t) : t[i] = n
           /\ Len(t) \in Nat /\ DOMAIN t = 1..Len(t)
BY DEF Bytes, Text

\* Every byte of a text is at some position of it.
LEMMA HasByte ==
    ASSUME NEW t \in Text, NEW n \in Bytes(t)
    PROVE  n \in Nat /\ \E i \in 1..Len(t) : t[i] = n
BY InBytes

\* Every position that holds a natural gives a byte.
LEMMA ByteAt ==
    ASSUME NEW t \in Text, NEW i \in 1..Len(t), t[i] \in Nat
    PROVE  t[i] \in Bytes(t)
BY InBytes

\* A concatenation has the bytes of both parts, in order if they are.
LEMMA ConcatBytes ==
    ASSUME NEW t \in Text, NEW u \in Text
    PROVE  /\ t \o u \in Text
           /\ Bytes(t \o u) = Bytes(t) \cup Bytes(u)
           /\ InOrder(t) /\ InOrder(u) /\ Before(Bytes(t), Bytes(u)) => InOrder(t \o u)
<1>1. /\ t \in Seq(Byte) /\ u \in Seq(Byte)
      /\ Len(t) \in Nat /\ Len(u) \in Nat
  BY DEF Text, Byte
<1> DEFINE tu == t \o u
<1>2. /\ tu \in Seq(Byte) /\ Len(tu) = Len(t) + Len(u)
      /\ \A i \in 1..(Len(t) + Len(u)) :
             tu[i] = IF i <= Len(t) THEN t[i] ELSE u[i - Len(t)]
  BY <1>1, ConcatProperties
<1>3. tu \in Text
  BY <1>2 DEF Text, Byte
<1> HIDE DEF tu
<1>4. Bytes(tu) \subseteq Bytes(t) \cup Bytes(u)
  <2> SUFFICES ASSUME NEW n \in Nat, NEW i \in 1..Len(tu), tu[i] = n
               PROVE  n \in Bytes(t) \cup Bytes(u)
    BY <1>3, HasByte
  <2>1. CASE i <= Len(t)
    <3>1. i \in 1..Len(t) /\ t[i] = n
      BY <1>1, <1>2, <2>1
    <3> QED
      BY <3>1, ByteAt
  <2>2. CASE i > Len(t)
    <3>1. i - Len(t) \in 1..Len(u) /\ u[i - Len(t)] = n
      BY <1>1, <1>2, <2>2
    <3> QED
      BY <3>1, ByteAt
  <2> QED
    BY <1>1, <1>2, <2>1, <2>2
<1>5. Bytes(t) \cup Bytes(u) \subseteq Bytes(tu)
  <2>1. ASSUME NEW n \in Nat, NEW i \in 1..Len(t), t[i] = n
        PROVE  n \in Bytes(tu)
    <3>1. i \in 1..Len(tu) /\ tu[i] = n
      BY <1>1, <1>2, <2>1
    <3> QED
      BY <1>3, <3>1, ByteAt
  <2>2. ASSUME NEW n \in Nat, NEW i \in 1..Len(u), u[i] = n
        PROVE  n \in Bytes(tu)
    <3> DEFINE j == i + Len(t)
    <3>1. j \in 1..Len(tu) /\ j \in 1..(Len(t) + Len(u)) /\ j > Len(t) /\ j - Len(t) = i
      BY <1>1, <1>2
    <3> HIDE DEF j
    <3>2. tu[j] = n
      BY <1>1, <1>2, <2>2, <3>1
    <3> QED
      BY <1>3, <3>1, <3>2, ByteAt
  <2> QED
    BY <2>1, <2>2, HasByte
<1>6. ASSUME InOrder(t), InOrder(u), Before(Bytes(t), Bytes(u))
      PROVE  InOrder(tu)
  <2> SUFFICES ASSUME NEW i \in 1..Len(tu), NEW j \in 1..Len(tu), i < j,
                      tu[i] \in Nat, tu[j] \in Nat
               PROVE  tu[i] < tu[j]
    BY <1>3, InBytes DEF InOrder
  <2>1. CASE j <= Len(t)
    <3>1. /\ i \in DOMAIN t /\ j \in DOMAIN t /\ tu[i] = t[i] /\ tu[j] = t[j]
      BY <1>1, <1>2, <2>1, InBytes
    <3> QED
      BY <3>1, <1>6 DEF InOrder
  <2>2. CASE i > Len(t)
    <3>1. /\ i - Len(t) \in DOMAIN u /\ j - Len(t) \in DOMAIN u
          /\ i - Len(t) < j - Len(t)
          /\ tu[i] = u[i - Len(t)] /\ tu[j] = u[j - Len(t)]
      BY <1>1, <1>2, <2>2, InBytes
    <3> QED
      BY <3>1, <1>6 DEF InOrder
  <2>3. CASE i <= Len(t) /\ j > Len(t)
    <3>1. /\ i \in 1..Len(t) /\ j - Len(t) \in 1..Len(u)
          /\ tu[i] = t[i] /\ tu[j] = u[j - Len(t)]
      BY <1>1, <1>2, <2>3
    <3>2. tu[i] \in Bytes(t) /\ tu[j] \in Bytes(u)
      BY <3>1, InBytes
    <3> QED
      BY <3>2, <1>6 DEF Before
  <2> QED
    BY <1>1, <1>2, <2>1, <2>2, <2>3
<1> QED
  BY <1>3, <1>4, <1>5, <1>6 DEF tu

\* Neither the cut mark nor a newline carries a byte.
LEMMA MarkBytes ==
    /\ Bytes(Mark) = {} /\ InOrder(Mark)
    /\ <<NL>> \in Text /\ Bytes(<<NL>>) = {} /\ InOrder(<<NL>>)
<1>1. \A i \in 1..MarkLen : Mark[i] = MARK
  BY DEF Mark
<1>2. DOMAIN Mark = 1..MarkLen
  BY DEF Mark
<1> QED
  BY <1>1, <1>2, ByteAssumption DEF Bytes, InOrder, Text

\* A text queued behind another.
LEMMA JoinBytes ==
    ASSUME NEW t \in Text, NEW u \in Text
    PROVE  /\ Bytes(Join(t, u)) = Bytes(t) \cup Bytes(u)
           /\ InOrder(t) /\ InOrder(u) /\ Before(Bytes(t), Bytes(u)) => InOrder(Join(t, u))
<1>1. CASE t = <<>>
  BY <1>1 DEF Join, Bytes
<1>2. CASE t # <<>>
  <2> DEFINE tn == t \o <<NL>>
  <2>1. /\ tn \in Text /\ Bytes(tn) = Bytes(t)
        /\ InOrder(t) => InOrder(tn)
    <3>1. Before(Bytes(t), Bytes(<<NL>>))
      BY MarkBytes DEF Before
    <3> QED
      BY <3>1, ConcatBytes, MarkBytes
  <2> HIDE DEF tn
  <2>2. /\ Bytes(tn \o u) = Bytes(t) \cup Bytes(u)
        /\ InOrder(t) /\ InOrder(u) /\ Before(Bytes(t), Bytes(u)) => InOrder(tn \o u)
    BY <2>1, ConcatBytes
  <2> QED
    BY <1>2, <2>2 DEF Join, tn
<1> QED
  BY <1>1, <1>2

\* taken and rest share out the bytes of t, the first ones to taken.
Splits(t, taken, rest) ==
    /\ Bytes(taken) \cup Bytes(rest) = Bytes(t)
    /\ InOrder(t) => /\ InOrder(taken) /\ InOrder(rest)
                     /\ Before(Bytes(taken), Bytes(rest))

\* A cut that skips only what is not a byte.
LEMMA CutSplits ==
    ASSUME NEW t \in Text, NEW n \in 0..Len(t), NEW k \in 1..(Len(t) + 1), n < k,
           \A j \in 1..Len(t) : n < j /\ j < k => t[j] \notin Nat
    PROVE  Splits(t, Upto(t, n), From(t, k))
<1> DEFINE p == Upto(t, n)
           q == From(t, k)
<1>1. /\ p \in Text /\ Len(p) = n /\ \A i \in 1..n : p[i] = t[i]
      /\ q \in Text /\ Len(q) = Len(t) - k + 1
      /\ \A i \in 1..(Len(t) - k + 1) : q[i] = t[k + i - 1]
      /\ Len(t) \in Nat
  BY UptoType, FromType, InBytes
<1> HIDE DEF p, q
<1>2. \A i \in 1..n : i \in 1..Len(t)
  BY <1>1
<1>3. \A i \in 1..(Len(t) - k + 1) : k + i - 1 \in 1..Len(t)
  BY <1>1
<1>4. Bytes(p) \cup Bytes(q) \subseteq Bytes(t)
  <2>1. ASSUME NEW x \in Nat, NEW i \in 1..Len(p), p[i] = x
        PROVE  x \in Bytes(t)
    BY <1>1, <1>2, <2>1, ByteAt
  <2>2. ASSUME NEW x \in Nat, NEW i \in 1..Len(q), q[i] = x
        PROVE  x \in Bytes(t)
    <3>1. k + i - 1 \in 1..Len(t) /\ t[k + i - 1] = x
      BY <1>1, <1>3, <2>2
    <3> QED
      BY <3>1, ByteAt
  <2> QED
    BY <1>1, <2>1, <2>2, HasByte
<1>5. Bytes(t) \subseteq Bytes(p) \cup Bytes(q)
  <2> SUFFICES ASSUME NEW x \in Nat, NEW i \in 1..Len(t), t[i] = x
               PROVE  x \in Bytes(p) \cup Bytes(q)
    BY HasByte
  <2>1. CASE i <= n
    <3>1. i \in 1..Len(p) /\ p[i] = x
      BY <1>1, <2>1
    <3> QED
      BY <1>1, <3>1, ByteAt
  <2>2. CASE i >= k
    <3> DEFINE j == i - k + 1
    <3>1. j \in 1..Len(q) /\ j \in 1..(Len(t) - k + 1) /\ k + j - 1 = i
      BY <1>1, <2>2
    <3> HIDE DEF j
    <3>2. q[j] = x
      BY <1>1, <3>1
    <3> QED
      BY <1>1, <3>1, <3>2, ByteAt
  <2> QED
    BY <1>1, <2>1, <2>2
<1>6. ASSUME InOrder(t)
      PROVE  InOrder(p) /\ InOrder(q) /\ Before(Bytes(p), Bytes(q))
  <2>0. \A i, j \in 1..Len(t) :
            i < j /\ t[i] \in Nat /\ t[j] \in Nat => t[i] < t[j]
    BY <1>6, InBytes DEF InOrder
  <2>1. InOrder(p)
    BY <1>1, <1>2, <2>0, InBytes DEF InOrder
  <2>2. InOrder(q)
    <3> SUFFICES ASSUME NEW i \in 1..Len(q), NEW j \in 1..Len(q), i < j,
                        q[i] \in Nat, q[j] \in Nat
                 PROVE  q[i] < q[j]
      BY <1>1, InBytes DEF InOrder
    <3>1. /\ q[i] = t[k + i - 1] /\ q[j] = t[k + j - 1]
          /\ k + i - 1 \in 1..Len(t) /\ k + j - 1 \in 1..Len(t)
          /\ k + i - 1 < k + j - 1
      BY <1>1
    <3> QED
      BY <3>1, <2>0
  <2>3. Before(Bytes(p), Bytes(q))
    <3> SUFFICES ASSUME NEW i \in 1..Len(p), NEW j \in 1..Len(q),
                        p[i] \in Nat, q[j] \in Nat
                 PROVE  p[i] < q[j]
      BY <1>1, HasByte DEF Before
    <3>1. /\ p[i] = t[i] /\ q[j] = t[k + j - 1]
          /\ i \in 1..Len(t) /\ k + j - 1 \in 1..Len(t)
          /\ i < k + j - 1
      BY <1>1
    <3> QED
      BY <3>1, <2>0
  <2> QED
    BY <2>1, <2>2, <2>3
<1> QED
  BY <1>4, <1>5, <1>6 DEF Splits, p, q

\* Each of the three ways to cut splits the buffer between chunk and rest.
LEMMA DrainSplits ==
    ASSUME TypeOK, NEW c \in Calls, TakeAll(c) \/ CutAtNewline(c) \/ ForceCut(c)
    PROVE  \E taken \in Text, rest \in Text :
               /\ loop[c] = "drain"
               /\ Splits(buffer[target[c]], taken, rest)
               /\ Take(c, taken, rest)
<1> DEFINE text == buffer[target[c]]
<1>0. text \in Text /\ Len(text) \in Nat
  BY InBytes DEF TypeOK
<1>1. CASE TakeAll(c)
  <2>1. loop[c] = "drain" /\ Take(c, text, <<>>)
    BY <1>1 DEF TakeAll
  <2>2. <<>> \in Text /\ Splits(text, text, <<>>)
    BY DEF Text, Splits, Bytes, InOrder, Before
  <2> USE <1>0, <2>2
  <2> WITNESS text \in Text, <<>> \in Text
  <2> QED
    BY <2>1
<1>2. CASE CutAtNewline(c)
  <2>1. PICK li \in 1..MaxSize :
            LastNewline(text, li) /\ Take(c, Upto(text, li - 1), From(text, li + 1))
    BY <1>2 DEF CutAtNewline
  <2>2. loop[c] = "drain" /\ Len(text) > MaxSize
    BY <1>2 DEF CutAtNewline
  <2>3. li - 1 \in 0..Len(text) /\ li + 1 \in 1..(Len(text) + 1) /\ li - 1 < li + 1
    BY <1>0, <2>2, SizeAssumption
  <2>4. \A j \in 1..Len(text) : li - 1 < j /\ j < li + 1 => text[j] \notin Nat
    BY <1>0, <2>1, ByteAssumption DEF LastNewline
  <2>5. Splits(text, Upto(text, li - 1), From(text, li + 1))
    BY <1>0, <2>3, <2>4, CutSplits
  <2>6. Upto(text, li - 1) \in Text /\ From(text, li + 1) \in Text
    BY <1>0, <2>3, UptoType, FromType
  <2> USE <2>6
  <2> WITNESS Upto(text, li - 1) \in Text, From(text, li + 1) \in Text
  <2> QED
    BY <2>1, <2>2, <2>5
<1>3. CASE ForceCut(c)
  <2> DEFINE li == MaxSize - MarkLen
             p == Upto(text, li)
             q == From(text, li + 1)
  <2>1. loop[c] = "drain" /\ Len(text) > MaxSize /\ Take(c, p \o Mark, Mark \o q)
    BY <1>3 DEF ForceCut, CutLine
  <2>2. li \in 0..Len(text) /\ li + 1 \in 1..(Len(text) + 1) /\ li < li + 1
    BY <1>0, <2>1, SizeAssumption
  <2>3. \A j \in 1..Len(text) : li < j /\ j < li + 1 => text[j] \notin Nat
    BY <1>0, <2>2
  <2>4. p \in Text /\ q \in Text /\ Splits(text, p, q)
    BY <1>0, <2>2, <2>3, CutSplits, UptoType, FromType
  <2> HIDE DEF p, q
  <2>5. /\ p \o Mark \in Text /\ Bytes(p \o Mark) = Bytes(p)
        /\ InOrder(p) => InOrder(p \o Mark)
    <3>1. Before(Bytes(p), Bytes(Mark))
      BY MarkBytes DEF Before
    <3>2. /\ p \o Mark \in Text /\ Bytes(p \o Mark) = Bytes(p) \cup Bytes(Mark)
          /\ InOrder(p) /\ InOrder(Mark) => InOrder(p \o Mark)
      BY <2>4, <3>1, MarkType, ConcatBytes
    <3> QED
      BY <3>2, MarkBytes
  <2>6. /\ Mark \o q \in Text /\ Bytes(Mark \o q) = Bytes(q)
        /\ InOrder(q) => InOrder(Mark \o q)
    <3>1. Before(Bytes(Mark), Bytes(q))
      BY MarkBytes DEF Before
    <3>2. /\ Mark \o q \in Text /\ Bytes(Mark \o q) = Bytes(Mark) \cup Bytes(q)
          /\ InOrder(Mark) /\ InOrder(q) => InOrder(Mark \o q)
      BY <2>4, <3>1, MarkType, ConcatBytes
    <3> QED
      BY <3>2, MarkBytes
  <2>7. Splits(text, p \o Mark, Mark \o q)
    BY <2>4, <2>5, <2>6 DEF Splits
  <2> USE <2>5, <2>6
  <2> WITNESS p \o Mark \in Text, Mark \o q \in Text
  <2> QED
    BY <2>1, <2>7
<1> QED
  BY <1>1, <1>2, <1>3

-----------------------------------------------------------------------------
(* What each step does to the bytes a channel holds and has posted. *)

\* The bytes of a line are the next positions of the channel.
LEMMA LineBytes ==
    ASSUME NEW ch \in Channels, NEW shape \in Shapes, count[ch] \in Nat
    PROVE  /\ \A n \in Bytes(Line(ch, shape)) :
                 n > count[ch] /\ n <= count[ch] + Len(shape)
           /\ InOrder(Line(ch, shape))
<1>1. /\ DOMAIN shape = 1..Len(shape) /\ Len(shape) \in Nat
      /\ DOMAIN Line(ch, shape) = DOMAIN shape
  BY ShapeAssumption DEF Line
<1>2. \A i \in 1..Len(shape) :
          Line(ch, shape)[i] \in Nat => Line(ch, shape)[i] = count[ch] + i
  BY <1>1, ByteAssumption DEF Line
<1> QED
  BY <1>1, <1>2 DEF Bytes, InOrder

\* A call adds the bytes of its line behind all that were accepted.
LEMMA EnqueueBytes ==
    ASSUME TypeOK, NEW c \in Calls, NEW shape \in Shapes, Enqueue(c, shape)
    PROVE  LET L == Bytes(Line(target[c], shape)) IN
           \A ch \in Channels :
               /\ Pending(ch)' = IF ch = target[c] THEN Pending(ch) \cup L ELSE Pending(ch)
               /\ PostedBytes(ch)' = PostedBytes(ch)
<1> DEFINE line == Line(target[c], shape)
<1>1. buffer[target[c]] \in Text /\ line \in Text
  BY LineType DEF TypeOK
<1>2. Bytes(Join(buffer[target[c]], line)) = Bytes(buffer[target[c]]) \cup Bytes(line)
  BY <1>1, JoinBytes
<1> HIDE DEF line
<1>3. buffer' = [buffer EXCEPT ![target[c]] = Join(@, line)]
  BY DEF Enqueue, EnqueueTo, line
<1>4. chunk' = chunk /\ target' = target /\ posted' = posted
  BY DEF Enqueue, EnqueueTo
<1>5. \A ch \in Channels : /\ InFlight(ch)' = InFlight(ch)
                          /\ PostedBytes(ch)' = PostedBytes(ch)
  BY <1>4 DEF InFlight, PostedBytes
<1>6. \A ch \in Channels : Bytes(buffer[ch])' =
          IF ch = target[c] THEN Bytes(buffer[ch]) \cup Bytes(line) ELSE Bytes(buffer[ch])
  BY <1>2, <1>3 DEF TypeOK
<1> QED
  BY <1>5, <1>6 DEF Pending, line

\* A byte is in flight when a goroutine of the channel holds it.
LEMMA InInFlight ==
    ASSUME NEW ch \in Channels
    PROVE  \A n : n \in InFlight(ch) <=>
               \E c \in Calls : target[c] = ch /\ n \in Bytes(chunk[c])
BY DEF InFlight

\* A drain moves bytes from the buffer to the chunk and drops none.
LEMMA TakeBytes ==
    ASSUME TypeOK, NEW c \in Calls, NEW taken \in Text, NEW rest \in Text,
           loop[c] = "drain", Splits(buffer[target[c]], taken, rest), Take(c, taken, rest)
    PROVE  \A ch \in Channels : /\ Pending(ch)' = Pending(ch)
                               /\ PostedBytes(ch)' = PostedBytes(ch)
<1>1. Bytes(chunk[c]) = {}
  <2>1. chunk[c] = <<>>
    BY DEF TypeOK
  <2> QED
    BY <2>1 DEF Bytes
<1>2. /\ chunk' = [chunk EXCEPT ![c] = taken] /\ target' = target /\ posted' = posted
      /\ buffer' = [buffer EXCEPT ![target[c]] = rest]
  BY DEF Take
<1>3. Bytes(taken) \cup Bytes(rest) = Bytes(buffer[target[c]])
  BY DEF Splits
<1> TAKE ch \in Channels
<1>4. PostedBytes(ch)' = PostedBytes(ch)
  BY <1>2 DEF PostedBytes
<1>5. \A n : n \in InFlight(ch)' <=>
          \E d \in Calls : target[d] = ch /\ n \in Bytes(IF d = c THEN taken ELSE chunk[d])
  BY <1>2 DEF InFlight, TypeOK
<1>6. InFlight(ch)' = IF ch = target[c] THEN InFlight(ch) \cup Bytes(taken) ELSE InFlight(ch)
  <2>1. \A n : n \in InFlight(ch) <=>
            \E d \in Calls : target[d] = ch /\ n \in Bytes(chunk[d])
    BY InInFlight
  <2>2. CASE ch = target[c]
    BY <1>1, <1>5, <2>1, <2>2
  <2>3. CASE ch # target[c]
    BY <1>1, <1>5, <2>1, <2>3
  <2> QED
    BY <2>2, <2>3
<1>7. Bytes(buffer[ch])' = IF ch = target[c] THEN Bytes(rest) ELSE Bytes(buffer[ch])
  BY <1>2 DEF TypeOK
<1>8. Pending(ch)' = Pending(ch)
  BY <1>3, <1>6, <1>7 DEF Pending
<1> QED
  BY <1>4, <1>8

\* A posting goroutine is the only one of its channel that holds a chunk.
LEMMA OneChunk ==
    ASSUME TypeOK, OneLoop, NEW c \in Calls, loop[c] = "post"
    PROVE  \A d \in Calls : d # c /\ target[d] = target[c] => Bytes(chunk[d]) = {}
<1> SUFFICES ASSUME NEW d \in Calls, d # c, target[d] = target[c]
             PROVE  Bytes(chunk[d]) = {}
  OBVIOUS
<1>1. loop[d] # "post"
  BY DEF OneLoop, Live
<1>2. chunk[d] = <<>>
  BY <1>1 DEF TypeOK
<1> QED
  BY <1>2 DEF Bytes

\* A post moves the bytes of the chunk from pending to posted.
LEMMA PostBytes ==
    ASSUME TypeOK, OneLoop, NEW c \in Calls, Post(c), NEW ch \in Channels
    PROVE  IF ch = target[c]
           THEN /\ Pending(ch) = Bytes(chunk[c]) \cup Bytes(buffer[ch])
                /\ Pending(ch)' = Bytes(buffer[ch])
                /\ PostedBytes(ch)' = PostedBytes(ch) \cup Bytes(chunk[c])
           ELSE Pending(ch)' = Pending(ch) /\ PostedBytes(ch)' = PostedBytes(ch)
<1>1. /\ loop[c] = "post"
      /\ posted' = [posted EXCEPT ![target[c]] = Append(@, chunk[c])]
      /\ chunk' = [chunk EXCEPT ![c] = <<>>]
      /\ target' = target /\ buffer' = buffer
  BY DEF Post, PostThen
<1>2. Bytes(<<>>) = {}
  BY DEF Bytes
<1>3. CASE ch # target[c]
  <2>1. posted'[ch] = posted[ch]
    BY <1>1, <1>3 DEF TypeOK
  <2>2. \A d \in Calls : target[d] = ch => chunk'[d] = chunk[d]
    BY <1>1, <1>3 DEF TypeOK
  <2> QED
    BY <1>1, <1>3, <2>1, <2>2 DEF Pending, PostedBytes, InFlight
<1>4. CASE ch = target[c]
  <2>0. \A d \in Calls : d # c /\ target[d] = ch => Bytes(chunk[d]) = {}
    BY <1>1, <1>4, OneChunk
  <2>1. InFlight(ch) = Bytes(chunk[c])
    <3>1. \A n : n \in InFlight(ch) <=>
              \E d \in Calls : target[d] = ch /\ n \in Bytes(chunk[d])
      BY InInFlight
    <3> QED
      BY <1>4, <2>0, <3>1
  <2>2. InFlight(ch)' = {}
    <3>1. \A d \in Calls : target[d] = ch => Bytes(chunk'[d]) = {}
      BY <1>1, <1>2, <2>0 DEF TypeOK
    <3> QED
      BY <1>1, <3>1 DEF InFlight
  <2>3. PostedBytes(ch)' = PostedBytes(ch) \cup Bytes(chunk[c])
    <3> DEFINE s == posted[ch]
               t == Append(s, chunk[c])
    <3>1. s \in Seq(Text) /\ chunk[c] \in Text /\ posted'[ch] = t
      BY <1>1, <1>4 DEF TypeOK
    <3>2. /\ DOMAIN s = 1..Len(s) /\ Len(s) \in Nat /\ DOMAIN t = 1..(Len(s) + 1)
          /\ \A k \in 1..Len(s) : t[k] = s[k]
          /\ t[Len(s) + 1] = chunk[c]
      BY <3>1
    <3> HIDE DEF s, t
    <3>3. UNION {Bytes(t[k]) : k \in DOMAIN t}
              = (UNION {Bytes(s[k]) : k \in DOMAIN s}) \cup Bytes(chunk[c])
      BY <3>2
    <3>4. PostedBytes(ch)' = UNION {Bytes(t[k]) : k \in DOMAIN t}
      BY <3>1 DEF PostedBytes
    <3>5. PostedBytes(ch) = UNION {Bytes(s[k]) : k \in DOMAIN s}
      BY DEF PostedBytes, s
    <3> QED
      BY <3>3, <3>4, <3>5
  <2> QED
    BY <1>1, <1>4, <2>1, <2>2, <2>3 DEF Pending
<1> QED
  BY <1>3, <1>4

-----------------------------------------------------------------------------
(* The inductive invariant.  ChunksInOrder is not inductive alone: a join  *)
(* keeps the order only because new positions are above all earlier ones   *)
(* (Fresh), and a post only because what a goroutine holds comes before    *)
(* what is still queued (ChunkFirst) and nothing else is held (LoopInv).   *)

Fresh == \A ch \in Channels : \A n \in accepted[ch] : n <= count[ch]

ChunkFirst ==
    /\ \A c \in Calls : Before(Bytes(chunk[c]), Bytes(buffer[target[c]]))
    /\ \A ch \in Channels : Before(PostedBytes(ch), Pending(ch))

RelayInv == NothingLost /\ Fresh /\ ChunksInOrder /\ ChunkFirst

\* Nothing is accepted, pending or posted at the start.
LEMMA RelayInit == Init => RelayInv
<1> SUFFICES ASSUME Init PROVE RelayInv
  OBVIOUS
<1>1. Bytes(<<>>) = {} /\ InOrder(<<>>)
  BY DEF Bytes, InOrder
<1>2. \A c \in Calls : chunk[c] = <<>> /\ target[c] \in Channels
  BY DEF Init
<1>3. \A ch \in Channels : buffer[ch] = <<>> /\ posted[ch] = <<>> /\ accepted[ch] = {}
  BY DEF Init
<1>4. \A ch \in Channels : InFlight(ch) = {} /\ PostedBytes(ch) = {} /\ Pending(ch) = {}
  <2> TAKE ch \in Channels
  <2>1. InFlight(ch) = {}
    BY <1>1, <1>2, InInFlight
  <2>2. \A k \in DOMAIN posted[ch] : FALSE
    BY <1>3
  <2>3. PostedBytes(ch) = {}
    BY <2>2 DEF PostedBytes
  <2>4. Pending(ch) = {}
    BY <1>1, <1>3, <2>1 DEF Pending
  <2> QED
    BY <2>1, <2>3, <2>4
<1> QED
  BY <1>1, <1>2, <1>3, <1>4
     DEF RelayInv, NothingLost, Fresh, ChunksInOrder, ChunkFirst, Before

\* Every step keeps what is pending and posted complete and in order.
LEMMA RelayNext == TypeOK /\ LoopInv /\ RelayInv /\ [Next]_vars => RelayInv'
<1> SUFFICES ASSUME TypeOK, LoopInv, RelayInv, [Next]_vars
             PROVE  RelayInv'
  OBVIOUS
<1>0. /\ \A ch \in Channels : buffer[ch] \in Text /\ count[ch] \in Nat
                              /\ accepted[ch] \subseteq Nat
      /\ \A c \in Calls : chunk[c] \in Text /\ target[c] \in Channels
  BY DEF TypeOK
<1>1. ASSUME NEW c \in Calls, NEW shape \in Shapes, Enqueue(c, shape)
      PROVE  RelayInv'
  <2> DEFINE ch == target[c]
             line == Line(ch, shape)
             L == Bytes(line)
  <2>1. /\ ch \in Channels /\ line \in Text /\ InOrder(line) /\ Len(shape) \in Nat
        /\ \A n \in L : n \in Nat /\ n > count[ch] /\ n <= count[ch] + Len(shape)
    BY <1>0, LineType, LineBytes, ShapeAssumption, HasByte
  <2>2. \A g \in Channels :
            /\ Pending(g)' = IF g = ch THEN Pending(g) \cup L ELSE Pending(g)
            /\ PostedBytes(g)' = PostedBytes(g)
    BY <1>1, EnqueueBytes
  <2>3. /\ buffer' = [buffer EXCEPT ![ch] = Join(@, line)]
        /\ count' = [count EXCEPT ![ch] = @ + Len(shape)]
        /\ accepted' = [accepted EXCEPT ![ch] = @ \cup L]
        /\ chunk' = chunk /\ target' = target
    BY <1>1 DEF Enqueue, EnqueueTo
  <2>4. Bytes(Join(buffer[ch], line)) = Bytes(buffer[ch]) \cup L
    BY <1>0, <2>1, JoinBytes
  <2>5. \A g \in Channels : \A n \in Pending(g) \cup PostedBytes(g) :
            n \in Nat /\ n <= count[g]
    BY <1>0 DEF RelayInv, NothingLost, Fresh
  <2>6. Before(Bytes(buffer[ch]), L)
    BY <1>0, <2>1, <2>5 DEF Before, Pending
  <2>7. InOrder(Join(buffer[ch], line))
    BY <1>0, <2>1, <2>6, JoinBytes DEF RelayInv, ChunksInOrder
  <2> HIDE DEF line, L
  <2>8. NothingLost'
    BY <1>0, <2>2, <2>3 DEF RelayInv, NothingLost, TypeOK
  <2>9. Fresh'
    BY <1>0, <2>1, <2>3 DEF RelayInv, Fresh, TypeOK
  <2>10. ChunksInOrder'
    BY <2>3, <2>7 DEF RelayInv, ChunksInOrder, TypeOK
  <2>11. ChunkFirst'
    <3>1. ASSUME NEW d \in Calls
          PROVE  Before(Bytes(chunk[d]), Bytes(buffer[target[d]]))'
      <4>1. CASE target[d] = ch
        <5>1. Bytes(chunk[d]) \subseteq Pending(ch)
          BY <4>1 DEF Pending, InFlight
        <5>2. Before(Bytes(chunk[d]), L)
          BY <1>0, <2>1, <2>5, <5>1 DEF Before
        <5>3. Before(Bytes(chunk[d]), Bytes(buffer[ch]))
          BY <4>1 DEF RelayInv, ChunkFirst
        <5> QED
          BY <1>0, <2>3, <2>4, <4>1, <5>2, <5>3 DEF Before, TypeOK
      <4>2. CASE target[d] # ch
        BY <1>0, <2>3, <4>2 DEF RelayInv, ChunkFirst, TypeOK
      <4> QED
        BY <4>1, <4>2
    <3>2. ASSUME NEW g \in Channels
          PROVE  Before(PostedBytes(g), Pending(g))'
      <4>1. Before(PostedBytes(g), Pending(g))
        BY DEF RelayInv, ChunkFirst
      <4>2. g = ch => Before(PostedBytes(g), L)
        BY <1>0, <2>1, <2>5 DEF Before
      <4> QED
        BY <2>2, <4>1, <4>2 DEF Before
    <3> QED
      BY <3>1, <3>2 DEF ChunkFirst
  <2> QED
    BY <2>8, <2>9, <2>10, <2>11 DEF RelayInv
<1>2. ASSUME NEW c \in Calls, TakeAll(c) \/ CutAtNewline(c) \/ ForceCut(c)
      PROVE  RelayInv'
  <2> DEFINE ch == target[c]
  <2>1. PICK taken \in Text, rest \in Text :
            loop[c] = "drain" /\ Splits(buffer[ch], taken, rest) /\ Take(c, taken, rest)
    BY <1>2, DrainSplits
  <2>2. \A g \in Channels : Pending(g)' = Pending(g) /\ PostedBytes(g)' = PostedBytes(g)
    BY <2>1, TakeBytes
  <2>3. /\ chunk' = [chunk EXCEPT ![c] = taken] /\ buffer' = [buffer EXCEPT ![ch] = rest]
        /\ target' = target /\ count' = count /\ accepted' = accepted
    BY <2>1 DEF Take
  <2>4. /\ InOrder(taken) /\ InOrder(rest) /\ Before(Bytes(taken), Bytes(rest))
        /\ Bytes(rest) \subseteq Bytes(buffer[ch])
    BY <1>0, <2>1 DEF Splits, RelayInv, ChunksInOrder
  <2>5. NothingLost' /\ Fresh'
    BY <2>2, <2>3 DEF RelayInv, NothingLost, Fresh
  <2>6. ChunksInOrder'
    BY <2>3, <2>4 DEF RelayInv, ChunksInOrder, TypeOK
  <2>7. ChunkFirst'
    <3>1. ASSUME NEW d \in Calls
          PROVE  Before(Bytes(chunk[d]), Bytes(buffer[target[d]]))'
      <4>1. Before(Bytes(chunk[d]), Bytes(buffer[target[d]]))
        BY DEF RelayInv, ChunkFirst
      <4>2. CASE d = c
        BY <1>0, <2>3, <2>4, <4>2 DEF TypeOK
      <4>3. CASE d # c
        BY <1>0, <2>3, <2>4, <4>1, <4>3 DEF Before, TypeOK
      <4> QED
        BY <4>2, <4>3
    <3>2. ASSUME NEW g \in Channels
          PROVE  Before(PostedBytes(g), Pending(g))'
      BY <2>2 DEF RelayInv, ChunkFirst, Before
    <3> QED
      BY <3>1, <3>2 DEF ChunkFirst
  <2> QED
    BY <2>5, <2>6, <2>7 DEF RelayInv
<1>3. ASSUME NEW c \in Calls, Post(c)
      PROVE  RelayInv'
  <2> DEFINE ch == target[c]
  <2>1. /\ chunk' = [chunk EXCEPT ![c] = <<>>] /\ buffer' = buffer
        /\ target' = target /\ count' = count /\ accepted' = accepted
    BY <1>3 DEF Post, PostThen
  <2>2. \A g \in Channels :
            IF g = ch
            THEN /\ Pending(g) = Bytes(chunk[c]) \cup Bytes(buffer[g])
                 /\ Pending(g)' = Bytes(buffer[g])
                 /\ PostedBytes(g)' = PostedBytes(g) \cup Bytes(chunk[c])
            ELSE Pending(g)' = Pending(g) /\ PostedBytes(g)' = PostedBytes(g)
    BY <1>3, PostBytes DEF LoopInv
  <2>3. Bytes(<<>>) = {} /\ InOrder(<<>>)
    BY DEF Bytes, InOrder
  <2>4. NothingLost' /\ Fresh'
    BY <1>0, <2>1, <2>2 DEF RelayInv, NothingLost, Fresh
  <2>5. ChunksInOrder'
    BY <2>1, <2>3 DEF RelayInv, ChunksInOrder, TypeOK
  <2>6. ChunkFirst'
    <3>1. ASSUME NEW d \in Calls
          PROVE  Before(Bytes(chunk[d]), Bytes(buffer[target[d]]))'
      BY <2>1, <2>3 DEF RelayInv, ChunkFirst, Before, TypeOK
    <3>2. ASSUME NEW g \in Channels
          PROVE  Before(PostedBytes(g), Pending(g))'
      <4>1. Before(PostedBytes(g), Pending(g)) /\ Before(Bytes(chunk[c]), Bytes(buffer[ch]))
        BY DEF RelayInv, ChunkFirst
      <4>2. CASE g = ch
        BY <1>0, <2>2, <4>1, <4>2 DEF Before
      <4>3. CASE g # ch
        BY <2>2, <4>1, <4>3 DEF Before
      <4> QED
        BY <4>2, <4>3
    <3> QED
      BY <3>1, <3>2 DEF ChunkFirst
  <2> QED
    BY <2>4, <2>5, <2>6 DEF RelayInv
<1>4. ASSUME buffer' = buffer, chunk' = chunk, target' = target, posted' = posted,
             count' = count, accepted' = accepted
      PROVE  RelayInv'
  BY <1>4 DEF RelayInv, NothingLost, Fresh, ChunksInOrder, ChunkFirst, Pending,
              PostedBytes, InFlight, Before
<1>5. ASSUME NEW c \in Calls, FoundEmpty(c) \/ GoOffline(c)
      PROVE  RelayInv'
  BY <1>4, <1>5 DEF FoundEmpty, GoOffline
<1>6. CASE UNCHANGED vars
  BY <1>4, <1>6 DEF vars
<1> QED
  BY <1>1, <1>2, <1>3, <1>5, <1>6 DEF Next

\* The three invariants hold in every reachable state.
LEMMA InvCorrect == Spec => [](TypeOK /\ LoopInv /\ RelayInv)
<1>1. Init => TypeOK /\ LoopInv /\ RelayInv
  BY TypeInit, LoopInit, RelayInit
<1>2. (TypeOK /\ LoopInv /\ RelayInv) /\ [Next]_vars => (TypeOK /\ LoopInv /\ RelayInv)'
  BY TypeNext, LoopNext, RelayNext
<1> QED
  BY <1>1, <1>2, PTL DEF Spec

\* Every byte send_message ever queued is queued, in a goroutine's hands or
\* posted: no join and no cut drops one (discord_main.go:449-489).
THEOREM NothingIsLost == Spec => []NothingLost
<1>1. RelayInv => NothingLost
  BY DEF RelayInv
<1> QED
  BY <1>1, InvCorrect, PTL

\* No join and no cut puts two bytes of a channel in the wrong order.
THEOREM OrderCorrect == Spec => []ChunksInOrder
<1>1. RelayInv => ChunksInOrder
  BY DEF RelayInv
<1> QED
  BY <1>1, InvCorrect, PTL

-----------------------------------------------------------------------------
(* Refinement. *)

\* send_message, with its buffers, flags and goroutines, is a channel that
\* hands over what it accepted, once and in order (discord_main.go:448-499).
THEOREM ImplementsRelay == Spec => RelaySpec
<1> DEFINE Inv == TypeOK /\ LoopInv /\ RelayInv
<1>1. Init => Relay!Init
  <2> SUFFICES ASSUME Init PROVE Relay!Init
    OBVIOUS
  <2>1. \A ch \in Channels : Pending(ch) = {} /\ PostedBytes(ch) = {}
    <3> TAKE ch \in Channels
    <3>1. accepted[ch] = {}
      BY DEF Init
    <3> QED
      BY <3>1, RelayInit DEF RelayInv, NothingLost
  <2> QED
    BY <2>1 DEF Relay!Init
<1>2. Inv /\ Inv' /\ [Next]_vars => [Relay!Next]_(Relay!vars)
  <2> SUFFICES ASSUME Inv, Inv', [Next]_vars
               PROVE  [Relay!Next]_(Relay!vars)
    OBVIOUS
  <2> DEFINE pend == [ch \in Channels |-> Pending(ch)]
             gone == [ch \in Channels |-> PostedBytes(ch)]
  <2>1. ASSUME \A ch \in Channels : Pending(ch)' = Pending(ch) /\ PostedBytes(ch)' = PostedBytes(ch)
        PROVE  UNCHANGED Relay!vars
    BY <2>1 DEF Relay!vars
  <2>2. ASSUME NEW c \in Calls, NEW shape \in Shapes, Enqueue(c, shape)
        PROVE  Relay!Next
    <3> DEFINE L == Bytes(Line(target[c], shape))
    <3>0. PICK ch \in Channels : ch = target[c]
      BY DEF TypeOK
    <3>1. /\ count[ch] \in Nat /\ Len(shape) \in Nat
          /\ \A n \in L : n \in Nat /\ n > count[ch]
      BY <3>0, LineType, LineBytes, ShapeAssumption, HasByte DEF TypeOK
    <3>2. \A g \in Channels :
              /\ Pending(g)' = IF g = ch THEN Pending(g) \cup L ELSE Pending(g)
              /\ PostedBytes(g)' = PostedBytes(g)
      BY <2>2, <3>0, EnqueueBytes
    <3>3. \A n \in Pending(ch) \cup PostedBytes(ch) : n \in Nat /\ n <= count[ch]
      BY <3>1 DEF RelayInv, NothingLost, Fresh, TypeOK
    <3> HIDE DEF L
    <3>4. Relay!Before(Pending(ch) \cup PostedBytes(ch), Pending(ch)' \ Pending(ch))
      <4>1. Pending(ch)' \ Pending(ch) \subseteq L
        BY <3>2
      <4> QED
        BY <3>1, <3>3, <4>1 DEF Relay!Before
    <3>5. pend' = [pend EXCEPT ![ch] = pend'[ch]] /\ gone' = gone
      BY <3>2
    <3>6. pend[ch] \subseteq pend'[ch] /\ pend[ch] = Pending(ch) /\ pend'[ch] = Pending(ch)'
          /\ gone[ch] = PostedBytes(ch)
      BY <3>2
    <3>7. Relay!Accept(ch)
      BY <3>4, <3>5, <3>6 DEF Relay!Accept
    <3> QED
      BY <3>7 DEF Relay!Next
  <2>3. ASSUME NEW c \in Calls, TakeAll(c) \/ CutAtNewline(c) \/ ForceCut(c)
        PROVE  UNCHANGED Relay!vars
    <3>1. PICK taken \in Text, rest \in Text :
              loop[c] = "drain" /\ Splits(buffer[target[c]], taken, rest) /\ Take(c, taken, rest)
      BY <2>3, DrainSplits
    <3> QED
      BY <3>1, TakeBytes, <2>1
  <2>4. ASSUME NEW c \in Calls, Post(c)
        PROVE  Relay!Next
    <3> DEFINE P == Bytes(chunk[c])
    <3>0. PICK ch \in Channels : ch = target[c]
      BY DEF TypeOK
    <3>1. P \subseteq Nat
      BY DEF Bytes
    <3>2. \A g \in Channels :
              IF g = ch
              THEN /\ Pending(g) = P \cup Bytes(buffer[g])
                   /\ Pending(g)' = Bytes(buffer[g])
                   /\ PostedBytes(g)' = PostedBytes(g) \cup P
              ELSE Pending(g)' = Pending(g) /\ PostedBytes(g)' = PostedBytes(g)
      BY <2>4, <3>0, PostBytes DEF LoopInv
    <3>3. Before(P, Bytes(buffer[ch])) /\ Before(PostedBytes(ch), Pending(ch))
      BY <3>0 DEF RelayInv, ChunkFirst
    <3> HIDE DEF P
    <3>4. \A n \in P : n \notin Bytes(buffer[ch])
      BY <3>1, <3>3 DEF Before
    <3>5. Pending(ch)' = Pending(ch) \ P
      BY <3>2, <3>4
    <3>6. /\ P \subseteq Pending(ch)
          /\ Relay!Before(P, Pending(ch) \ P)
          /\ Relay!Before(PostedBytes(ch), P)
      BY <3>2, <3>3 DEF Before, Relay!Before
    <3>7. /\ pend[ch] = Pending(ch) /\ gone[ch] = PostedBytes(ch)
          /\ pend' = [pend EXCEPT ![ch] = @ \ P]
          /\ gone' = [gone EXCEPT ![ch] = @ \cup P]
      BY <3>2, <3>5
    <3>8. Relay!HandOver(ch, P)
      BY <3>6, <3>7 DEF Relay!HandOver
    <3> QED
      BY <3>6, <3>7, <3>8 DEF Relay!Next
  <2>5. ASSUME NEW c \in Calls, FoundEmpty(c) \/ GoOffline(c)
        PROVE  UNCHANGED Relay!vars
    BY <2>5 DEF FoundEmpty, GoOffline, Relay!vars, Pending, PostedBytes, InFlight
  <2>6. CASE UNCHANGED vars
    BY <2>6 DEF vars, Relay!vars, Pending, PostedBytes, InFlight
  <2> QED
    BY <2>2, <2>3, <2>4, <2>5, <2>6 DEF Next
<1> QED
  BY <1>1, <1>2, InvCorrect, PTL DEF Spec, RelaySpec, Relay!Spec
=============================================================================
