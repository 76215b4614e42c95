---------------------------- MODULE ChannelQueue ----------------------------
(***************************************************************************)
(* send_message (discord_main.go:444-499): the queue every relayed line    *)
(* goes through on its way to a Discord channel.                           *)
(*                                                                         *)
(* A call appends its line to the channel's buffer and, when no loop is    *)
(* marked online for the channel, starts a goroutine that drains the       *)
(* buffer: under send_message_mutex it takes at most max_message_size      *)
(* bytes, cut at the last newline that fits, then posts them without the   *)
(* mutex.  The loop leaves when it finds the buffer empty, and marks       *)
(* itself offline in a SECOND critical section: what is queued between     *)
(* the two is left to whoever calls next.                                  *)
(*                                                                         *)
(* Each critical section is one action.  buffer[ch] is what strings.Join   *)
(* makes of channel_buffers[channel]: no line is empty (each starts with   *)
(* the time) and no remainder is, so <<>> stands for nil and for nothing   *)
(* else.  A byte is the position at which the channel accepted it; the     *)
(* newline byte and the bytes of the cut mark are NL and MARK.             *)
(***************************************************************************)
EXTENDS Integers, Sequences

CONSTANTS
    Channels,   \* Discord channel ids
    Calls,      \* the calls of send_message, each made at most once
    Shapes,     \* the lines they send, as sequences of "byte" and "newline"
    MaxSize,    \* max_message_size, 2000 in the code
    MarkLen,    \* the length of the cut mark "**#**", 5 in the code
    NL, MARK    \* the newline byte; a byte of the cut mark

ASSUME SizeAssumption ==
    /\ MaxSize \in Nat /\ MarkLen \in Nat
    /\ MaxSize > 2 * MarkLen

\* A line starts with the time between back quotes, never with a newline.
ASSUME ShapeAssumption ==
    \A s \in Shapes : /\ s \in Seq({"byte", "newline"})
                      /\ Len(s) > 0
                      /\ s[1] = "byte"

ASSUME ByteAssumption == NL \notin Nat /\ MARK \notin Nat /\ NL # MARK

VARIABLES
    buffer,     \* channel_buffers[channel], joined by newlines
    online,     \* channel_message_send_loops_online[channel]
    loop,       \* where the call, or the goroutine it started, is
    target,     \* the channel the call was made for
    chunk,      \* the goroutine's chunk, from the mutex to the post
    posted,     \* the chunks handed to ChannelMessageSend, per channel
    count,      \* how many positions the channel has accepted
    accepted    \* those of them that are not newlines

vars == <<buffer, online, loop, target, chunk, posted, count, accepted>>

Text == Seq(Nat \cup {NL, MARK})

\* A call is made once ("idle"); it returns without a goroutine ("queued")
\* or its goroutine drains, posts, is about to go offline, is gone.
Places == {"idle", "queued", "drain", "post", "offline", "gone"}

\* The bytes a text carries, cut marks and newlines left out.
Bytes(text) == {text[i] : i \in DOMAIN text} \cap Nat

\* The line a call of this shape adds to channel ch.
Line(ch, shape) ==
    [i \in DOMAIN shape |-> IF shape[i] = "newline" THEN NL ELSE count[ch] + i]

Mark == [i \in 1..MarkLen |-> MARK]

\* Mutant: the new line goes in front of the queue.
JoinInFront(text, line) == IF text = <<>> THEN line ELSE line \o <<NL>> \o text

Join(text, line) == IF text = <<>> THEN line ELSE text \o <<NL>> \o line

Upto(text, n) == SubSeq(text, 1, n)
From(text, n) == SubSeq(text, n, Len(text))

\* The loop of c exists and has not yet cleared the channel's flag.
Live(c) == loop[c] \in {"drain", "post", "offline"}

Init ==
    /\ buffer = [ch \in Channels |-> <<>>]
    /\ online = [ch \in Channels |-> FALSE]
    /\ loop = [c \in Calls |-> "idle"]
    /\ target \in [Calls -> Channels]
    /\ chunk = [c \in Calls |-> <<>>]
    /\ posted = [ch \in Channels |-> <<>>]
    /\ count = [ch \in Channels |-> 0]
    /\ accepted = [ch \in Channels |-> {}]

-----------------------------------------------------------------------------
\* The first critical section: the line is queued, the flag is set, and the
\* caller goes on to place next.
EnqueueTo(c, shape, next) ==
    LET ch == target[c] IN
    /\ loop[c] = "idle"
    /\ buffer' = [buffer EXCEPT ![ch] = Join(@, Line(ch, shape))]
    /\ count' = [count EXCEPT ![ch] = @ + Len(shape)]
    /\ accepted' = [accepted EXCEPT ![ch] = @ \cup Bytes(Line(ch, shape))]
    /\ loop' = [loop EXCEPT ![c] = next]
    /\ online' = [online EXCEPT ![ch] = TRUE]
    /\ UNCHANGED <<target, chunk, posted>>

\* Mutant: the goroutine is started whether or not the flag is set.
EnqueueUnguarded(c, shape) == EnqueueTo(c, shape, "drain")

\* The call itself; a goroutine is started unless the flag was set.
Enqueue(c, shape) ==
    EnqueueTo(c, shape, IF online[target[c]] THEN "queued" ELSE "drain")

\* The buffer is empty: out of the for loop, the flag still up.
FoundEmpty(c) ==
    /\ loop[c] = "drain"
    /\ buffer[target[c]] = <<>>
    /\ loop' = [loop EXCEPT ![c] = "offline"]
    /\ UNCHANGED <<buffer, online, target, chunk, posted, count, accepted>>

\* What a drain takes and what it leaves in the buffer.
Take(c, taken, rest) ==
    /\ chunk' = [chunk EXCEPT ![c] = taken]
    /\ buffer' = [buffer EXCEPT ![target[c]] = rest]
    /\ loop' = [loop EXCEPT ![c] = "post"]
    /\ UNCHANGED <<online, target, posted, count, accepted>>

LastNewline(text, li) ==
    text[li] = NL /\ \A j \in (li + 1)..MaxSize : text[j] # NL

TakeAll(c) ==
    LET text == buffer[target[c]] IN
    /\ loop[c] = "drain"
    /\ text # <<>> /\ Len(text) <= MaxSize
    /\ Take(c, text, <<>>)

\* Cut at the last newline that fits; that newline is dropped.
CutAtNewline(c) ==
    LET text == buffer[target[c]] IN
    /\ loop[c] = "drain"
    /\ Len(text) > MaxSize
    /\ \E li \in 1..MaxSize :
          LastNewline(text, li) /\ Take(c, Upto(text, li - 1), From(text, li + 1))

\* Cut the line itself after li bytes, keep what starts at next.
CutLine(c, li, next) ==
    LET text == buffer[target[c]] IN
    /\ loop[c] = "drain"
    /\ Len(text) > MaxSize
    /\ \A j \in 1..MaxSize : text[j] # NL
    /\ Take(c, Upto(text, li) \o Mark, Mark \o From(text, next))

\* Mutants: no room left for the mark; the bytes the mark displaced are
\* dropped; the byte at the cut goes out twice.
ForceCutNoRoom(c) == CutLine(c, MaxSize, MaxSize + 1)
ForceCutDrops(c) == CutLine(c, MaxSize - MarkLen, MaxSize + 1)
ForceCutTwice(c) == CutLine(c, MaxSize - MarkLen, MaxSize - MarkLen)

\* No newline fits: cut the line itself, a mark on both sides of the cut.
ForceCut(c) == CutLine(c, MaxSize - MarkLen, MaxSize - MarkLen + 1)

\* The chunk goes out; the goroutine keeps kept and goes on to place next.
PostThen(c, kept, next) ==
    /\ loop[c] = "post"
    /\ posted' = [posted EXCEPT ![target[c]] = Append(@, chunk[c])]
    /\ chunk' = [chunk EXCEPT ![c] = kept]
    /\ loop' = [loop EXCEPT ![c] = next]
    /\ UNCHANGED <<buffer, online, target, count, accepted>>

\* Mutants: the goroutine posts one chunk and leaves; the chunk is kept.
PostOnce(c) == PostThen(c, <<>>, "offline")
PostKeepsChunk(c) == PostThen(c, chunk[c], "drain")

\* ChannelMessageSend returns; an error is only logged.
Post(c) == PostThen(c, <<>>, "drain")

\* Mutant: the goroutine ends without clearing the flag.
GoneStillOnline(c) ==
    /\ loop[c] = "offline"
    /\ loop' = [loop EXCEPT ![c] = "gone"]
    /\ UNCHANGED <<buffer, online, target, chunk, posted, count, accepted>>

\* The last critical section; the goroutine ends.
GoOffline(c) ==
    /\ loop[c] = "offline"
    /\ online' = [online EXCEPT ![target[c]] = FALSE]
    /\ loop' = [loop EXCEPT ![c] = "gone"]
    /\ UNCHANGED <<buffer, target, chunk, posted, count, accepted>>

Drain(c) == FoundEmpty(c) \/ TakeAll(c) \/ CutAtNewline(c) \/ ForceCut(c)

Goroutine(c) == Drain(c) \/ Post(c) \/ GoOffline(c)

Next ==
    \/ \E c \in Calls, shape \in Shapes : Enqueue(c, shape)
    \/ \E c \in Calls : FoundEmpty(c)
    \/ \E c \in Calls : TakeAll(c)
    \/ \E c \in Calls : CutAtNewline(c)
    \/ \E c \in Calls : ForceCut(c)
    \/ \E c \in Calls : Post(c)
    \/ \E c \in Calls : GoOffline(c)

\* The runtime schedules every goroutine, sync.Mutex is starvation free and
\* the REST call returns: a started loop keeps going.  Nobody has to call.
Fairness == \A c \in Calls : WF_vars(Goroutine(c))

Spec == Init /\ [][Next]_vars /\ Fairness

-----------------------------------------------------------------------------
(***************************************************************************)
(* Properties.                                                             *)
(***************************************************************************)

\* Every variable of send_message keeps its type; a chunk is held only
\* between the mutex and the post.
TypeOK ==
    /\ buffer \in [Channels -> Text]
    /\ online \in [Channels -> BOOLEAN]
    /\ loop \in [Calls -> Places]
    /\ target \in [Calls -> Channels]
    /\ chunk \in [Calls -> Text]
    /\ posted \in [Channels -> Seq(Text)]
    /\ count \in [Channels -> Nat]
    /\ accepted \in [Channels -> SUBSET Nat]
    /\ \A c \in Calls : loop[c] # "post" => chunk[c] = <<>>

\* At most one goroutine of send_message serves a channel, so two chunks of
\* one channel are never in flight together and cannot overtake each other.
OneLoop ==
    \A c, d \in Calls : Live(c) /\ Live(d) /\ target[c] = target[d] => c = d

\* channel_message_send_loops_online tells the truth: it is set exactly while
\* a goroutine of the channel has not reached its last critical section.
FlagTruth ==
    \A ch \in Channels :
        online[ch] <=> \E c \in Calls : Live(c) /\ target[c] = ch

\* No chunk is longer than Discord takes, the cut marks included.
ChunkFits == \A c \in Calls : Len(chunk[c]) <= MaxSize

\* What the goroutines of ch hold between the mutex and the post.
InFlight(ch) == UNION {Bytes(chunk[c]) : c \in {d \in Calls : target[d] = ch}}

Pending(ch) == InFlight(ch) \cup Bytes(buffer[ch])

PostedBytes(ch) == UNION {Bytes(posted[ch][k]) : k \in DOMAIN posted[ch]}

\* The bytes of a text are in the order they were accepted.
InOrder(text) ==
    \A i, j \in DOMAIN text :
        i < j /\ text[i] \in Nat /\ text[j] \in Nat => text[i] < text[j]

\* Cutting and joining never reorders or doubles a byte inside a chunk.
ChunksInOrder ==
    /\ \A c \in Calls : InOrder(chunk[c])
    /\ \A ch \in Channels : InOrder(buffer[ch])

\* A drain takes text away from the channel only into a chunk: every byte a
\* call ever queued is still queued, in flight or posted.
NothingLost ==
    \A ch \in Channels : accepted[ch] = Pending(ch) \cup PostedBytes(ch)

\* send_message implements the relay: in order, once, nothing skipped.
Relay == INSTANCE ChannelRelay WITH
    pending <- [ch \in Channels |-> Pending(ch)],
    out <- [ch \in Channels |-> PostedBytes(ch)]

RelaySpec == Relay!Spec

\* A goroutine that has not yet found the buffer empty is at work on ch.
Served(ch) == \E c \in Calls : loop[c] \in {"drain", "post"} /\ target[c] = ch

\* A goroutine at work empties the channel: it leaves the for loop only over
\* an empty buffer (discord_main.go:464-494), so what is queued meanwhile is
\* posted too, however many cuts come before it.  (Calls is finite; under an
\* endless stream of calls the buffer need never be empty.)
ServedIsDelivered ==
    \A ch \in Channels : Served(ch) ~> Pending(ch) = {}

\* What the comment on send_message says (discord_main.go:444-445): what it
\* cannot send at once it queues, and its loops send what is queued.
QueuedIsDelivered ==
    \A ch \in Channels : Pending(ch) # {} ~> Pending(ch) = {}
=============================================================================
