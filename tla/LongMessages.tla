---------------------------- MODULE LongMessages ----------------------------
(***************************************************************************)
(* send_message_big (discord_main.go:501-528): the answer to a command is  *)
(* posted in chunks that Discord takes, cut at the last newline that fits, *)
(* or anywhere, with a mark at both ends of the cut.  The newline stays at *)
(* the head of the rest.  What counts is where the newlines are; bytes of  *)
(* the message are its indices.                                            *)
(***************************************************************************)
EXTENDS Integers, FiniteSetsExt, Sequences

CONSTANTS
    max_message_size,
    Mark,           \* the length of "**#**"
    Texts           \* the messages: their length and their newlines

Text == [length : Nat, newlines : SUBSET Nat]

\* The mark is cut off no more than it is added.
LongMessagesAssumption ==
    /\ Texts \subseteq Text
    /\ Mark \in Nat \ {0} /\ max_message_size \in Nat /\ max_message_size > 2 * Mark

VARIABLES
    text,
    from, marked,   \* the rest: its first byte in the text, and whether a mark precedes it
    chunks,         \* posted: their first and last byte, and their size
    sending, refused \* refused: Discord failed to post a chunk it could have taken

vars == <<text, from, marked, chunks, sending, refused>>

Init ==
    /\ text \in Texts
    /\ from = 1 /\ marked = FALSE
    /\ chunks = <<>>
    /\ sending = TRUE /\ refused = FALSE

Prefix == IF marked THEN Mark ELSE 0
RestSize == Prefix + text.length + 1 - from

\* strings.LastIndexByte(message[:max_message_size], '\n')
LastIndex ==
    Max({-1} \cup {Prefix + p - from : p \in
            {q \in text.newlines : q >= from /\ Prefix + q - from < max_message_size}})

\* Bytes up to last are posted in a chunk of that size; the loop ends when
\* Discord refuses it, as it does when there is nothing in it but newlines.
Post(last, size, mark) ==
    LET blank == ~marked /\ ~mark /\ from..last \subseteq text.newlines
        first == from
    IN
    \/ /\ ~blank
       /\ chunks' = Append(chunks, [first |-> first, last |-> last, size |-> size])
       /\ from' = last + 1 /\ marked' = mark
       /\ sending' = (last < text.length)
       /\ UNCHANGED <<text, refused>>
    \/ /\ sending' = FALSE /\ refused' = ~blank
       /\ UNCHANGED <<text, from, marked, chunks>>

PostRest ==
    /\ sending /\ RestSize <= max_message_size
    /\ Post(text.length, RestSize, FALSE)

CutAtNewline ==
    /\ sending /\ RestSize > max_message_size /\ LastIndex >= 0
    /\ Post(from + LastIndex - Prefix - 1, LastIndex, FALSE)

CutAfter(li) ==
    /\ sending /\ RestSize > max_message_size /\ LastIndex < 0
    /\ Post(from + li - Prefix - 1, li + Mark, TRUE)

\* Mutant: no room is left for the mark.
CutWithoutRoom == CutAfter(max_message_size)

CutAnywhere == CutAfter(max_message_size - Mark)

Next == PostRest \/ CutAtNewline \/ CutAnywhere

Spec == Init /\ [][Next]_vars

-----------------------------------------------------------------------------
TypeOK ==
    /\ text \in Texts /\ from \in 1..(text.length + 1) /\ marked \in BOOLEAN
    /\ chunks \in Seq([first : Nat, last : Nat, size : Nat])
    /\ sending \in BOOLEAN /\ refused \in BOOLEAN

\* Every chunk fits, chunks follow one another without a gap, and when Discord
\* refuses none the message is cut short only where a rest starts with a
\* newline: there a chunk can come out empty, and the rest is never posted.
AnswerArrives ==
    /\ \A i \in DOMAIN chunks :
          /\ chunks[i].size \in 1..max_message_size
          /\ chunks[i].first = IF i = 1 THEN 1 ELSE chunks[i - 1].last + 1
    /\ ~sending /\ ~refused /\ from <= text.length => from \in text.newlines
=============================================================================
