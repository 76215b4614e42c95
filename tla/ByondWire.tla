------------------------------ MODULE ByondWire ------------------------------
(***************************************************************************)
(* A query of a game server (byond_part.go:64-142).  A response is a       *)
(* header of two magic bytes, the length of what follows as two bytes, and *)
(* the type; then the data.  Byond_query_adv reads the header and the data *)
(* with one Read each, and TCP may hand over less than was asked for: then *)
(* the missing bytes of the header are zero.  Bytes of the response are    *)
(* its indices, numbers have 16 bits.                                      *)
(***************************************************************************)
EXTENDS Integers

CONSTANTS
    Requests,       \* lengths of requests
    Responses,      \* lengths of responses, the type counted
    ShortReads      \* sizes of reads that do not bring all that was asked for

Header == 5
Word == 65536
Types == {"NULL", "FLOAT", "STRING"}

\* The type is a byte of its own, and the length fits two.
ByondWireAssumption ==
    /\ Requests \subseteq Nat /\ ShortReads \subseteq Nat
    /\ \A n \in Responses : n \in Nat /\ 0 < n /\ n < Word

VARIABLES
    asked,          \* the length of the request
    length, btype,  \* of the response
    stage,
    got,            \* bytes of the header that were read
    size,           \* ret.size
    data            \* the bytes of the response in ret.data: first and last

vars == <<asked, length, btype, stage, got, size, data>>

Init ==
    /\ asked \in Requests /\ length \in Responses /\ btype \in Types
    /\ stage = "ask" /\ got = 0 /\ size = 0 /\ data = <<1, 0>>

\* A game server looks at the length of the request: a wrong one gets no answer.
\* 6: five zeros before the text and one after it.
Ask ==
    /\ stage = "ask"
    /\ stage' = IF (asked + 6) % Word = asked + 6 THEN "header" ELSE "failed"
    /\ UNCHANGED <<asked, length, btype, got, size, data>>

\* What the header says, of which only the first n bytes have come.
LengthRead(n) ==
    (IF n >= 3 THEN length - (length % 256) ELSE 0) + (IF n >= 4 THEN length % 256 ELSE 0)

\* An error or a timeout is a panic, which is recovered: the response is zero.
ReadHeader ==
    /\ stage = "header"
    /\ UNCHANGED <<asked, length, btype, data>>
    /\ \/ \E n \in 1..Header :
             /\ stage' = "data"
             /\ got' = n
             /\ size' = (LengthRead(n) - 1) % Word
       \/ stage' = "failed" /\ UNCHANGED <<got, size>>

\* Of n bytes to come, the size that was asked for, all, or what TCP has so far.
Reads(n) == {m \in ShortReads \cup {n, size} : m <= n /\ m <= size}

ReadDataIf(Believed(_)) ==
    /\ stage = "data"
    /\ \E m \in Reads(Header - 1 + length - got) :
          /\ data' = <<got + 1, got + m>>
          /\ stage' = IF Believed(m) THEN "answered" ELSE "failed"
    /\ UNCHANGED <<asked, length, btype, got, size>>

\* Mutant: a short read is taken for the whole.
ReadSome == LET Believed(m) == m > 0 IN ReadDataIf(Believed)

ReadData == LET Believed(m) == m = size IN ReadDataIf(Believed)

Next == Ask \/ ReadHeader \/ ReadData

Spec == Init /\ [][Next]_vars

\* ret.btype: zero when its byte had not come, which is that of a NULL.
TypeRead == IF got = Header THEN btype ELSE "NULL"

-----------------------------------------------------------------------------
TypeOK ==
    /\ asked \in Requests /\ length \in Responses /\ btype \in Types
    /\ stage \in {"ask", "header", "data", "answered", "failed"}
    /\ got \in 0..Header /\ size \in 0..(Word - 1) /\ data \in Nat \X Nat

\* An answer whose data String or Float look at is the whole data of the
\* response, however TCP has split it and whatever the arithmetic on 16 bits
\* made of its length: never a part of it or other bytes.
AnswerIsWhole ==
    stage = "answered" /\ TypeRead # "NULL" =>
        data = <<Header + 1, Header - 1 + length>>
=============================================================================
