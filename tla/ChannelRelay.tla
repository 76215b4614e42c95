---------------------------- MODULE ChannelRelay ----------------------------
(***************************************************************************)
(* What send_message promises of one Discord channel, whoever calls it and *)
(* however the text is cut: every byte that was accepted is handed to      *)
(* Discord once, and bytes are handed over in the order they were accepted.*)
(*                                                                         *)
(* The n-th position accepted on a channel is the number n, so a set of    *)
(* positions is a set of naturals and "in order" is the order of Nat.      *)
(***************************************************************************)
EXTENDS Naturals

CONSTANT Channels      \* the Discord channels

VARIABLES pending,     \* [Channels -> SUBSET Nat], accepted, not handed over
          out          \* [Channels -> SUBSET Nat], handed over to Discord

vars == <<pending, out>>

\* Every position of S comes before every position of T.
Before(S, T) == \A m \in S, n \in T : m < n

Init ==
    /\ pending = [ch \in Channels |-> {}]
    /\ out = [ch \in Channels |-> {}]

\* A message is accepted behind everything accepted so far.  What it adds is
\* read off pending', so that no bound on the positions is needed.
Accept(ch) ==
    /\ pending[ch] \subseteq pending'[ch]
    /\ Before(pending[ch] \cup out[ch], pending'[ch] \ pending[ch])
    /\ pending' = [pending EXCEPT ![ch] = pending'[ch]]
    /\ UNCHANGED out

\* The first part of what is pending goes out, in one chunk.
HandOver(ch, P) ==
    /\ P \subseteq pending[ch]
    /\ Before(P, pending[ch] \ P)
    /\ Before(out[ch], P)
    /\ pending' = [pending EXCEPT ![ch] = @ \ P]
    /\ out' = [out EXCEPT ![ch] = @ \cup P]

Next == \E ch \in Channels :
    \/ Accept(ch)
    \/ \E P \in SUBSET pending[ch] : HandOver(ch, P)

Spec == Init /\ [][Next]_vars
=============================================================================
