----------------------------- MODULE Moderators -----------------------------
(***************************************************************************)
(* Moderators (discord_main.go:1328-1384): the slice local_moderators,     *)
(* which every permission check searches, and the table it is loaded from. *)
(* promote and demote look for the ckey in the slice, change the slice and *)
(* then the table, without a lock.  Neither the slice nor the table is     *)
(* kept from holding a ckey twice.                                         *)
(***************************************************************************)
EXTENDS Integers, SequencesExt

CONSTANTS
    Ckeys,
    Commands,       \* goroutines running a command
    Jobs,           \* what they may be asked
    StartTables,    \* tables the bot may find at the start
    MaxFaults       \* bound: failing statements and restarts

Job == [kind : {"promote", "demote"}, ckey : Ckeys]

ModeratorsAssumption ==
    IsFiniteSet(Ckeys) /\ Jobs \subseteq Job /\ StartTables \subseteq [Ckeys -> Nat]

VARIABLES
    rows,           \* discord_moderators: how many rows a ckey has
    moderators,     \* local_moderators
    at, job,
    left,           \* the slice, and the index of the ckey, as the search left them
    clash,          \* ghost: two commands overlapped that must not
    torn,           \* ghost: a statement failed after the slice had been changed,
                    \* or the slice was loaded from a table with a ckey twice
    errors, restarts

vars == <<rows, moderators, at, job, left, clash, torn, errors, restarts>>

Stages == {"idle", "append", "insert", "cut", "delete", "ended"}

Active(h) == at[h] \notin {"idle", "ended"}
Quiet == \A h \in Commands : ~Active(h)
InMemory(h) == at[h] \in {"append", "cut"}

\* Commands on one ckey, and any two that are about to write the slice.
Goto(h, next) ==
    /\ at' = [at EXCEPT ![h] = next]
    /\ clash' = (clash \/ \E g \in Commands \ {h} :
                    \/ job[g].ckey = job[h].ckey /\ Active(g) /\ Active(h)'
                    \/ InMemory(g) /\ InMemory(h)')

\* What initial_update_moderators may make of the table.
Loaded(table) ==
    LET entries == UNION {{c} \X (1..table[c]) : c \in Ckeys}
    IN  {[i \in DOMAIN s |-> s[i][1]] : s \in SetToSeqs(entries)}

Doubled(table) == \E c \in Ckeys : table[c] > 1

Init ==
    /\ rows \in StartTables
    /\ moderators \in Loaded(rows)
    /\ at = [h \in Commands |-> "idle"]
    /\ job \in [Commands -> Jobs]
    /\ left = [h \in Commands |-> [slice |-> <<>>, index |-> 0]]
    /\ clash = FALSE /\ torn = Doubled(rows)
    /\ errors = 0 /\ restarts = 0

-----------------------------------------------------------------------------
(* add_moderator and remove_moderator.                                     *)

Places(ckey) == {i \in DOMAIN moderators : moderators[i] = ckey}

Search(h, kind, index, next) ==
    /\ at[h] = "idle" /\ job[h].kind = kind
    /\ left' = [left EXCEPT ![h] = [slice |-> moderators, index |-> index]]
    /\ UNCHANGED <<rows, moderators, job, torn, errors, restarts>>
    /\ Goto(h, next)

\* "user is already moderator" and "no such moderator".
Promote(h) ==
    Search(h, "promote", 0, IF Places(job[h].ckey) = {} THEN "append" ELSE "ended")

Demote(h) ==
    LET places == Places(job[h].ckey) IN
    Search(h, "demote", IF places = {} THEN 0 ELSE Min(places),
           IF places = {} THEN "ended" ELSE "cut")

\* The slice of two commands that write it at once may be the older one of either.
Slices(h) ==
    {moderators} \cup {left[g].slice : g \in {k \in Commands \ {h} : InMemory(k)} \cup {h}}

AppendModerator(h) ==
    /\ at[h] = "append"
    /\ \E s \in Slices(h) : moderators' = Append(s, job[h].ckey)
    /\ UNCHANGED <<rows, job, left, torn, errors, restarts>>
    /\ Goto(h, "insert")

\* The index was found before: past the end of the slice by now, the cut panics.
CutModerator(h) ==
    /\ at[h] = "cut"
    /\ \E s \in Slices(h) :
          IF left[h].index \in DOMAIN s
          THEN moderators' = RemoveAt(s, left[h].index) /\ Goto(h, "delete")
          ELSE UNCHANGED moderators /\ Goto(h, "ended")
    /\ UNCHANGED <<rows, job, left, torn, errors, restarts>>

WriteRows(h, stage, n) ==
    /\ at[h] = stage
    /\ rows' = [rows EXCEPT ![job[h].ckey] = n]
    /\ UNCHANGED <<moderators, job, left, torn, errors, restarts>>
    /\ Goto(h, "ended")

InsertModerator(h) == WriteRows(h, "insert", rows[job[h].ckey] + 1)

DeleteModerator(h) == WriteRows(h, "delete", 0)

-----------------------------------------------------------------------------
\* The slice has been changed by then.
StatementFails(h) ==
    /\ errors + restarts < MaxFaults
    /\ at[h] \in {"insert", "delete"}
    /\ errors' = errors + 1 /\ torn' = TRUE
    /\ UNCHANGED <<rows, moderators, job, left, restarts>>
    /\ Goto(h, "ended")

Restart ==
    /\ errors + restarts < MaxFaults
    /\ moderators' \in Loaded(rows)
    /\ at' = [h \in Commands |-> IF Active(h) THEN "ended" ELSE at[h]]
    /\ torn' = Doubled(rows)
    /\ restarts' = restarts + 1
    /\ UNCHANGED <<rows, job, left, clash, errors>>

Next ==
    \/ \E h \in Commands :
          \/ Promote(h) \/ AppendModerator(h) \/ InsertModerator(h)
          \/ Demote(h) \/ CutModerator(h) \/ DeleteModerator(h)
          \/ StatementFails(h)
    \/ Restart

Spec == Init /\ [][Next]_vars

-----------------------------------------------------------------------------
TypeOK ==
    /\ rows \in [Ckeys -> Nat]
    /\ moderators \in Seq(Ckeys)
    /\ at \in [Commands -> Stages] /\ job \in [Commands -> Job]
    /\ left \in [Commands -> [slice : Seq(Ckeys), index : Nat]]
    /\ clash \in BOOLEAN /\ torn \in BOOLEAN
    /\ errors \in Nat /\ restarts \in Nat

\* When no two commands on one ckey overlapped and none wrote the slice at once
\* with another, when no statement failed and nobody was loaded twice since the
\* start, the next start brings back exactly those who are moderators now, each
\* of them once: no demoted one returns.
ModeratorsOutliveTheBot ==
    Quiet /\ ~clash /\ ~torn =>
        \A c \in Ckeys : Cardinality(Places(c)) = rows[c]
=============================================================================
