------------------------------ MODULE Donators ------------------------------
(***************************************************************************)
(* Donators of one game server (station_part.go): a row of                 *)
(* station_donators says until when a player has paid and from which round *)
(* on he may play a special role again.  st_d_update gives him time; the   *)
(* game asks for those who may play in a round (check_donators), and tells *)
(* who did (the rolespawn webhook, expend_donator).  Each statement is     *)
(* atomic, but expend_donator reads the round, adds the cooldown from the  *)
(* configuration and writes it back, and update_sdonator updates or else   *)
(* inserts.  Equal rows are one row.                                       *)
(***************************************************************************)
EXTENDS Integers, FiniteSetsExt

CONSTANTS
    Ckeys,
    Cooldowns,      \* what the cooldown of a role may be set to
    Durations,      \* times st_d_update may give or take
    Commands,       \* goroutines of webhooks and commands
    Jobs,           \* what they may be asked
    StartTables,    \* tables the bot may find at the start
    MaxTime, MaxRound,  \* bounds
    MaxFaults       \* bound: failing statements and restarts

Donator == [ckey : Ckeys, upto : Int, next : Int]
\* discount: friends and a hunter shorten the cooldown.
Job == [kind : {"update", "check", "rolespawn"}, ckey : Ckeys,
        dur : Durations, discount : 0..2]

\* The cooldowns of the configuration, 3 to 5 rounds at first, are no shorter
\* than the discounts, and rows have the rounds expend_donator may leave.
DonatorsAssumption ==
    /\ Jobs \subseteq Job /\ Cooldowns \subseteq Nat /\ Durations \subseteq Int
    /\ \A j \in Jobs, c \in Cooldowns : j.discount <= c
    /\ \A t \in StartTables : t \subseteq Donator /\ IsFiniteSet(t) /\ \A d \in t : d.next >= -1
    /\ MaxTime \in Nat /\ MaxRound \in Nat

VARIABLES
    donators,       \* station_donators
    cooldown,       \* config_entries of the role's cooldown: no element when deleted
    now, round,
    at, job,
    left,           \* what expend_donator was told and has computed
    free,           \* ghost: the round from which on a donator may play again
    paid,           \* ghost: the time a donator has paid for
    clash,          \* ghost: two updates, or two spawns, of one donator overlapped
    late,           \* ghost: time was given to a row that had expired
    errors, restarts

vars == <<donators, cooldown, now, round, at, job, left, free, paid, clash, late,
          errors, restarts>>

world == <<cooldown, now, round>>
faults == <<errors, restarts>>

Stages == {"idle", "update", "insert", "cleanup", "read", "add", "write", "ended"}

Active(h) == at[h] \notin {"idle", "ended"}
RowsOf(ckey) == {d \in donators : d.ckey = ckey}

Goto(h, next) ==
    /\ at' = [at EXCEPT ![h] = next]
    /\ clash' = (clash \/ \E g \in Commands \ {h} :
                    job[g].ckey = job[h].ckey /\ job[g].kind = job[h].kind
                    /\ Active(g) /\ Active(h)')

Init ==
    /\ donators \in StartTables /\ cooldown \in {{c} : c \in Cooldowns}
    /\ now = 0 /\ round = 0
    /\ at = [h \in Commands |-> "idle"]
    /\ job \in [Commands -> Jobs]
    /\ left = [h \in Commands |-> [round |-> 0, next |-> 0, free |-> 0]]
    /\ free = [c \in Ckeys |-> -1]
    /\ paid = [c \in Ckeys |-> Max({d.upto : d \in RowsOf(c)} \cup {-1})]
    /\ clash = FALSE /\ late = FALSE
    /\ errors = 0 /\ restarts = 0

-----------------------------------------------------------------------------
(* Time, the game and the configuration.                                   *)

Tick == now < MaxTime /\ now' = now + 1 /\ UNCHANGED <<cooldown, round>>
NextRound == round < MaxRound /\ round' = round + 1 /\ UNCHANGED <<cooldown, now>>
ConfigChanges == cooldown' \in {{c} : c \in Cooldowns} \cup {{}} /\ UNCHANGED <<now, round>>

World ==
    /\ Tick \/ NextRound \/ ConfigChanges
    /\ UNCHANGED <<donators, at, job, left, free, paid, clash, late, faults>>

-----------------------------------------------------------------------------
(* st_d_update, check_donators and the rolespawn webhook.                  *)

FirstStage == [update |-> "update", check |-> "cleanup", rolespawn |-> "read"]

\* A webhook names the round of the spawn, however long it takes from here.
Command(h) ==
    /\ at[h] = "idle"
    /\ left' = [left EXCEPT ![h] = [round |-> round, next |-> 0, free |-> 0]]
    /\ UNCHANGED <<donators, world, job, free, paid, late, faults>>
    /\ Goto(h, FirstStage[job[h].kind])

\* What somebody who is paid for until u may expect of dur more.
Extended(u, dur) == Max({u, now}) + dur

GiveTime(h, stage, rows, next) ==
    /\ at[h] = stage
    /\ donators' = rows
    /\ paid' = [paid EXCEPT ![job[h].ckey] =
                    IF rows = donators THEN @ ELSE Extended(@, job[h].dur)]
    /\ late' = (late \/ (stage = "update" /\ \E d \in RowsOf(job[h].ckey) : d.upto < now))
    /\ UNCHANGED <<world, job, left, free, faults>>
    /\ Goto(h, next)

UpdateDonator(h) ==
    LET old == RowsOf(job[h].ckey) IN
    GiveTime(h, "update",
             (donators \ old) \cup {[d EXCEPT !.upto = @ + job[h].dur] : d \in old},
             IF old = {} THEN "insert" ELSE "cleanup")

InsertDonator(h) ==
    GiveTime(h, "insert",
             donators \cup {[ckey |-> job[h].ckey, upto |-> now + job[h].dur, next |-> -1]},
             "cleanup")

CleanupIf(h, Expired(_)) ==
    LET kept == {d \in donators : ~Expired(d)} IN
    /\ at[h] = "cleanup"
    /\ donators' = kept
    \* A donator who comes back later starts afresh.
    /\ free' = [c \in Ckeys |-> IF \E d \in kept : d.ckey = c THEN free[c] ELSE -1]
    /\ UNCHANGED <<world, job, left, paid, late, faults>>
    /\ Goto(h, "ended")

\* Mutant: rows are removed in their last second.
CleanupEarly(h) == LET Expired(d) == d.upto <= now IN CleanupIf(h, Expired)

\* check_donators selects Offered then.
Cleanup(h) == LET Expired(d) == d.upto < now IN CleanupIf(h, Expired)

\* Whom check_donators names to the game in round r.
Offered(r) == {d.ckey : d \in {e \in donators : e.next <= r}}

Compute(h, stage, spawn, goto) ==
    /\ at[h] = stage
    /\ left' = [left EXCEPT ![h] = spawn]
    /\ UNCHANGED <<donators, world, job, free, paid, late, faults>>
    /\ Goto(h, goto)

\* Nothing to read: the panic of Scan is recovered.
ReadNextRound(h) ==
    LET rows == RowsOf(job[h].ckey) IN
    \/ rows = {} /\ Compute(h, "read", left[h], "ended")
    \/ \E d \in rows :
          Compute(h, "read", [left[h] EXCEPT !.next = Max({d.next, left[h].round})], "add")

\* get_config_must panics when the entry is gone: he has played for nothing.
AddCooldown(h) ==
    \/ cooldown = {} /\ Compute(h, "add", left[h], "ended")
    \/ \E c \in cooldown :
          Compute(h, "add", [left[h] EXCEPT !.next = @ + c - job[h].discount,
                                           !.free = left[h].round + c - job[h].discount],
                  "write")

ExpendTo(h, next) ==
    LET old == RowsOf(job[h].ckey) IN
    /\ at[h] = "write"
    /\ donators' = (donators \ old) \cup {[d EXCEPT !.next = next] : d \in old}
    /\ free' = IF old = {} THEN free
               ELSE [free EXCEPT ![job[h].ckey] = Max({@, left[h].free})]
    /\ UNCHANGED <<world, job, left, paid, late, faults>>
    /\ Goto(h, "ended")

\* Mutant: the cooldown counts from the round of the spawn alone.
ExpendFromSpawn(h) == ExpendTo(h, left[h].free)

ExpendDonator(h) == ExpendTo(h, left[h].next)

-----------------------------------------------------------------------------
StatementFails(h) ==
    /\ errors + restarts < MaxFaults
    /\ Active(h) /\ at[h] # "add"
    /\ errors' = errors + 1
    /\ UNCHANGED <<donators, world, job, left, free, paid, late, restarts>>
    /\ Goto(h, "ended")

Restart ==
    /\ errors + restarts < MaxFaults
    /\ at' = [h \in Commands |-> IF Active(h) THEN "ended" ELSE at[h]]
    /\ restarts' = restarts + 1
    /\ UNCHANGED <<donators, world, job, left, free, paid, clash, late, errors>>

Next ==
    \/ World
    \/ \E h \in Commands :
          \/ Command(h) \/ UpdateDonator(h) \/ InsertDonator(h) \/ Cleanup(h)
          \/ ReadNextRound(h) \/ AddCooldown(h) \/ ExpendDonator(h) \/ StatementFails(h)
    \/ Restart

Spec == Init /\ [][Next]_vars

-----------------------------------------------------------------------------
(***************************************************************************)
(* Properties.                                                             *)
(***************************************************************************)

TypeOK ==
    /\ donators \subseteq Donator
    /\ cooldown \subseteq Cooldowns /\ now \in 0..MaxTime /\ round \in 0..MaxRound
    /\ at \in [Commands -> Stages] /\ job \in [Commands -> Job]
    /\ left \in [Commands -> [round : Nat, next : Int, free : Int]]
    /\ free \in [Ckeys -> Int] /\ paid \in [Ckeys -> Int]
    /\ clash \in BOOLEAN /\ late \in BOOLEAN
    /\ errors \in Nat /\ restarts \in Nat

\* A donator whose spawn was recorded is not offered to the game before the
\* cooldown of any of his spawns is over, also when webhooks come late, the
\* configuration changes meanwhile or more time is given, as long as he is not
\* cleaned up.
CooldownHolds ==
    ~clash => \A c \in Ckeys : c \notin Offered(free[c] - 1)

\* A donator is not cleaned up before the time that was paid for has passed,
\* whatever overlaps: time given while a spawn is recorded, or while another
\* command cleans up, is not lost.
PaidIsKept ==
    ~clash /\ ~late => \A c \in Ckeys :
        now <= paid[c] => \E d \in donators : d.ckey = c /\ d.upto >= paid[c]
=============================================================================
