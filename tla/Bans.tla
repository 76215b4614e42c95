-------------------------------- MODULE Bans --------------------------------
(***************************************************************************)
(* Bans and ban overrides (discord_main.go:910-1087).                      *)
(*                                                                         *)
(* A ban has the rank of its issuer and binds every level below it.  The   *)
(* tables are the truth; what a message is checked against are two maps,   *)
(* known_bans_summary and known_ban_overrides, which a command that has    *)
(* changed a table builds anew: clear, fetch, then one row after the       *)
(* other.  Commands run concurrently, and neither map has a lock: a clear  *)
(* that hits a closure_callback in the middle makes it write to a nil map, *)
(* which ends its populate; two callbacks can lose each other's bits.      *)
(*                                                                         *)
(* A type is a set of bits.  Equal rows of a table are one row here: every *)
(* statement treats them alike.                                            *)
(***************************************************************************)
EXTENDS Permissions, FiniteSets

CONSTANTS
    Bits,           \* {BANTYPE_OOC, BANTYPE_COMMANDS}
    Commands,       \* goroutines running a ban command or the spam autoban
    Jobs,           \* what they may be asked
    StartBans,      \* bans that may be in the table at the start
    StartOverrides, \* and overrides
    BotName,        \* the name the bot signs its bans with
    MaxFaults       \* bound: failing statements and restarts of the bot

Ranks == PERMISSIONS_ADMIN..PERMISSIONS_SUPERUSER
Bound == PERMISSIONS_REGISTERED..PERMISSIONS_SUPERUSER

Ban == [ckey : Ckeys, admin : Ckeys \cup {Nobody, BotName}, type : SUBSET Bits, perm : Ranks]
Override == [server : Servers \cup {AnyServer}, ckey : Ckeys, type : SUBSET Bits, perm : Ranks]

\* What a command was asked: server is only looked at by the override ones.
Job == [kind : {"apply", "lift", "override", "wipe"}, ckey : Ckeys, type : SUBSET Bits,
        server : Servers \cup {AnyServer}, by : Users]

\* The bot itself only bans, for all types at once.
ASSUME BansAssumption ==
    /\ Jobs \subseteq Job
    /\ \A j \in Jobs : j.by = Bot => j.kind = "apply" /\ j.type = Bits
    /\ StartBans \subseteq Ban /\ StartOverrides \subseteq Override
    /\ MaxFaults \in Nat

VARIABLES
    bans,           \* DISCORD_BANS
    overrides,      \* DISCORD_BAN_OVERRIDES
    summary,        \* known_bans_summary[ckey][level]
    lifted,         \* known_ban_overrides[server][ckey][level]
    at,             \* the step each goroutine is about to run
    job,            \* what it was asked
    left,           \* rows its populate has yet to read
    issued,         \* ghost: every row that was ever in a table
    mixed,          \* ghost: two goroutines were rebuilding one map at once
    torn,           \* ghost: a fetch failed since the bot was started
    errors, restarts

vars == <<bans, overrides, summary, lifted, at, job, left, issued, mixed, torn,
          errors, restarts>>

tables == <<bans, overrides, issued>>
maps == <<summary, lifted>>
faults == <<torn, errors, restarts>>

Stages == {"idle", "lookup", "update", "create", "remove", "check", "promote", "add",
           "wipe", "clear", "fetch", "collect", "clear_o", "fetch_o", "collect_o", "ended"}

Active(h) == at[h] \notin {"idle", "ended"}
Quiet == \A h \in Commands : ~Active(h)

Populates(h) == at[h] \in {"fetch", "collect"}
PopulatesOverrides(h) == at[h] \in {"fetch_o", "collect_o"}

\* The goroutines of goes go on to stage next; the last conjunct of an action.
GotoAll(goes) ==
    /\ at' = goes
    /\ mixed' = (mixed \/ \E g, h \in Commands :
                    g # h /\ \/ Populates(g)' /\ Populates(h)'
                             \/ PopulatesOverrides(g)' /\ PopulatesOverrides(h)')

Goto(h, next) == GotoAll([at EXCEPT ![h] = next])

\* The rank and the name a goroutine acts with.
RankOf(h) ==
    Level(job[h].by, IF job[h].kind = "override" THEN job[h].server ELSE AnyServer)
NameOf(h) == IF job[h].by = Bot THEN BotName ELSE CkeyOf[job[h].by]

\* The bits that rows put in the map, for one ckey and one level.
BitsOf(rows, level) == UNION {r.type : r \in {q \in rows : q.perm > level}}

BansOn(rows, ckey) == {r \in rows : r.ckey = ckey}
OverridesOn(rows, server, ckey) == {r \in rows : r.server = server /\ r.ckey = ckey}

SummaryOf(rows) == [c \in Ckeys |-> [l \in Bound |-> BitsOf(BansOn(rows, c), l)]]
LiftedOf(rows) == [s \in Servers \cup {AnyServer} |->
    [c \in Ckeys |-> [l \in Bound |-> BitsOf(OverridesOn(rows, s, c), l)]]]

Init ==
    /\ bans \in SUBSET StartBans
    /\ overrides \in SUBSET StartOverrides
    /\ summary = SummaryOf(bans)
    /\ lifted = LiftedOf(overrides)
    /\ at = [h \in Commands |-> "idle"]
    /\ job \in [Commands -> Jobs]
    /\ left = [h \in Commands |-> {}]
    /\ issued = bans \cup overrides
    /\ mixed = FALSE /\ torn = FALSE
    /\ errors = 0 /\ restarts = 0

-----------------------------------------------------------------------------
(* The commands, and update_ban from spam_check.                           *)

FirstStage == [apply |-> "lookup", lift |-> "remove", override |-> "check", wipe |-> "wipe"]

\* The dispatcher wants an admin where the command was typed, the function one
\* of the server it is about: "403 forbidden".
Command(h) ==
    /\ at[h] = "idle"
    /\ Level(job[h].by, AnyServer) >= PERMISSIONS_ADMIN
    /\ UNCHANGED <<tables, maps, job, left, faults>>
    /\ Goto(h, IF RankOf(h) < PERMISSIONS_ADMIN THEN "ended" ELSE FirstStage[job[h].kind])

\* The bans that lookup_ban and update_ban are about.
OwnBans(h) ==
    {b \in bans : b.ckey = job[h].ckey /\ b.type = job[h].type /\ b.admin = NameOf(h)}

LookupBan(h) ==
    /\ at[h] = "lookup"
    /\ UNCHANGED <<tables, maps, job, left, faults>>
    /\ Goto(h, IF OwnBans(h) # {} THEN "update" ELSE "create")

\* Bans old are replaced by bans new.
ChangeBans(h, stage, old, new, next) ==
    /\ at[h] = stage
    /\ bans' = (bans \ old) \cup new
    /\ issued' = issued \cup new
    /\ UNCHANGED <<overrides, maps, job, left, faults>>
    /\ Goto(h, next)

\* "some strange shit happened" when the bans are gone by now.
UpdateBan(h) ==
    ChangeBans(h, "update", OwnBans(h), {[b EXCEPT !.perm = RankOf(h)] : b \in OwnBans(h)},
               IF OwnBans(h) # {} THEN "clear" ELSE "ended")

\* Mutant: the columns are swapped.
NewBanSwapped(h) ==
    [ckey |-> NameOf(h), admin |-> job[h].ckey, type |-> job[h].type, perm |-> RankOf(h)]

NewBan(h) ==
    [ckey |-> job[h].ckey, admin |-> NameOf(h), type |-> job[h].type, perm |-> RankOf(h)]

CreateBan(h) == ChangeBans(h, "create", {}, {NewBan(h)}, "clear")

RemoveSome(h, gone, next) ==
    ChangeBans(h, "remove", gone, {}, IF gone # {} THEN next ELSE "ended")

Removable(h) ==
    {b \in bans : /\ b.ckey = job[h].ckey /\ b.type = job[h].type
                  /\ b.perm < RankOf(h) \/ b.admin = NameOf(h)}

\* Mutant: the map is not rebuilt after a ban was lifted.
RemoveOnly(h) == RemoveSome(h, Removable(h), "ended")

\* One's own bans and those of lower ranks.
RemoveBan(h) == RemoveSome(h, Removable(h), "clear")

OwnOverrides(h) ==
    {o \in overrides : /\ o.server = job[h].server /\ o.ckey = job[h].ckey
                       /\ o.type = job[h].type}

ChangeOverrides(h, stage, old, new, next) ==
    /\ at[h] = stage
    /\ overrides' = (overrides \ old) \cup new
    /\ issued' = issued \cup new
    /\ UNCHANGED <<bans, maps, job, left, faults>>
    /\ Goto(h, next)

\* "stronger override is in effect".
CheckOverride(h) ==
    ChangeOverrides(h, "check", {}, {},
        IF \E o \in OwnOverrides(h) : o.perm >= RankOf(h) THEN "clear_o" ELSE "promote")

PromoteOverride(h) ==
    LET weaker == {o \in OwnOverrides(h) : o.perm < RankOf(h)} IN
    ChangeOverrides(h, "promote", weaker, {[o EXCEPT !.perm = RankOf(h)] : o \in weaker},
                    IF weaker # {} THEN "clear_o" ELSE "add")

\* A new override: the map is NOT built anew.
AddOverride(h) ==
    ChangeOverrides(h, "add", {},
        {[server |-> job[h].server, ckey |-> job[h].ckey, type |-> job[h].type,
          perm |-> RankOf(h)]}, "ended")

WipeSome(h, next) ==
    LET gone == {o \in overrides : /\ o.server = job[h].server /\ o.ckey = job[h].ckey
                                   /\ o.perm <= RankOf(h)} IN
    ChangeOverrides(h, "wipe", gone, {}, IF gone # {} THEN next ELSE "ended")

\* Mutant: the map is not rebuilt after a wipe.
WipeOnly(h) == WipeSome(h, "ended")

WipeOverrides(h) == WipeSome(h, "clear_o")

-----------------------------------------------------------------------------
(* populate_bans and populate_ban_overrides.                               *)

\* The clear may end populates whose callback it hits.
ClearSummary(h) ==
    /\ at[h] = "clear"
    /\ summary' = SummaryOf({})
    /\ UNCHANGED <<tables, lifted, job, left, faults>>
    /\ \E hit \in SUBSET {g \in Commands : at[g] = "collect"} :
          GotoAll([g \in Commands |-> IF g = h THEN "fetch"
                                      ELSE IF g \in hit THEN "ended" ELSE at[g]])

Fetch(h, stage, rows, next) ==
    /\ at[h] = stage
    /\ left' = [left EXCEPT ![h] = rows]
    /\ UNCHANGED <<tables, maps, job, faults>>
    /\ Goto(h, IF rows = {} THEN "ended" ELSE next)

FetchBans(h) == Fetch(h, "fetch", bans, "collect")

\* A map entry as a callback reads it before it writes it back: what another
\* callback is adding may be missing.
Read(entry, alone) ==
    IF alone THEN {entry}
    ELSE {e \in [Bound -> SUBSET Bits] : \A l \in Bound : e[l] \subseteq entry[l]}

\* The entry with the bits of row r added for the levels below top.
Raised(entry, r, top) == [l \in Bound |-> IF l < top THEN entry[l] \cup r.type ELSE entry[l]]

\* The callback has dealt with row r.
Collected(h, stage, r) ==
    /\ left' = [left EXCEPT ![h] = @ \ {r}]
    /\ UNCHANGED <<tables, job, faults>>
    /\ Goto(h, IF left[h] = {r} THEN "ended" ELSE stage)

CollectBelow(h, r, top) ==
    /\ at[h] = "collect"
    /\ \E e \in Read(summary[r.ckey], \A g \in Commands \ {h} : ~Populates(g)) :
          summary' = [summary EXCEPT ![r.ckey] = Raised(e, r, top)]
    /\ UNCHANGED lifted
    /\ Collected(h, "collect", r)

\* Mutant: the loop over the levels starts one too high.
CollectOwnLevel(h) == \E r \in left[h] : CollectBelow(h, r, r.perm + 1)

CollectBan(h) == \E r \in left[h] : CollectBelow(h, r, r.perm)

ClearLifted(h) ==
    /\ at[h] = "clear_o"
    /\ lifted' = LiftedOf({})
    /\ UNCHANGED <<tables, summary, job, left, faults>>
    /\ \E hit \in SUBSET {g \in Commands : at[g] = "collect_o"} :
          GotoAll([g \in Commands |-> IF g = h THEN "fetch_o"
                                      ELSE IF g \in hit THEN "ended" ELSE at[g]])

FetchOverrides(h) == Fetch(h, "fetch_o", overrides, "collect_o")

CollectOverride(h) ==
    \E r \in left[h] :
        /\ at[h] = "collect_o"
        /\ \E e \in Read(lifted[r.server][r.ckey],
                         \A g \in Commands \ {h} : ~PopulatesOverrides(g)) :
              lifted' = [lifted EXCEPT ![r.server][r.ckey] = Raised(e, r, r.perm)]
        /\ UNCHANGED summary
        /\ Collected(h, "collect_o", r)

-----------------------------------------------------------------------------
(* Failing statements and restarts.                                        *)

\* The panic is recovered; a fetch that fails leaves the map empty, and one that
\* breaks between two rows short of bits: the loop over the rows ends as if there
\* were no more.
StatementFails(h) ==
    /\ errors + restarts < MaxFaults
    /\ Active(h) /\ at[h] \notin {"clear", "clear_o"}
    /\ errors' = errors + 1
    /\ torn' = (torn \/ at[h] \in {"fetch", "collect", "fetch_o", "collect_o"})
    /\ UNCHANGED <<tables, maps, job, left, restarts>>
    /\ Goto(h, "ended")

Restart ==
    /\ errors + restarts < MaxFaults
    /\ summary' = SummaryOf(bans)
    /\ lifted' = LiftedOf(overrides)
    /\ at' = [h \in Commands |-> IF Active(h) THEN "ended" ELSE at[h]]
    /\ torn' = FALSE /\ mixed' = FALSE
    /\ restarts' = restarts + 1
    /\ UNCHANGED <<tables, job, left, errors>>

-----------------------------------------------------------------------------
Next ==
    \/ \E h \in Commands :
          \/ Command(h)
          \/ LookupBan(h) \/ UpdateBan(h) \/ CreateBan(h) \/ RemoveBan(h)
          \/ CheckOverride(h) \/ PromoteOverride(h) \/ AddOverride(h) \/ WipeOverrides(h)
          \/ ClearSummary(h) \/ FetchBans(h) \/ CollectBan(h)
          \/ ClearLifted(h) \/ FetchOverrides(h) \/ CollectOverride(h)
          \/ StatementFails(h)
    \/ Restart

Spec == Init /\ [][Next]_vars

-----------------------------------------------------------------------------
(* What the maps are for.                                                  *)

\* check_bans, for a registered user.
CheckBans(ckey, server, bits) ==
    LET level == LevelOfCkeySp(ckey, server)
    IN  ((summary[ckey][level] \ lifted[server][ckey][level]) \cap bits) # {}

-----------------------------------------------------------------------------
(***************************************************************************)
(* Properties.                                                             *)
(***************************************************************************)

\* Tables, maps and locals keep their types: only a registered ckey, the
\* superuser or the bot ever issues a ban, with the rank of an admin at least.
TypeOK ==
    /\ bans \subseteq Ban /\ overrides \subseteq Override
    /\ summary \in [Ckeys -> [Bound -> SUBSET Bits]]
    /\ lifted \in [Servers \cup {AnyServer} -> [Ckeys -> [Bound -> SUBSET Bits]]]
    /\ at \in [Commands -> Stages] /\ job \in [Commands -> Jobs]
    /\ left \in [Commands -> SUBSET (Ban \cup Override)]
    /\ issued \subseteq Ban \cup Override
    /\ mixed \in BOOLEAN /\ torn \in BOOLEAN
    /\ errors \in Nat /\ restarts \in Nat /\ errors + restarts <= MaxFaults

\* The maps can be trusted: no goroutine is at work, no two rebuilt one map at
\* once and no fetch failed, since the bot was started.  Commands may have
\* overlapped in any other way, and statements that change a table failed.
Settled == Quiet /\ ~mixed /\ ~torn

\* A ckey that a row of the table binds, and that no override of the server
\* frees, is stopped: commands whose statements interleave leave no ban out
\* of the map and no wiped override in it.
BannedIsStopped ==
    Settled =>
        \A b \in bans, s \in Servers \cup {AnyServer}, t \in Bits :
            LET level == LevelOfCkeySp(b.ckey, s) IN
            /\ t \in b.type /\ b.perm > level
            /\ t \notin BitsOf(OverridesOn(overrides, s, b.ckey), level)
            => CheckBans(b.ckey, s, {t})

\* A ckey that is stopped is bound by a row that is still in the table: no
\* lifted ban stays in the map.
StoppedIsBanned ==
    Settled =>
        \A c \in Ckeys, s \in Servers \cup {AnyServer}, t \in Bits :
            CheckBans(c, s, {t}) =>
                \E b \in bans : b.ckey = c /\ t \in b.type /\ b.perm > LevelOfCkeySp(c, s)

\* Even in the middle of overlapping rebuilds, after failures and restarts, a
\* bit that stops a level was issued against that ckey by a higher rank.
OnlyHigherRanksBan ==
    \A c \in Ckeys, l \in Bound, t \in Bits :
        t \in summary[c][l] =>
            \E b \in issued \cap Ban : b.ckey = c /\ t \in b.type /\ b.perm > l
=============================================================================
