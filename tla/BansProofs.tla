----------------------------- MODULE BansProofs -----------------------------
(***************************************************************************)
(* Proofs about Bans, for any users, servers, tables and any number of     *)
(* commands that overlap, fail and are cut short by restarts.              *)
(*                                                                         *)
(* Every action is first brought down to what the invariants look at: what *)
(* it does to the table, and where the goroutine goes on (BanStep,         *)
(* OverrideStep).  What the properties rest on is the order in which       *)
(* commands work: the table changes before the map is cleared, and the map *)
(* is cleared before the table is read.                                    *)
(***************************************************************************)
EXTENDS Bans, TLAPS

USE DEF PERMISSIONS_NONE, PERMISSIONS_REGISTERED, PERMISSIONS_ADMIN,
        PERMISSIONS_MODERATOR, PERMISSIONS_SUPERUSER

-----------------------------------------------------------------------------
(* Levels and ranks.                                                       *)

LEMMA LevelsInRange ==
    ASSUME PermissionsAssumption
    PROVE  /\ \A c : \A s : LevelOfCkeySp(c, s) \in Bound
           /\ \A u \in Users : \A s : Level(u, s) \in Levels
  BY DEF PermissionsAssumption, LevelOfCkeySp, LevelOfCkey, Level, Bound, Levels

LEMMA JobsAreJobs ==
    ASSUME BansAssumption, PermissionsAssumption, TypeOK, NEW h \in Commands
    PROVE  /\ job[h] \in Job
           /\ RankOf(h) \in Levels
           /\ NameOf(h) \in Ckeys \cup {Nobody, BotName}
  <1>1. job[h] \in Job
    BY DEF BansAssumption, TypeOK
  <1>2. job[h].by \in Users
    BY <1>1 DEF Job
  <1>3. RankOf(h) \in Levels
    BY <1>2, LevelsInRange DEF RankOf
  <1>4. NameOf(h) \in Ckeys \cup {Nobody, BotName}
    BY <1>2 DEF NameOf, PermissionsAssumption
  <1> QED
    BY <1>1, <1>3, <1>4

-----------------------------------------------------------------------------
(* What a goroutine knows of its own rank and of the rows it holds.        *)

\* A goroutine that got past the dispatcher has the rank of an admin.
Ranked ==
    \A h \in Commands : Active(h) => RankOf(h) \in Ranks

\* No row appears out of nothing: those of the table were issued, and those a
\* callback has yet to file came from the table.
RowsAreIssued ==
    /\ bans \subseteq issued
    /\ \A h \in Commands : /\ at[h] = "collect" => left[h] \subseteq issued \cap Ban
                           /\ at[h] = "collect_o" => left[h] \subseteq Override

-----------------------------------------------------------------------------
(* What the commands do, as far as the invariants look.                    *)

\* A step of a ban command that may change its table: only on the way to a
\* rebuild, and what is new is a ban issued just now.
BanStep(h) ==
    \E next \in {"update", "create", "clear", "ended"} :
        /\ at[h] \in {"lookup", "update", "create", "remove"}
        /\ Goto(h, next)
        /\ next = "clear" \/ bans' = bans
        /\ bans' \subseteq Ban
        /\ issued \subseteq issued'
        /\ issued' \subseteq Ban \cup Override
        /\ bans' \subseteq issued'
        /\ UNCHANGED <<overrides, maps, job, left, faults>>

\* The same for overrides, but that an override may be added without a rebuild.
OverrideStep(h) ==
    \E next \in {"promote", "add", "clear_o", "ended"} :
        /\ at[h] \in {"check", "promote", "add", "wipe"}
        /\ Goto(h, next)
        /\ next = "clear_o" \/ overrides \subseteq overrides'
        /\ overrides' \subseteq Override
        /\ issued \subseteq issued'
        /\ issued' \subseteq Ban \cup Override
        /\ UNCHANGED <<bans, maps, job, left, faults>>

LEMMA BanSteps ==
    ASSUME BansAssumption, PermissionsAssumption, TypeOK, Ranked, RowsAreIssued,
           NEW h \in Commands,
           LookupBan(h) \/ UpdateBan(h) \/ CreateBan(h) \/ RemoveBan(h)
    PROVE  BanStep(h)
  <1> USE JobsAreJobs
  <1>a. ASSUME NEW old, NEW new \in SUBSET Ban, NEW stage, NEW next,
               ChangeBans(h, stage, old, new, next),
               stage \in {"update", "create", "remove"}, next \in {"clear", "ended"},
               next = "ended" => old \cap bans = {} /\ new \subseteq bans
        PROVE  BanStep(h)
    <2>1. bans' = (bans \ old) \cup new /\ issued' = issued \cup new
      BY <1>a DEF ChangeBans
    <2>2. next = "clear" \/ bans' = bans
      BY <1>a, <2>1
    <2>3. bans' \subseteq Ban /\ issued \subseteq issued' /\ bans' \subseteq issued'
      BY <2>1, <1>a DEF TypeOK, RowsAreIssued
    <2>4. issued' \subseteq Ban \cup Override
      BY <2>1, <1>a DEF TypeOK
    <2> QED
      BY <1>a, <2>2, <2>3, <2>4 DEF ChangeBans, BanStep
  <1>1. CASE LookupBan(h)
    <2>1. UNCHANGED <<bans, issued>>
      BY <1>1 DEF LookupBan, tables
    <2>2. bans' \subseteq Ban /\ issued' \subseteq Ban \cup Override /\ bans' \subseteq issued'
      BY <2>1 DEF TypeOK, RowsAreIssued
    <2> QED
      BY <1>1, <2>1, <2>2 DEF LookupBan, BanStep, tables
  <1>2. CASE UpdateBan(h)
    <2> DEFINE new == {[b EXCEPT !.perm = RankOf(h)] : b \in OwnBans(h)}
    <2>1. RankOf(h) \in Ranks
      BY <1>2 DEF UpdateBan, ChangeBans, Ranked, Active
    <2>2. OwnBans(h) \subseteq Ban
      BY DEF OwnBans, TypeOK
    <2>3. new \subseteq Ban
      BY <2>1, <2>2 DEF Ban
    <2> HIDE DEF new
    <2>4. ChangeBans(h, "update", OwnBans(h), new, IF OwnBans(h) # {} THEN "clear" ELSE "ended")
      BY <1>2 DEF UpdateBan, new
    <2>5. OwnBans(h) = {} => new = {}
      BY DEF new
    <2> QED
      BY <1>a, <2>3, <2>4, <2>5
  <1>3. CASE CreateBan(h)
    <2>1. RankOf(h) \in Ranks
      BY <1>3 DEF CreateBan, ChangeBans, Ranked, Active
    <2>2. NewBan(h) \in Ban
      BY <2>1 DEF NewBan, Ban, Job
    <2> QED
      BY <1>a, <2>2, <1>3 DEF CreateBan
  <1>4. CASE RemoveBan(h)
    BY <1>a, <1>4 DEF RemoveBan, RemoveSome
  <1> QED
    BY <1>1, <1>2, <1>3, <1>4

LEMMA OverrideSteps ==
    ASSUME BansAssumption, PermissionsAssumption, TypeOK, Ranked, NEW h \in Commands,
           CheckOverride(h) \/ PromoteOverride(h) \/ AddOverride(h) \/ WipeOverrides(h)
    PROVE  OverrideStep(h)
  <1> USE JobsAreJobs
  <1>a. ASSUME NEW old, NEW new \in SUBSET Override, NEW stage, NEW next,
               ChangeOverrides(h, stage, old, new, next),
               stage \in {"check", "promote", "add", "wipe"},
               next \in {"promote", "add", "clear_o", "ended"},
               next = "clear_o" \/ old \cap overrides = {}
        PROVE  OverrideStep(h)
    <2>1. overrides' = (overrides \ old) \cup new /\ issued' = issued \cup new
      BY <1>a DEF ChangeOverrides
    <2>2. next = "clear_o" \/ overrides \subseteq overrides'
      BY <1>a, <2>1
    <2>3. overrides' \subseteq Override /\ issued \subseteq issued'
      BY <2>1, <1>a DEF TypeOK
    <2>4. issued' \subseteq Ban \cup Override
      BY <2>1, <1>a DEF TypeOK
    <2> QED
      BY <1>a, <2>2, <2>3, <2>4 DEF ChangeOverrides, OverrideStep
  <1>0. ASSUME NEW stage \in {"check", "promote", "add", "wipe"}, at[h] = stage
        PROVE  RankOf(h) \in Ranks
    BY <1>0 DEF Ranked, Active
  <1>1. CASE CheckOverride(h)
    BY <1>a, <1>1 DEF CheckOverride
  <1>2. CASE PromoteOverride(h)
    <2> DEFINE weaker == {o \in OwnOverrides(h) : o.perm < RankOf(h)}
               new == {[o EXCEPT !.perm = RankOf(h)] : o \in weaker}
    <2>1. RankOf(h) \in Ranks
      BY <1>2, <1>0 DEF PromoteOverride, ChangeOverrides
    <2>2. weaker \subseteq Override
      BY DEF OwnOverrides, TypeOK
    <2>3. new \subseteq Override
      BY <2>1, <2>2 DEF Override
    <2>4. ChangeOverrides(h, "promote", weaker, new, IF weaker # {} THEN "clear_o" ELSE "add")
      BY <1>2 DEF PromoteOverride
    <2> HIDE DEF new, weaker
    <2> QED
      BY <1>a, <2>3, <2>4
  <1>3. CASE AddOverride(h)
    <2> DEFINE new == [server |-> job[h].server, ckey |-> job[h].ckey, type |-> job[h].type,
                       perm |-> RankOf(h)]
    <2>1. RankOf(h) \in Ranks
      BY <1>3, <1>0 DEF AddOverride, ChangeOverrides
    <2>2. new \in Override
      BY <2>1 DEF Override, Job
    <2>3. ChangeOverrides(h, "add", {}, {new}, "ended")
      BY <1>3 DEF AddOverride
    <2> HIDE DEF new
    <2> QED
      BY <1>a, <2>2, <2>3
  <1>4. CASE WipeOverrides(h)
    BY <1>a, <1>4 DEF WipeOverrides, WipeSome
  <1> QED
    BY <1>1, <1>2, <1>3, <1>4

-----------------------------------------------------------------------------
(* What populates do to the maps.                                          *)

\* However two callbacks meet, what one reads of an entry is part of it.
LEMMA ReadIsPart ==
    ASSUME NEW entry \in [Bound -> SUBSET Bits], NEW alone \in BOOLEAN,
           NEW e \in Read(entry, alone)
    PROVE  /\ e \in [Bound -> SUBSET Bits]
           /\ \A l \in Bound : e[l] \subseteq entry[l]
           /\ alone => e = entry
  BY DEF Read

\* The entry afterwards has the types of r at every level below, and no more.
LEMMA RaisedByRow ==
    ASSUME NEW e \in [Bound -> SUBSET Bits], NEW r, r.type \in SUBSET Bits, NEW top \in Ranks
    PROVE  /\ Raised(e, r, top) \in [Bound -> SUBSET Bits]
           /\ \A l \in Bound : Raised(e, r, top)[l] = e[l] \cup (IF l < top THEN r.type ELSE {})
  <1>1. \A l \in Bound : (IF l < top THEN e[l] \cup r.type ELSE e[l])
                            = e[l] \cup (IF l < top THEN r.type ELSE {})
    OBVIOUS
  <1>2. \A l \in Bound : e[l] \cup (IF l < top THEN r.type ELSE {}) \in SUBSET Bits
    OBVIOUS
  <1> QED
    BY <1>1, <1>2 DEF Raised

\* The bits of rows are those of one of them and those of the others.
LEMMA BitsOfSplit ==
    ASSUME NEW rows, NEW r \in rows, NEW level
    PROVE  BitsOf(rows, level)
             = BitsOf(rows \ {r}, level) \cup (IF r.perm > level THEN r.type ELSE {})
  BY DEF BitsOf

LEMMA NoBits ==
    ASSUME NEW level
    PROVE  BitsOf({}, level) = {}
  BY DEF BitsOf

LEMMA BitsGrow ==
    ASSUME NEW rows, NEW more, rows \subseteq more, NEW level
    PROVE  BitsOf(rows, level) \subseteq BitsOf(more, level)
  BY DEF BitsOf

LEMMA MapsOfTables ==
    /\ \A rows \in SUBSET Ban : SummaryOf(rows) \in [Ckeys -> [Bound -> SUBSET Bits]]
    /\ \A rows \in SUBSET Override :
          LiftedOf(rows) \in [Servers \cup {AnyServer} -> [Ckeys -> [Bound -> SUBSET Bits]]]
  <1>1. ASSUME NEW rows \in SUBSET Ban, NEW c \in Ckeys, NEW l \in Bound
        PROVE  BitsOf(BansOn(rows, c), l) \in SUBSET Bits
    BY DEF BitsOf, BansOn, Ban
  <1>2. ASSUME NEW rows \in SUBSET Override, NEW s, NEW c, NEW l
        PROVE  BitsOf(OverridesOn(rows, s, c), l) \in SUBSET Bits
    BY DEF BitsOf, OverridesOn, Override
  <1> QED
    BY <1>1, <1>2 DEF SummaryOf, LiftedOf

\* A callback that files ban r, at an entry e it has read.
LEMMA BanFiled ==
    ASSUME TypeOK, RowsAreIssued, NEW h \in Commands, CollectBan(h)
    PROVE  \E r \in left[h], e \in [Bound -> SUBSET Bits] :
              /\ r \in Ban /\ r \in issued
              /\ at[h] = "collect"
              /\ e \in Read(summary[r.ckey], \A g \in Commands \ {h} : ~Populates(g))
              /\ \A l \in Bound : e[l] \subseteq summary[r.ckey][l]
              /\ summary' = [summary EXCEPT ![r.ckey] = Raised(e, r, r.perm)]
              /\ UNCHANGED lifted
              /\ Collected(h, "collect", r)
  <1>1. PICK r \in left[h] : CollectBelow(h, r, r.perm)
    BY DEF CollectBan
  <1>2. r \in Ban /\ r \in issued /\ r.ckey \in Ckeys
    BY <1>1 DEF CollectBelow, RowsAreIssued, Ban
  <1>3. PICK e \in Read(summary[r.ckey], \A g \in Commands \ {h} : ~Populates(g)) :
            summary' = [summary EXCEPT ![r.ckey] = Raised(e, r, r.perm)]
    BY <1>1 DEF CollectBelow
  <1>4. summary[r.ckey] \in [Bound -> SUBSET Bits]
    BY <1>2 DEF TypeOK
  <1>5. (\A g \in Commands \ {h} : ~Populates(g)) \in BOOLEAN
    OBVIOUS
  <1>6. e \in [Bound -> SUBSET Bits] /\ \A l \in Bound : e[l] \subseteq summary[r.ckey][l]
    BY <1>3, <1>4, <1>5, ReadIsPart
  <1> QED
    BY <1>1, <1>2, <1>3, <1>6 DEF CollectBelow

LEMMA OverrideFiled ==
    ASSUME TypeOK, RowsAreIssued, NEW h \in Commands, CollectOverride(h)
    PROVE  \E r \in left[h], e \in [Bound -> SUBSET Bits] :
              /\ r \in Override
              /\ at[h] = "collect_o"
              /\ \A l \in Bound : e[l] \subseteq lifted[r.server][r.ckey][l]
              /\ lifted' = [lifted EXCEPT ![r.server][r.ckey] = Raised(e, r, r.perm)]
              /\ UNCHANGED summary
              /\ Collected(h, "collect_o", r)
  <1>1. PICK r \in left[h] :
            /\ at[h] = "collect_o"
            /\ \E e \in Read(lifted[r.server][r.ckey],
                             \A g \in Commands \ {h} : ~PopulatesOverrides(g)) :
                  lifted' = [lifted EXCEPT ![r.server][r.ckey] = Raised(e, r, r.perm)]
            /\ UNCHANGED summary
            /\ Collected(h, "collect_o", r)
    BY DEF CollectOverride
  <1>2. r \in Override /\ r.ckey \in Ckeys /\ r.server \in Servers \cup {AnyServer}
    BY <1>1 DEF RowsAreIssued, Override
  <1>3. PICK e \in Read(lifted[r.server][r.ckey],
                        \A g \in Commands \ {h} : ~PopulatesOverrides(g)) :
            lifted' = [lifted EXCEPT ![r.server][r.ckey] = Raised(e, r, r.perm)]
    BY <1>1
  <1>4. lifted[r.server][r.ckey] \in [Bound -> SUBSET Bits]
    BY <1>2 DEF TypeOK
  <1>5. (\A g \in Commands \ {h} : ~PopulatesOverrides(g)) \in BOOLEAN
    OBVIOUS
  <1>6. e \in [Bound -> SUBSET Bits] /\ \A l \in Bound : e[l] \subseteq lifted[r.server][r.ckey][l]
    BY <1>3, <1>4, <1>5, ReadIsPart
  <1> QED
    BY <1>1, <1>2, <1>3, <1>6

-----------------------------------------------------------------------------
(* Types, ranks and rows.                                                  *)

Base == TypeOK /\ Ranked /\ RowsAreIssued

\* Any step of a goroutine to stage next keeps the types of at and mixed.
LEMMA GotoTypes ==
    ASSUME TypeOK, NEW h \in Commands, NEW next \in Stages, Goto(h, next)
    PROVE  /\ at' = [at EXCEPT ![h] = next]
           /\ at' \in [Commands -> Stages]
           /\ mixed' \in BOOLEAN
  BY DEF Goto, GotoAll, TypeOK

LEMMA BaseStarts ==
    ASSUME BansAssumption, PermissionsAssumption
    PROVE  Init => Base
  <1> SUFFICES ASSUME Init
               PROVE  Base
    OBVIOUS
  <1>1. bans \in SUBSET Ban /\ overrides \in SUBSET Override
    BY DEF Init, BansAssumption
  <1>2. summary \in [Ckeys -> [Bound -> SUBSET Bits]]
    BY <1>1, MapsOfTables DEF Init
  <1>3. lifted \in [Servers \cup {AnyServer} -> [Ckeys -> [Bound -> SUBSET Bits]]]
    BY <1>1, MapsOfTables DEF Init
  <1>4. errors \in Nat /\ restarts \in Nat /\ errors + restarts <= MaxFaults
    BY DEF Init, BansAssumption
  <1>5. left \in [Commands -> SUBSET (Ban \cup Override)] /\ at \in [Commands -> Stages]
    BY DEF Init, Stages
  <1>6. TypeOK
    BY <1>1, <1>2, <1>3, <1>4, <1>5 DEF Init, TypeOK
  <1>7. Ranked
    BY DEF Init, Ranked, Active
  <1>8. RowsAreIssued
    BY DEF Init, RowsAreIssued
  <1> QED
    BY <1>6, <1>7, <1>8 DEF Base

\* RankOf looks at nothing a step may change; a goroutine is active that was,
\* or that the dispatcher let through.
LEMMA RankedKept ==
    ASSUME Ranked, UNCHANGED job,
           \A h \in Commands : Active(h)' => Active(h) \/ RankOf(h) \in Ranks
    PROVE  Ranked'
  BY DEF Ranked, RankOf

\* A goroutine that files rows did so before, or has just fetched them.
LEMMA RowsKept ==
    ASSUME RowsAreIssued, bans' \subseteq issued', issued \subseteq issued',
           \A h \in Commands :
              /\ at'[h] = "collect" => \/ at[h] = "collect" /\ left'[h] \subseteq left[h]
                                       \/ left'[h] \subseteq issued \cap Ban
              /\ at'[h] = "collect_o" => \/ at[h] = "collect_o" /\ left'[h] \subseteq left[h]
                                         \/ left'[h] \subseteq Override
    PROVE  RowsAreIssued'
  BY DEF RowsAreIssued

LEMMA BaseKept ==
    ASSUME BansAssumption, PermissionsAssumption, Base, [Next]_vars
    PROVE  Base'
  <1> USE DEF Base
  <1>0. TypeOK /\ Ranked /\ RowsAreIssued
    OBVIOUS
  <1>1. ASSUME NEW h \in Commands, Command(h)
        PROVE  Base'
    <2>1. PICK next \in Stages : Goto(h, next) /\ next = (IF RankOf(h) < PERMISSIONS_ADMIN
                                      THEN "ended" ELSE FirstStage[job[h].kind])
      <3>1. job[h].kind \in {"apply", "lift", "override", "wipe"}
        BY JobsAreJobs DEF Job
      <3> QED
        BY <1>1, <3>1 DEF Command, FirstStage, Stages
    <2>2. next \notin {"collect", "collect_o"}
      <3>1. job[h].kind \in {"apply", "lift", "override", "wipe"}
        BY JobsAreJobs DEF Job
      <3> QED
        BY <2>1, <3>1 DEF FirstStage
    <2>3. RankOf(h) \in Levels
      BY JobsAreJobs
    <2>4. TypeOK'
      BY <1>1, <2>1, GotoTypes DEF Command, TypeOK, tables, maps, faults
    <2>5. Ranked'
      BY <1>1, <2>1, <2>3, GotoTypes, RankedKept DEF Command, Active, Levels, Ranks, TypeOK
    <2>6. RowsAreIssued'
      BY <1>1, <2>1, <2>2, GotoTypes DEF Command, RowsAreIssued, tables, TypeOK
    <2> QED
      BY <2>4, <2>5, <2>6
  <1>2. ASSUME NEW h \in Commands, BanStep(h)
        PROVE  Base'
    <2>1. PICK next \in {"update", "create", "clear", "ended"} :
              /\ at[h] \in {"lookup", "update", "create", "remove"}
              /\ Goto(h, next)
              /\ bans' \subseteq Ban
              /\ issued \subseteq issued'
              /\ issued' \subseteq Ban \cup Override
              /\ bans' \subseteq issued'
              /\ UNCHANGED <<overrides, maps, job, left, faults>>
      BY <1>2 DEF BanStep
    <2>2. next \in Stages
      BY DEF Stages
    <2>3. TypeOK'
      BY <2>1, <2>2, GotoTypes DEF TypeOK, maps, faults
    <2>4. Ranked'
      BY <2>1, <2>2, GotoTypes, RankedKept DEF Active, TypeOK
    <2>5. RowsAreIssued'
      BY <2>1, <2>2, GotoTypes, RowsKept DEF TypeOK
    <2> QED
      BY <2>3, <2>4, <2>5
  <1>3. ASSUME NEW h \in Commands, OverrideStep(h)
        PROVE  Base'
    <2>1. PICK next \in {"promote", "add", "clear_o", "ended"} :
              /\ at[h] \in {"check", "promote", "add", "wipe"}
              /\ Goto(h, next)
              /\ overrides' \subseteq Override
              /\ issued \subseteq issued'
              /\ issued' \subseteq Ban \cup Override
              /\ UNCHANGED <<bans, maps, job, left, faults>>
      BY <1>3 DEF OverrideStep
    <2>2. next \in Stages
      BY DEF Stages
    <2>3. TypeOK'
      BY <2>1, <2>2, GotoTypes DEF TypeOK, maps, faults
    <2>4. Ranked'
      BY <2>1, <2>2, GotoTypes, RankedKept DEF Active, TypeOK
    <2>5. bans' \subseteq issued'
      BY <2>1 DEF RowsAreIssued
    <2>6. RowsAreIssued'
      BY <2>1, <2>2, <2>5, GotoTypes, RowsKept DEF TypeOK
    <2> QED
      BY <2>3, <2>4, <2>6
  <1>4. ASSUME NEW h \in Commands, NEW stage, NEW next,
               \/ ClearSummary(h) /\ stage = "collect" /\ next = "fetch"
               \/ ClearLifted(h) /\ stage = "collect_o" /\ next = "fetch_o"
        PROVE  Base'
    <2>1. PICK hit \in SUBSET {g \in Commands : at[g] = stage} :
              at' = [g \in Commands |-> IF g = h THEN next ELSE IF g \in hit THEN "ended" ELSE at[g]]
      BY <1>4 DEF ClearSummary, ClearLifted, GotoAll
    <2>2. Active(h)
      BY <1>4 DEF ClearSummary, ClearLifted, Active
    <2>3. SummaryOf({}) \in [Ckeys -> [Bound -> SUBSET Bits]]
          /\ LiftedOf({}) \in [Servers \cup {AnyServer} -> [Ckeys -> [Bound -> SUBSET Bits]]]
      BY MapsOfTables
    <2>4. /\ summary' \in [Ckeys -> [Bound -> SUBSET Bits]]
          /\ lifted' \in [Servers \cup {AnyServer} -> [Ckeys -> [Bound -> SUBSET Bits]]]
          /\ mixed' \in BOOLEAN
          /\ UNCHANGED <<tables, job, left, faults>>
      BY <1>4, <2>3 DEF ClearSummary, ClearLifted, TypeOK, GotoAll
    <2>5. at' \in [Commands -> Stages]
      BY <1>4, <2>1 DEF TypeOK, Stages
    <2>6. TypeOK'
      BY <2>4, <2>5 DEF TypeOK, tables, faults
    <2>7. Ranked'
      BY <1>4, <2>1, <2>2, <2>4, RankedKept DEF Active, Ranked
    <2>8. RowsAreIssued'
      BY <1>4, <2>1, <2>4 DEF RowsAreIssued, tables
    <2> QED
      BY <2>6, <2>7, <2>8
  <1>5. ASSUME NEW h \in Commands, FetchBans(h) \/ FetchOverrides(h)
        PROVE  Base'
    <2>1. PICK next \in {"ended", "collect", "collect_o"} :
              /\ Goto(h, next)
              /\ Active(h)
              /\ \/ next = "collect" /\ left' = [left EXCEPT ![h] = bans]
                 \/ next = "collect_o" /\ left' = [left EXCEPT ![h] = overrides]
                 \/ next = "ended" /\ left' = [left EXCEPT ![h] = {}]
              /\ UNCHANGED <<tables, maps, job, faults>>
      BY <1>5 DEF FetchBans, FetchOverrides, Fetch, Active
    <2>2. next \in Stages
      BY DEF Stages
    <2>3. left' \in [Commands -> SUBSET (Ban \cup Override)]
      BY <2>1 DEF TypeOK
    <2>4. TypeOK'
      BY <2>1, <2>2, <2>3, GotoTypes DEF TypeOK, tables, maps, faults
    <2>5. Ranked'
      BY <2>1, <2>2, GotoTypes, RankedKept DEF Active, Ranked, TypeOK
    <2>6. bans \subseteq issued /\ bans' = bans /\ issued' = issued
      BY <2>1 DEF RowsAreIssued, tables
    <2>7. RowsAreIssued'
      BY <2>1, <2>2, <2>6, GotoTypes, RowsKept DEF TypeOK
    <2> QED
      BY <2>4, <2>5, <2>7
  <1>6. ASSUME NEW h \in Commands, NEW r \in left[h], NEW stage \in {"collect", "collect_o"},
               at[h] = stage, Collected(h, stage, r),
               summary' \in [Ckeys -> [Bound -> SUBSET Bits]],
               lifted' \in [Servers \cup {AnyServer} -> [Ckeys -> [Bound -> SUBSET Bits]]]
        PROVE  Base'
    <2>1. PICK next \in {stage, "ended"} : Goto(h, next)
      BY <1>6 DEF Collected
    <2>2. next \in Stages
      BY DEF Stages
    <2>3. left' = [left EXCEPT ![h] = left[h] \ {r}] /\ UNCHANGED <<tables, job, faults>>
      BY <1>6 DEF Collected
    <2>4. left' \in [Commands -> SUBSET (Ban \cup Override)]
      BY <2>3 DEF TypeOK
    <2>5. TypeOK'
      BY <1>6, <2>1, <2>2, <2>3, <2>4, GotoTypes DEF TypeOK, tables, faults
    <2>6. Ranked'
      BY <1>6, <2>1, <2>2, <2>3, GotoTypes, RankedKept DEF Active, Ranked, TypeOK
    <2>7. RowsAreIssued'
      BY <1>6, <2>1, <2>2, <2>3, GotoTypes DEF RowsAreIssued, TypeOK, tables
    <2> QED
      BY <2>5, <2>6, <2>7
  <1>7. ASSUME NEW h \in Commands, CollectBan(h)
        PROVE  Base'
    <2>1. PICK r \in left[h], e \in [Bound -> SUBSET Bits] :
              /\ r \in Ban /\ at[h] = "collect"
              /\ summary' = [summary EXCEPT ![r.ckey] = Raised(e, r, r.perm)]
              /\ UNCHANGED lifted
              /\ Collected(h, "collect", r)
      BY <1>0, <1>7, BanFiled
    <2>2. r.type \in SUBSET Bits /\ r.perm \in Ranks
      BY <2>1 DEF Ban
    <2>3. Raised(e, r, r.perm) \in [Bound -> SUBSET Bits]
      BY <2>2, RaisedByRow
    <2>4. summary' \in [Ckeys -> [Bound -> SUBSET Bits]]
      BY <2>1, <2>3 DEF TypeOK
    <2>5. lifted' \in [Servers \cup {AnyServer} -> [Ckeys -> [Bound -> SUBSET Bits]]]
      BY <2>1 DEF TypeOK
    <2> QED
      BY <1>6, <2>1, <2>4, <2>5
  <1>8. ASSUME NEW h \in Commands, CollectOverride(h)
        PROVE  Base'
    <2>1. PICK r \in left[h], e \in [Bound -> SUBSET Bits] :
              /\ r \in Override /\ at[h] = "collect_o"
              /\ lifted' = [lifted EXCEPT ![r.server][r.ckey] = Raised(e, r, r.perm)]
              /\ UNCHANGED summary
              /\ Collected(h, "collect_o", r)
      BY <1>0, <1>8, OverrideFiled
    <2>2. r.type \in SUBSET Bits /\ r.perm \in Ranks
      BY <2>1 DEF Override
    <2>3. Raised(e, r, r.perm) \in [Bound -> SUBSET Bits]
      BY <2>2, RaisedByRow
    <2>4. lifted' \in [Servers \cup {AnyServer} -> [Ckeys -> [Bound -> SUBSET Bits]]]
      BY <2>1, <2>3 DEF TypeOK
    <2>5. summary' \in [Ckeys -> [Bound -> SUBSET Bits]]
      BY <2>1 DEF TypeOK
    <2> QED
      BY <1>6, <2>1, <2>4, <2>5
  <1>9. ASSUME NEW h \in Commands, StatementFails(h)
        PROVE  Base'
    <2>1. Goto(h, "ended") /\ "ended" \in Stages
      BY <1>9 DEF StatementFails, Stages
    <2>2. TypeOK'
      BY <1>9, <2>1, GotoTypes, BansAssumption
      DEF StatementFails, TypeOK, tables, maps, BansAssumption
    <2>3. Ranked'
      BY <1>9, <2>1, GotoTypes, RankedKept DEF StatementFails, Active, TypeOK
    <2>4. RowsAreIssued'
      <3>1. bans \subseteq issued /\ bans' = bans /\ issued' = issued /\ left' = left
        BY <1>9 DEF StatementFails, RowsAreIssued, tables
      <3> QED
        BY <2>1, <3>1, GotoTypes, RowsKept DEF TypeOK
    <2> QED
      BY <2>2, <2>3, <2>4
  <1>10. CASE Restart
    <2>1. /\ summary' \in [Ckeys -> [Bound -> SUBSET Bits]]
          /\ lifted' \in [Servers \cup {AnyServer} -> [Ckeys -> [Bound -> SUBSET Bits]]]
      BY <1>10, MapsOfTables DEF Restart, TypeOK
    <2>2. at' \in [Commands -> Stages]
      BY <1>10 DEF Restart, TypeOK, Stages
    <2>3. TypeOK'
      <3>1. errors' \in Nat /\ restarts' \in Nat /\ errors' + restarts' <= MaxFaults
        BY <1>10 DEF Restart, TypeOK, BansAssumption
      <3>2. mixed' \in BOOLEAN /\ torn' \in BOOLEAN
        BY <1>10 DEF Restart
      <3>3. UNCHANGED <<bans, overrides, issued, job, left>>
        BY <1>10 DEF Restart, tables
      <3> QED
        BY <2>1, <2>2, <3>1, <3>2, <3>3 DEF TypeOK
    <2>4. Ranked'
      BY <1>10, RankedKept DEF Restart, Active
    <2>5. RowsAreIssued'
      BY <1>10 DEF Restart, Active, RowsAreIssued, tables
    <2> QED
      BY <2>3, <2>4, <2>5
  <1>11. CASE UNCHANGED vars
    BY <1>11 DEF vars, TypeOK, Ranked, RankOf, Active, RowsAreIssued
  <1> QED
    BY <1>0, <1>1, <1>2, <1>3, <1>4, <1>5, <1>7, <1>8, <1>9, <1>10, <1>11, BanSteps,
       OverrideSteps DEF Next

\* Tables, maps and locals keep their types, for any tables, jobs and number of
\* goroutines (discord_main.go:910-1087).
THEOREM BansTypeCorrect == Spec => []TypeOK
  <1>1. Spec => []Base
    BY BaseStarts, BaseKept, BansAssumption, PermissionsAssumption, PTL DEF Spec
  <1>2. Base => TypeOK
    BY DEF Base
  <1> QED
    BY <1>1, <1>2, PTL

-----------------------------------------------------------------------------
(* OnlyHigherRanksBan: no step puts a bit in the map that its row lacks.   *)

LEMMA RanksStart ==
    ASSUME Init, Base
    PROVE  OnlyHigherRanksBan
  <1>1. \A c \in Ckeys, l \in Bound, t \in Bits :
            t \in summary[c][l] => \E b \in bans : b.ckey = c /\ t \in b.type /\ b.perm > l
    BY DEF Init, SummaryOf, BitsOf, BansOn
  <1> QED
    BY <1>1 DEF OnlyHigherRanksBan, Base, TypeOK, RowsAreIssued

LEMMA RanksKept ==
    ASSUME BansAssumption, PermissionsAssumption, Base, OnlyHigherRanksBan, [Next]_vars
    PROVE  OnlyHigherRanksBan'
  <1>0. TypeOK /\ Ranked /\ RowsAreIssued
    BY DEF Base
  <1>a. ASSUME UNCHANGED summary, issued \subseteq issued'
        PROVE  OnlyHigherRanksBan'
    BY <1>a DEF OnlyHigherRanksBan
  <1>b. ASSUME summary' = SummaryOf({}), UNCHANGED issued
        PROVE  OnlyHigherRanksBan'
    BY <1>b DEF OnlyHigherRanksBan, SummaryOf, BitsOf, BansOn
  <1>1. ASSUME NEW h \in Commands,
               BanStep(h) \/ OverrideStep(h)
        PROVE  OnlyHigherRanksBan'
    BY <1>1, <1>a DEF BanStep, OverrideStep, maps
  <1>2. ASSUME NEW h \in Commands,
               \/ Command(h) \/ FetchBans(h) \/ ClearLifted(h) \/ FetchOverrides(h)
               \/ StatementFails(h)
        PROVE  OnlyHigherRanksBan'
    BY <1>2, <1>a DEF Command, FetchBans, Fetch, ClearLifted, FetchOverrides, StatementFails,
                      maps, tables
  <1>3. ASSUME NEW h \in Commands, CollectOverride(h)
        PROVE  OnlyHigherRanksBan'
    BY <1>3, <1>a DEF CollectOverride, Collected, tables
  <1>4. ASSUME NEW h \in Commands, ClearSummary(h)
        PROVE  OnlyHigherRanksBan'
    BY <1>4, <1>b DEF ClearSummary, tables
  <1>5. ASSUME NEW h \in Commands, CollectBan(h)
        PROVE  OnlyHigherRanksBan'
    <2>1. PICK r \in left[h], e \in [Bound -> SUBSET Bits] :
              /\ r \in Ban /\ r \in issued
              /\ \A l \in Bound : e[l] \subseteq summary[r.ckey][l]
              /\ summary' = [summary EXCEPT ![r.ckey] = Raised(e, r, r.perm)]
              /\ Collected(h, "collect", r)
      BY <1>0, <1>5, BanFiled
    <2>2. r.type \in SUBSET Bits /\ r.perm \in Ranks
      BY <2>1 DEF Ban
    <2>3. \A l \in Bound : Raised(e, r, r.perm)[l] = e[l] \cup (IF l < r.perm THEN r.type ELSE {})
      BY <2>2, RaisedByRow
    <2>4. UNCHANGED issued
      BY <2>1 DEF Collected, tables
    <2>5. ASSUME NEW c \in Ckeys, NEW l \in Bound, NEW t \in Bits, t \in summary'[c][l]
          PROVE  \E b \in issued \cap Ban : b.ckey = c /\ t \in b.type /\ b.perm > l
      <3>1. CASE t \in summary[c][l]
        BY <3>1 DEF OnlyHigherRanksBan
      <3>2. CASE t \notin summary[c][l]
        <4>1. c = r.ckey
          BY <2>1, <2>5, <3>2, <1>0 DEF TypeOK
        <4>2. t \in Raised(e, r, r.perm)[l] /\ t \notin e[l]
          BY <2>1, <2>5, <3>2, <4>1, <1>0 DEF TypeOK
        <4>3. l < r.perm /\ t \in r.type
          BY <2>3, <4>2
        <4> QED
          BY <2>1, <2>2, <4>1, <4>3 DEF Ranks, Bound
      <3> QED
        BY <3>1, <3>2
    <2> QED
      BY <2>4, <2>5 DEF OnlyHigherRanksBan
  <1>6. CASE Restart
    <2>1. \A c \in Ckeys, l \in Bound, t \in Bits :
              t \in summary'[c][l] => \E b \in bans : b.ckey = c /\ t \in b.type /\ b.perm > l
      BY <1>6 DEF Restart, SummaryOf, BitsOf, BansOn
    <2>2. bans \subseteq issued' \cap Ban
      BY <1>0, <1>6 DEF Restart, tables, TypeOK, RowsAreIssued
    <2> QED
      BY <2>1, <2>2 DEF OnlyHigherRanksBan
  <1>7. CASE UNCHANGED vars
    BY <1>7, <1>a DEF vars
  <1> QED
    BY <1>0, <1>1, <1>2, <1>3, <1>4, <1>5, <1>6, <1>7, BanSteps, OverrideSteps DEF Next

\* discord_main.go:1021-1064: in the middle of overlapping rebuilds too, after
\* failures and restarts, a bit that stops a level was issued by a higher rank.
THEOREM HigherRanksBan == Spec => []OnlyHigherRanksBan
  <1>1. Init => Base /\ OnlyHigherRanksBan
    BY BaseStarts, RanksStart, BansAssumption, PermissionsAssumption
  <1>2. Base /\ OnlyHigherRanksBan /\ [Next]_vars => (Base /\ OnlyHigherRanksBan)'
    BY BaseKept, RanksKept, BansAssumption, PermissionsAssumption
  <1> QED
    BY <1>1, <1>2, PTL DEF Spec

-----------------------------------------------------------------------------
(* The maps and the tables.                                                *)

\* Unless two goroutines ever rebuilt one map at once, at most one is about it.
OneByOne ==
    ~mixed => \A g, h \in Commands : \/ Populates(g) /\ Populates(h)
                                     \/ PopulatesOverrides(g) /\ PopulatesOverrides(h)
                                     => g = h

Clearing == \E h \in Commands : at[h] = "clear"

\* What the map has and what h has yet to file is what the table has.
Filling(h) == \A c \in Ckeys, l \in Bound :
    summary[c][l] \cup BitsOf(BansOn(left[h], c), l) = BitsOf(BansOn(bans, c), l)

\* The map of bans is that of the table, or will be cleared, is empty and about
\* to be filled, or is being filled.
SummaryIsRebuilt ==
    ~mixed /\ ~torn =>
        /\ \A h \in Commands : at[h] = "fetch" => summary = SummaryOf({})
        /\ \A h \in Commands : at[h] = "collect" => Clearing \/ Filling(h)
        /\ (\A h \in Commands : at[h] # "clear" /\ ~Populates(h)) => summary = SummaryOf(bans)

\* Every bit in the map of overrides is that of a row of the table, or the map
\* is about to be cleared.  A new override may be missing (AddOverride).
LiftedIsBacked ==
    ~mixed =>
        \/ \E h \in Commands : at[h] = "clear_o"
        \/ /\ \A h \in Commands : at[h] = "collect_o" => left[h] \subseteq overrides
           /\ \A s \in Servers \cup {AnyServer}, c \in Ckeys, l \in Bound :
                lifted[s][c][l] \subseteq BitsOf(OverridesOn(overrides, s, c), l)

Maps == OneByOne /\ SummaryIsRebuilt /\ LiftedIsBacked

LEMMA MapsStart ==
    ASSUME Init, Base
    PROVE  Maps
  <1>1. OneByOne
    BY DEF Init, OneByOne, Populates, PopulatesOverrides
  <1>2. SummaryIsRebuilt
    BY DEF Init, SummaryIsRebuilt
  <1>3. \A s \in Servers \cup {AnyServer}, c \in Ckeys, l \in Bound :
            lifted[s][c][l] \subseteq BitsOf(OverridesOn(overrides, s, c), l)
    BY DEF Init, LiftedOf
  <1>4. LiftedIsBacked
    BY <1>3 DEF Init, LiftedIsBacked
  <1> QED
    BY <1>1, <1>2, <1>4 DEF Maps

\* GotoAll notes when two goroutines come to rebuild one map; until then only h
\* does, if it does.
LEMMA GotoAlone ==
    ASSUME NEW goes, GotoAll(goes)
    PROVE  OneByOne' /\ (~mixed' => ~mixed)
  BY DEF GotoAll, OneByOne

\* A map stays as good as it is under a step that leaves it and its table alone,
\* and in which a goroutine leaves no rebuild half done.
LEMMA SummaryAlone ==
    ASSUME SummaryIsRebuilt, UNCHANGED <<summary, bans>>, mixed \/ torn => mixed' \/ torn',
           \A h \in Commands :
              /\ at'[h] = "clear" \/ Populates(h)' <=> at[h] = "clear" \/ Populates(h)
              /\ at'[h] = "clear" <=> at[h] = "clear"
              /\ at'[h] = "fetch" => at[h] = "fetch"
              /\ at'[h] = "collect" => at[h] = "collect" /\ left'[h] = left[h]
    PROVE  SummaryIsRebuilt'
  BY DEF SummaryIsRebuilt, Filling, Clearing, Populates

LEMMA LiftedAlone ==
    ASSUME LiftedIsBacked, UNCHANGED <<lifted, overrides>>, mixed => mixed',
           \A h \in Commands :
              /\ at[h] = "clear_o" => at'[h] = "clear_o"
              /\ at'[h] = "collect_o" => at[h] = "collect_o" /\ left'[h] = left[h]
    PROVE  LiftedIsBacked'
  BY DEF LiftedIsBacked

LEMMA SummaryKept ==
    ASSUME BansAssumption, PermissionsAssumption, Base, OneByOne, SummaryIsRebuilt, [Next]_vars
    PROVE  SummaryIsRebuilt'
  <1>0. TypeOK /\ Ranked /\ RowsAreIssued
    BY DEF Base
  <1>1. ASSUME NEW h \in Commands, Command(h)
        PROVE  SummaryIsRebuilt'
    <2>1. job[h].kind \in {"apply", "lift", "override", "wipe"}
      BY <1>0, JobsAreJobs DEF Job
    <2>2. PICK next \in {"lookup", "remove", "check", "wipe", "ended"} :
              Goto(h, next) /\ at[h] = "idle" /\ UNCHANGED <<summary, bans, left, torn>>
      BY <1>1, <2>1 DEF Command, FirstStage, tables, maps, faults
    <2>3. next \in Stages
      BY DEF Stages
    <2>4. at' = [at EXCEPT ![h] = next]
      BY <1>0, <2>2, <2>3, GotoTypes
    <2>5. mixed => mixed'
      BY <2>2 DEF Goto, GotoAll
    <2> QED
      BY <1>0, <2>2, <2>4, <2>5, SummaryAlone DEF TypeOK, Populates
  <1>2. ASSUME NEW h \in Commands, BanStep(h)
        PROVE  SummaryIsRebuilt'
    <2>1. PICK next \in {"update", "create", "clear", "ended"} :
              /\ at[h] \in {"lookup", "update", "create", "remove"}
              /\ Goto(h, next)
              /\ next = "clear" \/ bans' = bans
              /\ UNCHANGED <<summary, left, torn>>
      BY <1>2 DEF BanStep, maps, faults
    <2>2. next \in Stages
      BY DEF Stages
    <2>3. at' = [at EXCEPT ![h] = next]
      BY <1>0, <2>1, <2>2, GotoTypes
    <2>4. mixed => mixed'
      BY <2>1 DEF Goto, GotoAll
    <2>5. CASE next = "clear"
      <3>1. at'[h] = "clear"
        BY <1>0, <2>3, <2>5 DEF TypeOK
      <3>2. Clearing'
        BY <3>1 DEF Clearing
      <3>3. \A g \in Commands : at'[g] = "fetch" => at[g] = "fetch"
        BY <1>0, <2>3, <2>5 DEF TypeOK
      <3> QED
        BY <2>1, <2>4, <3>1, <3>2, <3>3 DEF SummaryIsRebuilt
    <2>6. CASE next # "clear"
      BY <1>0, <2>1, <2>3, <2>4, <2>6, SummaryAlone DEF TypeOK, Populates
    <2> QED
      BY <2>5, <2>6
  <1>3. ASSUME NEW h \in Commands,
               OverrideStep(h) \/ FetchOverrides(h) \/ CollectOverride(h)
        PROVE  SummaryIsRebuilt'
    <2>1. PICK next \in {"promote", "add", "clear_o", "collect_o", "ended"} :
              /\ at[h] \in {"check", "promote", "add", "wipe", "fetch_o", "collect_o"}
              /\ Goto(h, next)
              /\ UNCHANGED <<summary, bans, torn>>
              /\ \A g \in Commands \ {h} : left'[g] = left[g]
      <3>1. CASE OverrideStep(h)
        BY <3>1 DEF OverrideStep, maps, faults
      <3>2. CASE FetchOverrides(h)
        BY <3>2, <1>0 DEF FetchOverrides, Fetch, tables, maps, faults, TypeOK
      <3>3. CASE CollectOverride(h)
        BY <3>3, <1>0 DEF CollectOverride, Collected, tables, faults, TypeOK
      <3> QED
        BY <1>3, <3>1, <3>2, <3>3
    <2>2. next \in Stages
      BY DEF Stages
    <2>3. at' = [at EXCEPT ![h] = next]
      BY <1>0, <2>1, <2>2, GotoTypes
    <2>4. mixed => mixed'
      BY <2>1 DEF Goto, GotoAll
    <2> QED
      BY <1>0, <2>1, <2>3, <2>4, SummaryAlone DEF TypeOK, Populates
  <1>4. ASSUME NEW h \in Commands, ClearSummary(h)
        PROVE  SummaryIsRebuilt'
    <2>1. summary' = SummaryOf({}) /\ at'[h] = "fetch"
      BY <1>4 DEF ClearSummary, GotoAll
    <2>2. OneByOne'
      BY <1>4, GotoAlone DEF ClearSummary
    <2>3. ~mixed' => \A g \in Commands : at'[g] # "collect"
      BY <2>1, <2>2 DEF OneByOne, Populates
    <2> QED
      BY <2>1, <2>3 DEF SummaryIsRebuilt, Populates
  <1>5. ASSUME NEW h \in Commands, FetchBans(h)
        PROVE  SummaryIsRebuilt'
    <2> SUFFICES ASSUME ~mixed', ~torn'
                 PROVE  SummaryIsRebuilt'
      BY DEF SummaryIsRebuilt
    <2>1. /\ at[h] = "fetch" /\ left' = [left EXCEPT ![h] = bans]
          /\ Goto(h, IF bans = {} THEN "ended" ELSE "collect")
          /\ UNCHANGED <<summary, bans, torn>>
      BY <1>5 DEF FetchBans, Fetch, tables, maps, faults
    <2>2. at' = [at EXCEPT ![h] = IF bans = {} THEN "ended" ELSE "collect"]
      BY <2>1 DEF Goto, GotoAll
    <2>3. ~mixed /\ ~torn
      BY <2>1, GotoAlone DEF Goto
    <2>4. summary = SummaryOf({})
      BY <2>1, <2>3 DEF SummaryIsRebuilt
    <2>5. \A g \in Commands \ {h} : at'[g] = at[g] /\ ~Populates(g)
      BY <1>0, <2>1, <2>2, <2>3 DEF TypeOK, OneByOne, Populates
    <2>6. CASE bans = {}
      BY <1>0, <2>1, <2>2, <2>4, <2>5, <2>6 DEF SummaryIsRebuilt, Populates, TypeOK
    <2>7. CASE bans # {}
      <3>1. at'[h] = "collect" /\ left'[h] = bans
        BY <1>0, <2>1, <2>2, <2>7 DEF TypeOK
      <3>2. Filling(h)'
        <4> SUFFICES ASSUME NEW c \in Ckeys, NEW l \in Bound
                     PROVE  summary[c][l] \cup BitsOf(BansOn(bans, c), l) = BitsOf(BansOn(bans, c), l)
          BY <2>1, <3>1 DEF Filling, BansOn, BitsOf
        <4>1. summary[c][l] = {}
          BY <2>4 DEF SummaryOf, BansOn, BitsOf
        <4> QED
          BY <4>1
      <3> QED
        BY <2>5, <3>1, <3>2 DEF SummaryIsRebuilt, Populates
    <2> QED
      BY <2>6, <2>7
  <1>6. ASSUME NEW h \in Commands, CollectBan(h)
        PROVE  SummaryIsRebuilt'
    <2> SUFFICES ASSUME ~mixed', ~torn'
                 PROVE  SummaryIsRebuilt'
      BY DEF SummaryIsRebuilt
    <2>1. PICK r \in left[h], e \in [Bound -> SUBSET Bits] :
              /\ r \in Ban
              /\ at[h] = "collect"
              /\ e \in Read(summary[r.ckey], \A g \in Commands \ {h} : ~Populates(g))
              /\ summary' = [summary EXCEPT ![r.ckey] = Raised(e, r, r.perm)]
              /\ Collected(h, "collect", r)
      BY <1>0, <1>6, BanFiled
    <2>2. /\ at' = [at EXCEPT ![h] = IF left[h] = {r} THEN "ended" ELSE "collect"]
          /\ left' = [left EXCEPT ![h] = left[h] \ {r}]
          /\ UNCHANGED <<bans, torn>>
      BY <2>1 DEF Collected, Goto, GotoAll, tables, faults
    <2>3. ~mixed /\ ~torn
      BY <2>1, <2>2, GotoAlone DEF Collected, Goto
    <2>4. \A g \in Commands \ {h} : at'[g] = at[g] /\ ~Populates(g)
      BY <1>0, <2>1, <2>2, <2>3 DEF TypeOK, OneByOne, Populates
    <2>5. \A g \in Commands : at'[g] # "fetch"
      BY <1>0, <2>2, <2>4 DEF Populates, TypeOK
    <2>6. CASE Clearing
      <3>1. Clearing'
        BY <2>1, <2>4, <2>6 DEF Clearing
      <3> QED
        BY <2>5, <3>1 DEF SummaryIsRebuilt, Clearing
    <2>7. CASE ~Clearing
      <3>1. e = summary[r.ckey]
        BY <2>1, <2>4 DEF Read
      <3>2. r.type \in SUBSET Bits /\ r.perm \in Ranks /\ r.ckey \in Ckeys
        BY <2>1 DEF Ban
      <3>3. Filling(h)
        BY <2>1, <2>3, <2>7 DEF SummaryIsRebuilt
      <3>4. ASSUME NEW c \in Ckeys, NEW l \in Bound
            PROVE  summary'[c][l] \cup BitsOf(BansOn(left[h] \ {r}, c), l)
                     = BitsOf(BansOn(bans, c), l)
        <4>1. summary[c][l] \cup BitsOf(BansOn(left[h], c), l) = BitsOf(BansOn(bans, c), l)
          BY <3>3 DEF Filling
        <4>2. CASE c # r.ckey
          <5>1. summary'[c] = summary[c]
            BY <1>0, <2>1, <4>2 DEF TypeOK
          <5>2. BansOn(left[h] \ {r}, c) = BansOn(left[h], c)
            BY <4>2 DEF BansOn
          <5> QED
            BY <4>1, <5>1, <5>2
        <4>3. CASE c = r.ckey
          <5>1. summary'[c][l] = summary[c][l] \cup (IF l < r.perm THEN r.type ELSE {})
            <6>1. summary'[c] = Raised(e, r, r.perm)
              BY <1>0, <2>1, <4>3 DEF TypeOK
            <6>2. Raised(e, r, r.perm)[l] = e[l] \cup (IF l < r.perm THEN r.type ELSE {})
              BY <3>2, RaisedByRow
            <6> QED
              BY <3>1, <4>3, <6>1, <6>2
          <5>2. BansOn(left[h] \ {r}, c) = BansOn(left[h], c) \ {r} /\ r \in BansOn(left[h], c)
            BY <4>3 DEF BansOn
          <5>3. BitsOf(BansOn(left[h], c), l)
                  = BitsOf(BansOn(left[h], c) \ {r}, l) \cup (IF r.perm > l THEN r.type ELSE {})
            BY <5>2, BitsOfSplit
          <5>4. r.perm > l <=> l < r.perm
            BY <3>2 DEF Ranks, Bound
          <5> QED
            BY <4>1, <5>1, <5>2, <5>3, <5>4
        <4> QED
          BY <4>2, <4>3
      <3>5. CASE left[h] = {r}
        <4>1. ASSUME NEW c \in Ckeys, NEW l \in Bound
              PROVE  summary'[c][l] = BitsOf(BansOn(bans', c), l)
          <5>1. BitsOf(BansOn(left[h] \ {r}, c), l) = {}
            BY <3>5 DEF BansOn, BitsOf
          <5> QED
            BY <2>2, <3>4, <5>1
        <4>2. summary' \in [Ckeys -> [Bound -> SUBSET Bits]]
          BY BaseKept DEF Base, TypeOK
        <4>3. summary' = SummaryOf(bans')
          BY <4>1, <4>2 DEF SummaryOf
        <4> QED
          BY <1>0, <2>2, <2>4, <2>5, <3>5, <4>3 DEF SummaryIsRebuilt, Populates, TypeOK
      <3>6. CASE left[h] # {r}
        <4>1. at'[h] = "collect" /\ left'[h] = left[h] \ {r}
          BY <1>0, <2>2, <3>6 DEF TypeOK
        <4>2. Filling(h)'
          BY <2>2, <3>4, <4>1 DEF Filling
        <4>3. \A g \in Commands : at'[g] = "collect" => Filling(g)'
          BY <2>4, <4>2 DEF Populates
        <4> QED
          BY <2>5, <4>1, <4>3 DEF SummaryIsRebuilt, Populates
      <3> QED
        BY <3>5, <3>6
    <2> QED
      BY <2>6, <2>7
  <1>7. ASSUME NEW h \in Commands, ClearLifted(h)
        PROVE  SummaryIsRebuilt'
    <2>1. PICK hit \in SUBSET {g \in Commands : at[g] = "collect_o"} :
              at' = [g \in Commands |-> IF g = h THEN "fetch_o" ELSE IF g \in hit THEN "ended" ELSE at[g]]
      BY <1>7 DEF ClearLifted, GotoAll
    <2>2. at[h] = "clear_o" /\ UNCHANGED <<summary, bans, left, torn>> /\ (mixed => mixed')
      BY <1>7 DEF ClearLifted, GotoAll, tables, faults
    <2> QED
      BY <2>1, <2>2, SummaryAlone DEF Populates
  <1>8. ASSUME NEW h \in Commands, StatementFails(h)
        PROVE  SummaryIsRebuilt'
    <2>1. /\ at[h] # "clear" /\ UNCHANGED <<summary, bans, left>> /\ (torn => torn')
          /\ Populates(h) => torn'
      BY <1>8 DEF StatementFails, Populates, tables, maps
    <2>2. at' = [at EXCEPT ![h] = "ended"] /\ (mixed => mixed')
      BY <1>8 DEF StatementFails, Goto, GotoAll
    <2>3. CASE Populates(h)
      BY <2>1, <2>3 DEF SummaryIsRebuilt
    <2>4. CASE ~Populates(h)
      BY <1>0, <2>1, <2>2, <2>4, SummaryAlone DEF Populates, TypeOK
    <2> QED
      BY <2>3, <2>4
  <1>9. CASE Restart
    BY <1>9 DEF Restart, SummaryIsRebuilt, Active, tables
  <1>10. CASE UNCHANGED vars
    BY <1>10, SummaryAlone DEF vars, Populates
  <1> QED
    BY <1>0, <1>1, <1>2, <1>3, <1>4, <1>5, <1>6, <1>7, <1>8, <1>9, <1>10, BanSteps,
       OverrideSteps DEF Next

LEMMA LiftedKept ==
    ASSUME BansAssumption, PermissionsAssumption, Base, OneByOne, LiftedIsBacked, [Next]_vars
    PROVE  LiftedIsBacked'
  <1>0. TypeOK /\ Ranked /\ RowsAreIssued
    BY DEF Base
  <1>1. ASSUME NEW h \in Commands,
               \/ Command(h) \/ BanStep(h) \/ FetchBans(h) \/ CollectBan(h) \/ StatementFails(h)
        PROVE  LiftedIsBacked'
    <2>1. PICK next \in Stages :
              /\ at[h] # "clear_o" /\ next # "collect_o"
              /\ Goto(h, next)
              /\ UNCHANGED <<lifted, overrides>>
              /\ \A g \in Commands \ {h} : left'[g] = left[g]
      <3>1. CASE Command(h)
        <4>1. job[h].kind \in {"apply", "lift", "override", "wipe"}
          BY <1>0, JobsAreJobs DEF Job
        <4> QED
          BY <3>1, <4>1 DEF Command, FirstStage, Stages, tables, maps
      <3>2. CASE BanStep(h)
        BY <3>2 DEF BanStep, Stages, maps
      <3>3. CASE FetchBans(h)
        BY <3>3, <1>0 DEF FetchBans, Fetch, Stages, tables, maps, TypeOK
      <3>4. CASE CollectBan(h)
        BY <3>4, <1>0 DEF CollectBan, CollectBelow, Collected, Stages, tables, TypeOK
      <3>5. CASE StatementFails(h)
        BY <3>5 DEF StatementFails, Stages, tables, maps
      <3> QED
        BY <1>1, <3>1, <3>2, <3>3, <3>4, <3>5
    <2>2. at' = [at EXCEPT ![h] = next] /\ (mixed => mixed')
      BY <2>1 DEF Goto, GotoAll
    <2> QED
      BY <1>0, <2>1, <2>2, LiftedAlone DEF TypeOK
  <1>2. ASSUME NEW h \in Commands, OverrideStep(h)
        PROVE  LiftedIsBacked'
    <2>1. PICK next \in {"promote", "add", "clear_o", "ended"} :
              /\ at[h] \in {"check", "promote", "add", "wipe"}
              /\ Goto(h, next)
              /\ next = "clear_o" \/ overrides \subseteq overrides'
              /\ UNCHANGED <<lifted, left>>
      BY <1>2 DEF OverrideStep, maps
    <2>2. at' = [at EXCEPT ![h] = next] /\ (mixed => mixed')
      BY <2>1 DEF Goto, GotoAll
    <2>3. CASE next = "clear_o"
      BY <1>0, <2>2, <2>3 DEF LiftedIsBacked, TypeOK
    <2>4. CASE next # "clear_o"
      <3>1. overrides \subseteq overrides'
        BY <2>1, <2>4
      <3>2. \A s \in Servers \cup {AnyServer}, c \in Ckeys, l \in Bound :
                BitsOf(OverridesOn(overrides, s, c), l) \subseteq BitsOf(OverridesOn(overrides', s, c), l)
        BY <3>1 DEF OverridesOn, BitsOf
      <3>3. \A g \in Commands : /\ at[g] = "clear_o" => at'[g] = "clear_o"
                               /\ at'[g] = "collect_o" => at[g] = "collect_o"
        BY <1>0, <2>1, <2>2 DEF TypeOK
      <3> QED
        BY <2>1, <2>2, <3>1, <3>2, <3>3 DEF LiftedIsBacked
    <2> QED
      BY <2>3, <2>4
  <1>3. ASSUME NEW h \in Commands, ClearSummary(h)
        PROVE  LiftedIsBacked'
    <2>1. PICK hit \in SUBSET {g \in Commands : at[g] = "collect"} :
              at' = [g \in Commands |-> IF g = h THEN "fetch" ELSE IF g \in hit THEN "ended" ELSE at[g]]
      BY <1>3 DEF ClearSummary, GotoAll
    <2>2. at[h] = "clear" /\ UNCHANGED <<lifted, overrides, left>> /\ (mixed => mixed')
      BY <1>3 DEF ClearSummary, GotoAll, tables
    <2> QED
      BY <2>1, <2>2, LiftedAlone
  <1>4. ASSUME NEW h \in Commands, ClearLifted(h)
        PROVE  LiftedIsBacked'
    <2>1. lifted' = LiftedOf({}) /\ at'[h] = "fetch_o"
      BY <1>4 DEF ClearLifted, GotoAll
    <2>2. OneByOne'
      BY <1>4, GotoAlone DEF ClearLifted
    <2>3. ~mixed' => \A g \in Commands : at'[g] # "collect_o"
      BY <2>1, <2>2 DEF OneByOne, PopulatesOverrides
    <2>4. \A s \in Servers \cup {AnyServer}, c \in Ckeys, l \in Bound : lifted'[s][c][l] = {}
      BY <2>1 DEF LiftedOf, OverridesOn, BitsOf
    <2> QED
      BY <2>3, <2>4 DEF LiftedIsBacked
  <1>5. ASSUME NEW h \in Commands, FetchOverrides(h)
        PROVE  LiftedIsBacked'
    <2>1. /\ at[h] = "fetch_o" /\ left' = [left EXCEPT ![h] = overrides]
          /\ UNCHANGED <<lifted, overrides>>
          /\ Goto(h, IF overrides = {} THEN "ended" ELSE "collect_o")
      BY <1>5 DEF FetchOverrides, Fetch, tables, maps
    <2>2. /\ at' = [at EXCEPT ![h] = IF overrides = {} THEN "ended" ELSE "collect_o"]
          /\ mixed => mixed'
      BY <2>1 DEF Goto, GotoAll
    <2>3. \A g \in Commands : /\ at[g] = "clear_o" => at'[g] = "clear_o"
                             /\ at'[g] = "collect_o" => \/ at[g] = "collect_o" /\ left'[g] = left[g]
                                                        \/ left'[g] = overrides
      BY <1>0, <2>1, <2>2 DEF TypeOK
    <2> QED
      BY <2>1, <2>2, <2>3 DEF LiftedIsBacked
  <1>6. ASSUME NEW h \in Commands, CollectOverride(h)
        PROVE  LiftedIsBacked'
    <2>1. PICK r \in left[h], e \in [Bound -> SUBSET Bits] :
              /\ r \in Override
              /\ at[h] = "collect_o"
              /\ \A l \in Bound : e[l] \subseteq lifted[r.server][r.ckey][l]
              /\ lifted' = [lifted EXCEPT ![r.server][r.ckey] = Raised(e, r, r.perm)]
              /\ Collected(h, "collect_o", r)
      BY <1>0, <1>6, OverrideFiled
    <2>2. /\ at' = [at EXCEPT ![h] = IF left[h] = {r} THEN "ended" ELSE "collect_o"]
          /\ left' = [left EXCEPT ![h] = left[h] \ {r}]
          /\ UNCHANGED overrides
          /\ mixed => mixed'
      BY <2>1 DEF Collected, Goto, GotoAll, tables
    <2>3. \A g \in Commands :
              /\ at[g] = "clear_o" => at'[g] = "clear_o"
              /\ at'[g] = "collect_o" => at[g] = "collect_o" /\ left'[g] \subseteq left[g]
      BY <1>0, <2>1, <2>2 DEF TypeOK
    <2>4. ASSUME left[h] \subseteq overrides, NEW s \in Servers \cup {AnyServer},
                 NEW c \in Ckeys, NEW l \in Bound,
                 lifted[s][c][l] \subseteq BitsOf(OverridesOn(overrides, s, c), l)
          PROVE  lifted'[s][c][l] \subseteq BitsOf(OverridesOn(overrides, s, c), l)
      <3>1. CASE s # r.server \/ c # r.ckey
        <4>1. lifted'[s][c] = lifted[s][c]
          BY <1>0, <2>1, <3>1 DEF TypeOK, Override
        <4> QED
          BY <2>4, <4>1
      <3>2. CASE s = r.server /\ c = r.ckey
        <4>1. r.type \in SUBSET Bits /\ r.perm \in Ranks
          BY <2>1 DEF Override
        <4>2. lifted'[s][c] = Raised(e, r, r.perm)
          BY <1>0, <2>1, <3>2 DEF TypeOK
        <4>3. Raised(e, r, r.perm)[l] = e[l] \cup (IF l < r.perm THEN r.type ELSE {})
          BY <4>1, RaisedByRow
        <4>4. r \in OverridesOn(overrides, s, c)
          BY <2>1, <2>4, <3>2 DEF OverridesOn
        <4>5. r.perm > l => r.type \subseteq BitsOf(OverridesOn(overrides, s, c), l)
          BY <4>4 DEF BitsOf
        <4>6. l < r.perm => r.perm > l
          BY <4>1 DEF Ranks, Bound
        <4>7. e[l] \subseteq lifted[s][c][l]
          BY <2>1, <3>2
        <4> QED
          BY <2>4, <4>2, <4>3, <4>5, <4>6, <4>7
      <3> QED
        BY <3>1, <3>2
    <2>5. CASE mixed'
      BY <2>5 DEF LiftedIsBacked
    <2>6. CASE \E g \in Commands : at[g] = "clear_o"
      BY <2>3, <2>6 DEF LiftedIsBacked
    <2>7. CASE ~mixed /\ ~\E g \in Commands : at[g] = "clear_o"
      <3>1. /\ \A g \in Commands : at[g] = "collect_o" => left[g] \subseteq overrides
            /\ \A s \in Servers \cup {AnyServer}, c \in Ckeys, l \in Bound :
                  lifted[s][c][l] \subseteq BitsOf(OverridesOn(overrides, s, c), l)
        BY <2>7 DEF LiftedIsBacked
      <3>2. \A s \in Servers \cup {AnyServer}, c \in Ckeys, l \in Bound :
                lifted'[s][c][l] \subseteq BitsOf(OverridesOn(overrides', s, c), l)
        BY <2>1, <2>2, <2>4, <3>1
      <3>3. \A g \in Commands : at'[g] = "collect_o" => left'[g] \subseteq overrides'
        BY <2>2, <2>3, <3>1
      <3> QED
        BY <3>2, <3>3 DEF LiftedIsBacked
    <2> QED
      BY <2>2, <2>5, <2>6, <2>7
  <1>7. CASE Restart
    <2>1. lifted' = LiftedOf(overrides) /\ overrides' = overrides
      BY <1>7 DEF Restart, tables
    <2>2. \A s \in Servers \cup {AnyServer}, c \in Ckeys, l \in Bound :
              lifted'[s][c][l] \subseteq BitsOf(OverridesOn(overrides', s, c), l)
      BY <2>1 DEF LiftedOf
    <2>3. \A g \in Commands : at'[g] # "collect_o"
      BY <1>7 DEF Restart, Active
    <2> QED
      BY <2>2, <2>3 DEF LiftedIsBacked
  <1>8. CASE UNCHANGED vars
    BY <1>8, LiftedAlone DEF vars
  <1> QED
    BY <1>0, <1>1, <1>2, <1>3, <1>4, <1>5, <1>6, <1>7, <1>8, BanSteps, OverrideSteps DEF Next

LEMMA OneByOneKept ==
    ASSUME OneByOne, [Next]_vars
    PROVE  OneByOne'
  <1>1. CASE \E goes : GotoAll(goes)
    BY <1>1, GotoAlone
  <1>2. CASE Restart
    BY <1>2 DEF Restart, OneByOne, Populates, PopulatesOverrides, Active
  <1>3. CASE UNCHANGED vars
    BY <1>3 DEF vars, OneByOne, Populates, PopulatesOverrides
  <1>4. ASSUME NEW h \in Commands,
               \/ Command(h) \/ LookupBan(h) \/ UpdateBan(h) \/ CreateBan(h) \/ RemoveBan(h)
               \/ CheckOverride(h) \/ PromoteOverride(h) \/ AddOverride(h) \/ WipeOverrides(h)
        PROVE  \E goes : GotoAll(goes)
    BY <1>4 DEF Goto, Command, LookupBan, UpdateBan, CreateBan, RemoveBan, RemoveSome, ChangeBans,
       CheckOverride, PromoteOverride, AddOverride, WipeOverrides, WipeSome, ChangeOverrides
  <1>5. ASSUME NEW h \in Commands,
               \/ ClearSummary(h) \/ FetchBans(h) \/ CollectBan(h)
               \/ ClearLifted(h) \/ FetchOverrides(h) \/ CollectOverride(h) \/ StatementFails(h)
        PROVE  \E goes : GotoAll(goes)
    BY <1>5 DEF Goto, ClearSummary, FetchBans, Fetch, CollectBan, CollectBelow, Collected,
       ClearLifted, FetchOverrides, CollectOverride, StatementFails
  <1> QED
    BY <1>1, <1>2, <1>3, <1>4, <1>5 DEF Next

LEMMA MapsHold == Spec => [](Base /\ Maps)
  <1>1. Init => Base /\ Maps
    BY BaseStarts, MapsStart, BansAssumption, PermissionsAssumption
  <1>2. Base /\ Maps /\ [Next]_vars => (Base /\ Maps)'
    BY BaseKept, OneByOneKept, SummaryKept, LiftedKept, BansAssumption, PermissionsAssumption
    DEF Maps
  <1> QED
    BY <1>1, <1>2, PTL DEF Spec

\* With no goroutine at work the two maps are what the tables make them.
LEMMA SettledMaps ==
    ASSUME Maps, Settled
    PROVE  /\ \A c \in Ckeys, l \in Bound : summary[c][l] = BitsOf(BansOn(bans, c), l)
           /\ \A s \in Servers \cup {AnyServer}, c \in Ckeys, l \in Bound :
                lifted[s][c][l] \subseteq BitsOf(OverridesOn(overrides, s, c), l)
  <1>1. \A h \in Commands : at[h] \in {"idle", "ended"}
    BY DEF Settled, Quiet, Active
  <1>2. summary = SummaryOf(bans)
    BY <1>1 DEF Maps, SummaryIsRebuilt, Settled, Populates
  <1>3. \A c \in Ckeys, l \in Bound : summary[c][l] = BitsOf(BansOn(bans, c), l)
    BY <1>2 DEF SummaryOf
  <1> QED
    BY <1>1, <1>3 DEF Maps, LiftedIsBacked, Settled

\* discord_main.go:1021-1064: whom a row binds and no override frees, the maps
\* stop, however commands overlapped.
THEOREM BannedAreStopped == Spec => []BannedIsStopped
  <1>1. ASSUME Base, Maps
        PROVE  BannedIsStopped
    <2> SUFFICES ASSUME Settled, NEW b \in bans, NEW s \in Servers \cup {AnyServer}, NEW t \in Bits,
                        t \in b.type, b.perm > LevelOfCkeySp(b.ckey, s),
                        t \notin BitsOf(OverridesOn(overrides, s, b.ckey), LevelOfCkeySp(b.ckey, s))
                 PROVE  CheckBans(b.ckey, s, {t})
      BY DEF BannedIsStopped
    <2>1. b.ckey \in Ckeys /\ LevelOfCkeySp(b.ckey, s) \in Bound
      BY LevelsInRange, PermissionsAssumption, <1>1 DEF Base, TypeOK, Ban
    <2>2. t \in BitsOf(BansOn(bans, b.ckey), LevelOfCkeySp(b.ckey, s))
      BY DEF BitsOf, BansOn
    <2> QED
      BY <1>1, <2>1, <2>2, SettledMaps DEF CheckBans
  <1> QED
    BY <1>1, MapsHold, PTL

\* The same lines: whom the maps stop, a row that is still in the table binds.
THEOREM StoppedAreBanned == Spec => []StoppedIsBanned
  <1>1. ASSUME Base, Maps
        PROVE  StoppedIsBanned
    <2> SUFFICES ASSUME Settled, NEW c \in Ckeys, NEW s \in Servers \cup {AnyServer}, NEW t \in Bits,
                        CheckBans(c, s, {t})
                 PROVE  \E b \in bans : b.ckey = c /\ t \in b.type /\ b.perm > LevelOfCkeySp(c, s)
      BY DEF StoppedIsBanned
    <2>1. LevelOfCkeySp(c, s) \in Bound
      BY LevelsInRange, PermissionsAssumption
    <2>2. t \in summary[c][LevelOfCkeySp(c, s)]
      BY DEF CheckBans
    <2>3. t \in BitsOf(BansOn(bans, c), LevelOfCkeySp(c, s))
      BY <1>1, <2>1, <2>2, SettledMaps
    <2> QED
      BY <2>3 DEF BitsOf, BansOn
  <1> QED
    BY <1>1, MapsHold, PTL
=============================================================================
