----------------------------- MODULE RolesProofs -----------------------------
(***************************************************************************)
(* Proofs about Roles: types, that a member who was given the player role  *)
(* keeps it while he is known, and that the maps follow the table.         *)
(*                                                                         *)
(* The second is inductive with Due: whoever was given the role is in      *)
(* local_users, and what the sweep is about to strip is not that role; the *)
(* third with Rebuild: what a role command knows half way, when alone.     *)
(***************************************************************************)
EXTENDS Roles, TLAPS

PlayerIds == IdsOf({"player"})
AdminIds == IdsOf({"admin"})

\* No role is named for players and for admins.
LEMMA NoIdForBoth == PlayerIds \cap AdminIds = {}
BY RolesAssumption DEF PlayerIds, AdminIds, IdsOf

\* What the maps name are roles moderators chose for that type.
LEMMA KnownIds ==
    ASSUME known \subseteq Choices
    PROVE  /\ \A g : PlayerRole(g) \subseteq PlayerIds
           /\ \A g, tp, s : RoleOf(g, tp, s) \subseteq RoleIds
           /\ PlayerIds \subseteq RoleIds /\ AdminIds \subseteq RoleIds
BY RolesAssumption DEF PlayerRole, RoleOf, PlayerIds, AdminIds, IdsOf, Row

\* A sweep at rest is one.
LEMMA RestType == SweepAtRest \in SweepType /\ SweepAtRest.at # "strip"
<1>1. [r \in {} |-> Idle] \in [{} -> Servers] /\ {} \in SUBSET IdsOf({"admin"})
  OBVIOUS
<1>2. [r \in {} |-> Idle] \in UNION {[ids -> Servers] : ids \in SUBSET IdsOf({"admin"})}
  BY <1>1
<1> QED BY <1>2 DEF SweepAtRest, SweepType

\* The sweep's next step is of its type, and never to strip.
LEMMA SweepingType ==
    ASSUME NEW s \in SweepType
    PROVE  Sweeping(s) \in SweepType /\ Sweeping(s).at # "strip"
<1>1. /\ [s EXCEPT !.at = "check"] \in SweepType
      /\ [s EXCEPT !.at = "guild"] \in SweepType
  BY DEF SweepType
<1>2. [s EXCEPT !.at = "check"].at = "check" /\ [s EXCEPT !.at = "guild"].at = "guild"
  BY DEF SweepType
<1> QED BY <1>1, <1>2, RestType DEF Sweeping

-----------------------------------------------------------------------------
(* Types.                                                                  *)

data == <<people, settings, roles>>

\* Only roles of the tables and of Discord are stored, given and taken.
LEMMA DataStep == TypeOK /\ Next => DataOK'
<1> SUFFICES ASSUME TypeOK, Next PROVE DataOK'
  OBVIOUS
<1> USE DEF TypeOK
<1>w. \A new, gone : new \subseteq Holding /\ Welcome(new, gone) => welcomed' \subseteq Holding
  BY DEF Welcome, DataOK
<1>g. \A h \in Callers : \A ids : Active(h) /\ ids \subseteq RoleIds => Holdings(h, ids) \subseteq Holding
  BY DEF Holdings, JobsOK, Call, Holding
<1>k. /\ \A g : PlayerRole(g) \subseteq RoleIds
      /\ \A g, tp, s : RoleOf(g, tp, s) \subseteq RoleIds
  BY KnownIds DEF DataOK
<1>1. ASSUME NEW h \in Commands, NEW r \in Choices, UpdateKnownRole(h, r) PROVE DataOK'
  BY <1>1 DEF UpdateKnownRole, DataOK, people, roles
<1>2. ASSUME NEW h \in Commands, CreateKnownRole(h) PROVE DataOK'
  BY <1>2 DEF CreateKnownRole, DataOK, JobsOK, people, roles
<1>3. ASSUME NEW h \in Commands, NEW g, NEW tp, NEW s, RemoveKnownRole(h, g, tp, s) PROVE DataOK'
  BY <1>3 DEF RemoveKnownRole, DataOK, people, roles
<1>4. ASSUME NEW h \in Commands, ClearKnownRoles(h) PROVE DataOK'
  BY <1>4 DEF ClearKnownRoles, DataOK, people, roles
<1>5. ASSUME NEW h \in Commands, NEW r, CollectKnownRole(h, r) PROVE DataOK'
  BY <1>5 DEF CollectKnownRole, DataOK, JobsOK, people, roles
<1>6. CASE UNCHANGED data
  BY <1>6 DEF data, people, settings, roles, DataOK
<1>7. ASSUME NEW h \in Callers, EvictUser(h) \/ StoreUser(h) PROVE DataOK'
  <2>1. Welcome({}, {}) /\ UNCHANGED <<registered, admins, settings, held>>
    BY <1>7 DEF EvictUser, StoreUser
  <2>2. Active(h)
    BY <1>7 DEF EvictUser, StoreUser, Active
  <2>3. job[h].user \in Users
    BY <2>2 DEF JobsOK, Call
  <2>4. local' \subseteq Users
    BY <1>7, <2>3 DEF EvictUser, StoreUser, DataOK
  <2> QED BY <2>1, <2>4, <1>w DEF DataOK, settings
<1>8. ASSUME NEW h \in Callers, GivePlayerRole(h) PROVE DataOK'
  <2>1. Active(h)
    BY <1>8 DEF GivePlayerRole, Active
  <2>2. Holdings(h, PlayerRole(job[h].guild)) \subseteq Holding
    BY <2>1, <1>g, <1>k
  <2>3. /\ held' = held \cup Holdings(h, PlayerRole(job[h].guild))
        /\ UNCHANGED <<people, settings>>
        /\ Welcome(IF Condemned(job[h].user) THEN {}
                   ELSE Holdings(h, PlayerRole(job[h].guild)), {})
    BY <1>8 DEF GivePlayerRole
  <2>4. welcomed' \subseteq Holding
    BY <2>2, <2>3, <1>w
  <2> QED BY <2>2, <2>3, <2>4 DEF DataOK, people, settings
<1>9. ASSUME NEW h \in Callers, DropPlayerRole(h) PROVE DataOK'
  <2>1. /\ held' \subseteq held
        /\ UNCHANGED <<people, settings>>
        /\ Welcome({}, Holdings(h, PlayerRole(job[h].guild)))
    BY <1>9 DEF DropPlayerRole
  <2>2. welcomed' \subseteq Holding
    BY <2>1, <1>w
  <2> QED BY <2>1, <2>2 DEF DataOK, people, settings
<1>10. ASSUME NEW h \in Callers, NEW s, GiveAdminRole(h, s) PROVE DataOK'
  <2>1. Active(h)
    BY <1>10 DEF GiveAdminRole, Active
  <2>2. Holdings(h, AdminRole(h, s)) \subseteq Holding
    BY <2>1, <1>g, <1>k DEF AdminRole
  <2> QED BY <1>10, <2>2 DEF GiveAdminRole, DataOK, people, settings
<1>11. ASSUME NEW h \in Callers, Subscribe(h) PROVE DataOK'
  <2>1. Active(h)
    BY <1>11 DEF Subscribe, Active
  <2>2. Holdings(h, SubscriberRole(h)) \subseteq Holding
    BY <2>1, <1>g, <1>k DEF SubscriberRole
  <2> QED BY <1>11, <2>2 DEF Subscribe, DataOK, people, settings
<1>12. CASE held' \subseteq held /\ UNCHANGED <<people, settings, welcomed>>
  BY <1>12 DEF DataOK, people, settings
<1>13. ASSUME NEW u \in Users, Register(u) PROVE DataOK'
  BY <1>13 DEF Register, Change, DataOK, settings, roles
<1>14. ASSUME NEW u \in Users, Deregister(u) PROVE DataOK'
  <2>1. welcomed' \subseteq Holding
    BY <1>14, <1>w DEF Deregister
  <2> QED BY <1>14, <2>1 DEF Deregister, Change, DataOK, settings
<1>15. ASSUME NEW s \in Servers, NEW list \in SUBSET Users, LoadAdmins(s, list) PROVE DataOK'
  BY <1>15 DEF LoadAdmins, Change, DataOK, settings, roles
<1>16. ASSUME NEW w \in Holding, GiveByHand(w) PROVE DataOK'
  BY <1>16 DEF GiveByHand, Change, DataOK, people, settings
<1>17. ASSUME NEW by, Die(by) PROVE DataOK'
  <2>1. welcomed' \subseteq Holding
    BY <1>17, <1>w DEF Die
  <2>2. admins' \in [Servers -> SUBSET Users]
    BY <1>17 DEF Die, DataOK
  <2>3. known' \subseteq Choices
    BY <1>17 DEF Die, DataOK
  <2> QED BY <1>17, <2>1, <2>2, <2>3 DEF Die, DataOK
<1>18. ASSUME NEW h \in Commands, Command(h) PROVE DataOK'
  BY <1>18, <1>2, <1>4, <1>5, <1>6 DEF Command, QueryKnownRoles, AllCollected, data
<1>19. ASSUME NEW h \in Callers, Caller(h) PROVE DataOK'
  BY <1>19, <1>6, <1>7, <1>8, <1>9, <1>10, <1>11, <1>12
     DEF Caller, SelectUser, DropAdminRole, Unsubscribe, data
<1>20. ASSUME Sweep PROVE DataOK'
  BY <1>20, <1>6, <1>12
     DEF Sweep, SweepBegins, ReadRoles, FetchMembers, CheckMember, StripRole, others, data
<1>21. ASSUME NEW h, NEW kind, NEW u, NEW g, NEW s, NEW next, Begin(h, kind, u, g, s, next)
       PROVE  DataOK'
  BY <1>21, <1>6 DEF Begin, data
<1>26. CASE \/ \E h \in Callers, u \in Users, g \in Guilds : Login(h, u, g) \/ Logoff(h, u, g)
            \/ \E h \in Callers, u \in Users, g \in Guilds, s \in Servers :
                  Sub(h, u, g, s) \/ Unsub(h, u, g, s)
  BY <1>26, <1>21 DEF Login, Logoff, Sub, Unsub
<1>22. ASSUME Fault PROVE DataOK'
  BY <1>22, <1>6 DEF Fault, data
<1>23. CASE \E h \in Handlers : StatementFails(h)
  BY <1>23, <1>22 DEF StatementFails
<1>24. CASE FetchFails \/ StripFails \/ \E h \in Callers : CallFails(h)
  BY <1>24, <1>22 DEF CallFails, FetchFails, StripFails
<1>25. CASE Restart \/ \E h \in Commands : RemoveWithoutServer(h)
  BY <1>25, <1>17 DEF Restart, RemoveWithoutServer
<1> QED
  BY <1>1, <1>3, <1>13, <1>14, <1>15, <1>16, <1>18, <1>19, <1>20, <1>23, <1>24, <1>25, <1>26
     DEF Next, RoleUpdate, RoleRemove

\* A goroutine that goes on keeps what it works for; one that is at work for
\* nothing yet gets something that fits its kind.
LEMMA Moves ==
    ASSUME JobsOK, NEW h \in Handlers, NEW next \in Stages, Goto(h, next),
           NEW j \in Choices \cup Call \cup {Idle}, job' = [job EXCEPT ![h] = j],
           NEW l \in SUBSET (Choices \cup Servers), left' = [left EXCEPT ![h] = l],
           h \in Commands => l \subseteq Choices /\ (next = "create" => j \in Choices),
           h \in Callers => next \in {"idle", "ended"} \/ j \in Call
    PROVE  JobsOK'
<1>1. /\ at' \in [Handlers -> Stages] /\ at'[h] = next
      /\ \A i \in Handlers : i # h => at'[i] = at[i]
  BY DEF Goto, JobsOK
<1>2. /\ job' \in [Handlers -> Choices \cup Call \cup {Idle}] /\ job'[h] = j
      /\ \A i \in Handlers : i # h => job'[i] = job[i]
  BY DEF JobsOK
<1>3. /\ left' \in [Handlers -> SUBSET (Choices \cup Servers)] /\ left'[h] = l
      /\ \A i \in Handlers : i # h => left'[i] = left[i]
  BY DEF JobsOK
<1>4. ASSUME NEW c \in Commands
      PROVE  left'[c] \subseteq Choices /\ (at'[c] = "create" => job'[c] \in Choices)
  <2>1. CASE c = h
    BY <2>1, <1>1, <1>2, <1>3
  <2>2. CASE c # h
    BY <2>2, <1>1, <1>2, <1>3 DEF JobsOK, Handlers
  <2> QED BY <2>1, <2>2
<1>5. ASSUME NEW c \in Callers, at'[c] \notin {"idle", "ended"} PROVE job'[c] \in Call
  <2>1. CASE c = h
    BY <2>1, <1>1, <1>2, <1>5
  <2>2. CASE c # h
    BY <2>2, <1>1, <1>2, <1>5 DEF JobsOK, Handlers, Active
  <2> QED BY <2>1, <2>2
<1> QED BY <1>1, <1>2, <1>3, <1>4, <1>5 DEF JobsOK, Active

LEMMA Ends ==
    ASSUME JobsOK, NEW h \in Handlers, End(h)
    PROVE  JobsOK'
<1>1. /\ Idle \in Choices \cup Call \cup {Idle} /\ {} \in SUBSET (Choices \cup Servers)
      /\ "ended" \in Stages
  BY DEF Stages
<1>2. /\ Goto(h, "ended")
      /\ job' = [job EXCEPT ![h] = Idle] /\ left' = [left EXCEPT ![h] = {}]
  BY DEF End
<1> QED BY <1>1, <1>2, Moves

\* Goroutine h goes on with what it has.
LEMMA GoesOn ==
    ASSUME JobsOK, NEW h \in Handlers, NEW next \in Stages \ {"create"}, Goto(h, next),
           UNCHANGED <<job, left>>, h \in Callers => Active(h)
    PROVE  JobsOK'
<1>1. job' = [job EXCEPT ![h] = job[h]] /\ left' = [left EXCEPT ![h] = left[h]]
  BY DEF JobsOK
<1>2. /\ job[h] \in Choices \cup Call \cup {Idle}
      /\ left[h] \in SUBSET (Choices \cup Servers)
      /\ h \in Commands => left[h] \subseteq Choices
      /\ h \in Callers => job[h] \in Call
  BY DEF JobsOK
<1> QED BY <1>1, <1>2, Moves

\* Every goroutine at work knows what it works for.
LEMMA JobsStep == TypeOK /\ Next => JobsOK'
<1> SUFFICES ASSUME TypeOK, Next PROVE JobsOK'
  OBVIOUS
<1> USE DEF Handlers
<1>t. JobsOK /\ rows \subseteq Choices
  BY DEF TypeOK, DataOK
<1>j. /\ \A h \in Handlers : /\ job[h] \in Choices \cup Call \cup {Idle}
                            /\ left[h] \in SUBSET (Choices \cup Servers)
      /\ \A h \in Commands : left[h] \subseteq Choices
      /\ \A h \in Commands : h \notin Callers
      /\ \A h \in Handlers : job = [job EXCEPT ![h] = job[h]]
      /\ \A h \in Handlers : left = [left EXCEPT ![h] = left[h]]
  BY <1>t, RolesAssumption DEF JobsOK
<1>1. ASSUME NEW h \in Commands, NEW r \in Choices, UpdateKnownRole(h, r) PROVE JobsOK'
  <2>1. PICK next \in {"create", "clear"} : Goto(h, next)
    BY <1>1 DEF UpdateKnownRole
  <2>2. job' = [job EXCEPT ![h] = r] /\ left' = [left EXCEPT ![h] = left[h]]
    BY <1>1, <1>j DEF UpdateKnownRole
  <2>3. /\ next \in Stages /\ r \in Choices \cup Call \cup {Idle}
        /\ left[h] \in SUBSET (Choices \cup Servers) /\ left[h] \subseteq Choices
        /\ h \in Handlers /\ h \notin Callers
    BY <2>1, <1>j DEF Stages
  <2> QED BY <2>1, <2>2, <2>3, <1>t, Moves
<1>2. ASSUME NEW h \in Commands, NEW g, NEW tp, NEW s, RemoveKnownRole(h, g, tp, s) PROVE JobsOK'
  <2>1. PICK next \in {"ended", "clear"} : Goto(h, next) /\ UNCHANGED <<job, left>>
    BY <1>2 DEF RemoveKnownRole
  <2> QED BY <2>1, <1>t, <1>j, GoesOn DEF Stages
<1>3. ASSUME NEW h \in Commands, Command(h) PROVE JobsOK'
  <2>1. CASE CreateKnownRole(h) \/ ClearKnownRoles(h)
    <3>1. PICK next \in {"query", "clear"} : Goto(h, next) /\ UNCHANGED <<job, left>>
      BY <2>1 DEF CreateKnownRole, ClearKnownRoles
    <3> QED BY <3>1, <1>t, <1>j, GoesOn DEF Stages
  <2>2. CASE QueryKnownRoles(h)
    <3>1. /\ job' = [job EXCEPT ![h] = job[h]] /\ left' = [left EXCEPT ![h] = rows]
          /\ Goto(h, "collect")
      BY <2>2, <1>j DEF QueryKnownRoles
    <3>2. /\ "collect" \in Stages /\ job[h] \in Choices \cup Call \cup {Idle}
          /\ rows \in SUBSET (Choices \cup Servers) /\ h \in Handlers /\ h \notin Callers
      BY <1>t, <1>j DEF Stages
    <3> QED BY <3>1, <3>2, <1>t, Moves
  <2>3. ASSUME NEW r, CollectKnownRole(h, r) PROVE JobsOK'
    <3>1. /\ job' = [job EXCEPT ![h] = job[h]] /\ left' = [left EXCEPT ![h] = left[h] \ {r}]
          /\ Goto(h, "collect")
      BY <2>3, <1>j DEF CollectKnownRole
    <3>2. /\ "collect" \in Stages /\ job[h] \in Choices \cup Call \cup {Idle}
          /\ left[h] \ {r} \in SUBSET (Choices \cup Servers) /\ left[h] \ {r} \subseteq Choices
          /\ h \in Handlers /\ h \notin Callers
      BY <1>j DEF Stages
    <3> QED BY <3>1, <3>2, <1>t, Moves
  <2>4. CASE AllCollected(h)
    BY <2>4, <1>t, Ends DEF AllCollected
  <2> QED BY <1>3, <2>1, <2>2, <2>3, <2>4 DEF Command
<1>4. ASSUME NEW h \in Callers, NEW kind \in Kinds, NEW u \in Users, NEW g \in Guilds,
             NEW s \in Servers \cup {AnyServer}, NEW next \in {"select", "drop_player", "subscribe"},
             Begin(h, kind, u, g, s, next)
      PROVE  JobsOK'
  <2> DEFINE c == [kind |-> kind, user |-> u, guild |-> g, server |-> s]
  <2>1. Goto(h, next) /\ c \in Call
    BY <1>4 DEF Begin, Call
  <2>2. job' = [job EXCEPT ![h] = c] /\ left' = [left EXCEPT ![h] = Servers]
    BY <1>4 DEF Begin
  <2>3. /\ next \in Stages /\ c \in Choices \cup Call \cup {Idle}
        /\ Servers \in SUBSET (Choices \cup Servers)
        /\ h \in Handlers /\ h \notin Commands
    BY <2>1, <1>j DEF Stages
  <2> QED BY <2>1, <2>2, <2>3, <1>t, Moves
<1>c. CASE \/ \E h \in Callers, u \in Users, g \in Guilds : Login(h, u, g) \/ Logoff(h, u, g)
           \/ \E h \in Callers, u \in Users, g \in Guilds, s \in Servers :
                 Sub(h, u, g, s) \/ Unsub(h, u, g, s)
  BY <1>c, <1>4 DEF Login, Logoff, Sub, Unsub, Kinds
<1>5. ASSUME NEW h \in Callers, NEW s, NextServer(h, s), Active(h) PROVE JobsOK'
  <2>1. CASE End(h)
    BY <2>1, <1>t, Ends
  <2>2. CASE ~End(h)
    <3>1. /\ job' = [job EXCEPT ![h] = job[h]] /\ left' = [left EXCEPT ![h] = left[h] \ {s}]
          /\ Goto(h, at[h])
      BY <2>2, <1>5, <1>j DEF NextServer
    <3>2. job[h] \in Call /\ at[h] \in Stages
      BY <1>5, <1>t DEF JobsOK
    <3> QED BY <3>1, <3>2, <1>t, <1>j, Moves
  <2> QED BY <2>1, <2>2
<1>6. ASSUME NEW h \in Callers, Caller(h) PROVE JobsOK'
  <2>1. CASE \E s \in Servers : GiveAdminRole(h, s) \/ DropAdminRole(h, s)
    BY <2>1, <1>5 DEF GiveAdminRole, DropAdminRole, Active
  <2>2. CASE ~(\E s \in Servers : GiveAdminRole(h, s) \/ DropAdminRole(h, s))
    <3>1. \/ End(h)
          \/ \E next \in Stages \ {"create"} : Goto(h, next) /\ UNCHANGED <<job, left>>
      BY <1>6, <2>2 DEF Caller, SelectUser, EvictUser, StoreUser, GivePlayerRole,
                        DropPlayerRole, Subscribe, Unsubscribe, Stages
    <3>2. Active(h)
      BY <1>6, <2>2 DEF Caller, SelectUser, EvictUser, StoreUser, GivePlayerRole,
                        DropPlayerRole, Subscribe, Unsubscribe, Active
    <3> QED BY <3>1, <3>2, <1>t, Ends, GoesOn
  <2> QED BY <2>1, <2>2
<1>7. CASE UNCHANGED <<at, job, left>>
  BY <1>7, <1>t DEF JobsOK, Active
<1>8. ASSUME NEW by, Die(by) PROVE JobsOK'
  <2>1. at' \in [Handlers -> Stages] /\ \A h \in Handlers : ~Active(h)' /\ at'[h] # "create"
    BY <1>8, <1>t DEF Die, JobsOK, Stages, Active
  <2>2. job' = [h \in Handlers |-> Idle] /\ left' = [h \in Handlers |-> {}]
    BY <1>8 DEF Die
  <2> QED BY <2>1, <2>2 DEF JobsOK
<1>9. CASE Sweep
  BY <1>9, <1>7
     DEF Sweep, SweepBegins, ReadRoles, FetchMembers, CheckMember, StripRole, others
<1>10. CASE Change
  BY <1>10, <1>7 DEF Change
<1>11. CASE \/ \E u \in Users : Register(u) \/ Deregister(u)
            \/ \E s \in Servers, list \in SUBSET Users : LoadAdmins(s, list)
            \/ \E w \in Holding : GiveByHand(w)
  BY <1>11, <1>10 DEF Register, Deregister, LoadAdmins, GiveByHand
<1>12. CASE \E h \in Handlers : StatementFails(h)
  BY <1>12, <1>t, Ends DEF StatementFails
<1>13. CASE \E h \in Callers : CallFails(h)
  BY <1>13, <1>t, Ends DEF CallFails
<1>14. CASE FetchFails \/ StripFails
  BY <1>14, <1>7 DEF FetchFails, StripFails
<1>15. CASE Restart \/ \E h \in Commands : RemoveWithoutServer(h)
  BY <1>15, <1>8 DEF Restart, RemoveWithoutServer
<1> QED
  BY <1>1, <1>2, <1>3, <1>c, <1>6, <1>9, <1>11, <1>12, <1>13, <1>14, <1>15
     DEF Next, RoleUpdate, RoleRemove

\* The sweep sets out for the guilds it is shown.
LEMMA Begins ==
    ASSUME SweepBegins
    PROVE  sweep' \in SweepType /\ sweep'.at # "strip"
<1> DEFINE begun == [SweepAtRest EXCEPT !.guilds = {w[1] : w \in Listed}]
<1>1. {w[1] : w \in Listed} \in SUBSET Guilds
  BY RolesAssumption
<1>2. begun \in SweepType
  BY <1>1, RestType DEF SweepType
<1> QED BY <1>2, SweepingType DEF SweepBegins

\* The sweep reads the roles of a guild: ones named for players and admins.
LEMMA ReadsRoles ==
    ASSUME TypeOK, NEW g \in Guilds, ReadRoles(g)
    PROVE  sweep' \in SweepType /\ sweep'.at # "strip"
<1>t. sweep \in SweepType /\ known \subseteq Choices
  BY DEF TypeOK, DataOK
<1> DEFINE adm == {r \in known : r.guild = g /\ r.type = "admin"}
           ids == {r.role : r \in adm}
<1>1. PICK server \in [ids -> Servers] :
         sweep' = LET s == [sweep EXCEPT !.guilds = @ \ {g}, !.guild = g,
                                         !.player = PlayerRole(g), !.server = server]
                  IN  IF s.player = {} /\ adm = {} THEN Sweeping(s)
                      ELSE [s EXCEPT !.at = "members"]
  BY DEF ReadRoles
<1> DEFINE s == [sweep EXCEPT !.guilds = @ \ {g}, !.guild = g,
                              !.player = PlayerRole(g), !.server = server]
<1>2. ids \in SUBSET IdsOf({"admin"})
  BY <1>t DEF IdsOf
<1>3. server \in UNION {[i -> Servers] : i \in SUBSET IdsOf({"admin"})}
  BY <1>1, <1>2
<1>4. PlayerRole(g) \in SUBSET IdsOf({"player"})
  BY <1>t, KnownIds DEF PlayerIds
<1>5. s \in SweepType
  BY <1>t, <1>3, <1>4 DEF SweepType
<1>6. [s EXCEPT !.at = "members"] \in SweepType /\ [s EXCEPT !.at = "members"].at = "members"
  BY <1>5 DEF SweepType
<1>7. sweep' = Sweeping(s) \/ sweep' = [s EXCEPT !.at = "members"]
  BY <1>1
<1>8. Sweeping(s) \in SweepType /\ Sweeping(s).at # "strip"
  BY <1>5, SweepingType
<1> QED BY <1>6, <1>7, <1>8

\* It fetches the members of the guild, or fails to.
LEMMA FetchesMembers ==
    ASSUME TypeOK, FetchMembers \/ FetchFails
    PROVE  sweep' \in SweepType /\ sweep'.at # "strip"
<1>t. sweep \in SweepType /\ held \subseteq Holding
  BY DEF TypeOK, DataOK
<1> DEFINE shown == {w \in held : w[1] = sweep.guild /\ <<w[1], w[2]>> \in Listed}
           found == {<<w[2], w[3]>> : w \in shown}
           s == [sweep EXCEPT !.members = found]
<1>1. found \in SUBSET Member
  <2>1. \A w \in shown : w \in Holding
    BY <1>t
  <2> HIDE DEF shown
  <2> QED BY <2>1 DEF Holding, Member
<1>2. s \in SweepType
  BY <1>t, <1>1 DEF SweepType
<1>3. sweep' \in {Sweeping(s), Sweeping(sweep), SweepAtRest}
  BY DEF FetchMembers, FetchFails
<1>4. /\ Sweeping(s) \in SweepType /\ Sweeping(s).at # "strip"
      /\ Sweeping(sweep) \in SweepType /\ Sweeping(sweep).at # "strip"
  BY <1>t, <1>2, SweepingType
<1> QED BY <1>3, <1>4, RestType

\* It strips a role only from a member it has found to hold it in excess.
LEMMA ChecksMember ==
    ASSUME TypeOK, NEW m \in Member, CheckMember(m)
    PROVE  /\ sweep' \in SweepType
           /\ sweep'.at = "strip" => sweep'.target = m /\ Excess(m[1], m[2])
<1>t. sweep \in SweepType
  BY DEF TypeOK
<1> DEFINE s == [sweep EXCEPT !.members = @ \ {m}]
           t == [s EXCEPT !.at = "strip", !.target = m]
<1>1. s \in SweepType
  BY <1>t DEF SweepType
<1>2. t \in SweepType /\ t.target = m
  BY <1>1 DEF SweepType
<1>3. sweep' = Sweeping(s) \/ (sweep' = t /\ Excess(m[1], m[2]))
  BY DEF CheckMember
<1>4. Sweeping(s) \in SweepType /\ Sweeping(s).at # "strip"
  BY <1>1, SweepingType
<1> QED BY <1>2, <1>3, <1>4

LEMMA Strips ==
    ASSUME TypeOK, StripRole \/ StripFails
    PROVE  sweep' \in SweepType /\ sweep'.at # "strip"
<1> DEFINE s == [sweep EXCEPT !.target = Idle]
<1>1. s \in SweepType
  BY DEF TypeOK, SweepType
<1>2. sweep' = Sweeping(s)
  BY DEF StripRole, StripFails
<1> QED BY <1>1, <1>2, SweepingType

\* The sweep keeps to members, and to roles named for players and admins.
LEMMA SweepStep == TypeOK /\ Next => sweep' \in SweepType
<1> SUFFICES ASSUME TypeOK, Next PROVE sweep' \in SweepType
  OBVIOUS
<1>t. sweep \in SweepType
  BY DEF TypeOK
<1>1. CASE SweepBegins
  BY <1>1, Begins
<1>2. CASE \E g \in Guilds : ReadRoles(g)
  BY <1>2, ReadsRoles
<1>3. CASE FetchMembers \/ FetchFails
  BY <1>3, FetchesMembers
<1>4. CASE \E m \in Member : CheckMember(m)
  BY <1>4, ChecksMember
<1>5. CASE StripRole \/ StripFails
  BY <1>5, Strips
<1>7. CASE Restart \/ \E h \in Commands : RemoveWithoutServer(h)
  BY <1>7, RestType DEF Restart, RemoveWithoutServer, Die
<1>8. CASE UNCHANGED sweep
  BY <1>8, <1>t
<1>9. CASE Sweep
  BY <1>9, <1>1, <1>2, <1>3, <1>4, <1>5 DEF Sweep
<1>10. ASSUME NEW h \in Commands, Command(h) PROVE UNCHANGED sweep
  BY <1>10 DEF Command, CreateKnownRole, ClearKnownRoles, QueryKnownRoles, AllCollected,
               CollectKnownRole
<1>11. ASSUME NEW h \in Callers, Caller(h) PROVE UNCHANGED sweep
  BY <1>11 DEF Caller, SelectUser, EvictUser, StoreUser, GivePlayerRole, DropPlayerRole,
               Subscribe, Unsubscribe, GiveAdminRole, DropAdminRole
<1>12. CASE \/ \E u \in Users : Register(u) \/ Deregister(u)
            \/ \E s \in Servers, list \in SUBSET Users : LoadAdmins(s, list)
            \/ \E w \in Holding : GiveByHand(w)
  BY <1>12, <1>8 DEF Register, Deregister, LoadAdmins, GiveByHand, Change
<1>13. CASE \/ \E h \in Commands, r \in Choices : UpdateKnownRole(h, r)
            \/ \E h \in Commands, g \in Guilds, tp \in Types, s \in Servers :
                  RemoveKnownRole(h, g, tp, s)
            \/ \E h \in Callers : CallFails(h)
            \/ \E h \in Handlers : StatementFails(h)
  BY <1>13, <1>8 DEF UpdateKnownRole, RemoveKnownRole, CallFails, StatementFails
<1>14. CASE \/ \E h \in Callers, u \in Users, g \in Guilds : Login(h, u, g) \/ Logoff(h, u, g)
            \/ \E h \in Callers, u \in Users, g \in Guilds, s \in Servers :
                  Sub(h, u, g, s) \/ Unsub(h, u, g, s)
  BY <1>14, <1>8 DEF Login, Logoff, Sub, Unsub, Begin
<1> QED
  BY <1>3, <1>5, <1>7, <1>8, <1>9, <1>10, <1>11, <1>12, <1>13, <1>14
     DEF Next, RoleUpdate, RoleRemove

\* Changes and failures stay within their bounds.
LEMMA CountsStep == TypeOK /\ Next => CountsOK'
<1> SUFFICES ASSUME TypeOK, Next PROVE CountsOK'
  OBVIOUS
<1>t. CountsOK
  BY DEF TypeOK
<1> DEFINE Kept == UNCHANGED <<changes, errors, restarts>>
<1>g. \A h, next : Goto(h, next) => clash' \in BOOLEAN
  BY Zenon DEF Goto
<1>e. \A h : End(h) => clash' \in BOOLEAN
  BY <1>g, Zenon DEF End
<1>1. ASSUME Kept, clash' \in BOOLEAN, torn' \in BOOLEAN PROVE CountsOK'
  BY <1>1, <1>t DEF CountsOK
<1>2. ASSUME Kept, UNCHANGED <<clash, torn>> PROVE CountsOK'
  BY <1>2, <1>t DEF CountsOK
<1>3. ASSUME Kept, UNCHANGED torn, NEW h, End(h) \/ \E next : Goto(h, next) PROVE CountsOK'
  BY <1>3, <1>1, <1>g, <1>e, <1>t DEF CountsOK
<1>4. CASE \E h \in Commands, r \in Choices : UpdateKnownRole(h, r)
  BY <1>4, <1>3, Zenon DEF UpdateKnownRole, faults
<1>5. CASE \E h \in Commands, g \in Guilds, tp \in Types, s \in Servers :
              RemoveKnownRole(h, g, tp, s)
  BY <1>5, <1>3, Zenon DEF RemoveKnownRole, faults
<1>6. ASSUME NEW h \in Commands, Command(h) PROVE CountsOK'
  BY <1>6, <1>3 DEF Command, CreateKnownRole, ClearKnownRoles, QueryKnownRoles,
                    AllCollected, CollectKnownRole, faults
<1>7. ASSUME NEW h \in Callers, Caller(h) PROVE CountsOK'
  <2>1. ASSUME NEW s, NextServer(h, s) PROVE End(h) \/ \E next : Goto(h, next)
    BY <2>1 DEF NextServer
  <2>2. Kept /\ UNCHANGED torn
    BY <1>7 DEF Caller, SelectUser, EvictUser, StoreUser, GivePlayerRole, DropPlayerRole,
                Subscribe, Unsubscribe, GiveAdminRole, DropAdminRole, faults
  <2>3. End(h) \/ \E next : Goto(h, next)
    BY <1>7, <2>1 DEF Caller, SelectUser, EvictUser, StoreUser, GivePlayerRole,
                DropPlayerRole, Subscribe, Unsubscribe, GiveAdminRole, DropAdminRole
  <2> QED BY <2>2, <2>3, <1>3
<1>8. ASSUME NEW h, NEW kind, NEW u, NEW g, NEW s, NEW next, Begin(h, kind, u, g, s, next)
      PROVE  CountsOK'
  <2>1. Kept /\ UNCHANGED torn /\ Goto(h, next)
    BY <1>8 DEF Begin, faults
  <2> QED BY <2>1, <1>3
<1>c. CASE \/ \E h \in Callers, u \in Users, g \in Guilds : Login(h, u, g) \/ Logoff(h, u, g)
           \/ \E h \in Callers, u \in Users, g \in Guilds, s \in Servers :
                 Sub(h, u, g, s) \/ Unsub(h, u, g, s)
  BY <1>c, <1>8 DEF Login, Logoff, Sub, Unsub
<1>9. CASE Sweep
  <2>1. Kept /\ UNCHANGED <<clash, torn>>
    BY <1>9 DEF Sweep, SweepBegins, ReadRoles, FetchMembers, CheckMember, StripRole, others, faults
  <2> QED BY <2>1, <1>2
<1>10. ASSUME Change PROVE CountsOK'
  <2>1. /\ changes < MaxChanges /\ changes' = changes + 1
        /\ UNCHANGED <<clash, torn, errors, restarts>>
    BY <1>10 DEF Change, faults
  <2> QED BY <2>1, <1>t, RolesAssumption DEF CountsOK
<1>11. CASE \/ \E u \in Users : Register(u) \/ Deregister(u)
            \/ \E s \in Servers, list \in SUBSET Users : LoadAdmins(s, list)
            \/ \E w \in Holding : GiveByHand(w)
  BY <1>11, <1>10 DEF Register, Deregister, LoadAdmins, GiveByHand
<1>12. ASSUME Fault, clash' \in BOOLEAN, torn' \in BOOLEAN PROVE CountsOK'
  <2>1. /\ errors + restarts < MaxFaults /\ errors' = errors + 1
        /\ UNCHANGED <<changes, restarts>>
    BY <1>12 DEF Fault
  <2>2. /\ changes' \in 0..MaxChanges /\ errors' \in Nat /\ restarts' \in Nat
        /\ errors' + restarts' <= MaxFaults
    BY <2>1, <1>t, RolesAssumption DEF CountsOK
  <2> QED BY <2>2, <1>12 DEF CountsOK
<1>13. CASE \E h \in Handlers : StatementFails(h)
  <2>1. PICK h \in Handlers : StatementFails(h)
    BY <1>13
  <2>2. Fault /\ clash' \in BOOLEAN
    BY <2>1, <1>e DEF StatementFails
  <2>3. torn' \in BOOLEAN
    BY <2>1, Zenon DEF StatementFails
  <2> QED BY <2>2, <2>3, <1>12
<1>14. CASE \E h \in Callers : CallFails(h)
  BY <1>14, <1>e, <1>t, <1>12 DEF CallFails, CountsOK
<1>15. CASE FetchFails \/ StripFails
  BY <1>15, <1>t, <1>12 DEF FetchFails, StripFails, CountsOK
<1>16. CASE Restart
  <2>1. /\ errors + restarts < MaxFaults /\ restarts' = restarts + 1
        /\ UNCHANGED <<changes, errors, clash>> /\ torn' = FALSE
    BY <1>16 DEF Restart, Die
  <2>2. /\ changes' \in 0..MaxChanges /\ errors' \in Nat /\ restarts' \in Nat
        /\ errors' + restarts' <= MaxFaults
    BY <2>1, <1>t, RolesAssumption DEF CountsOK
  <2> QED BY <2>1, <2>2, <1>t DEF CountsOK
<1>17. CASE \E h \in Commands : RemoveWithoutServer(h)
  BY <1>17, <1>1, <1>t DEF RemoveWithoutServer, Die, faults, CountsOK
<1> QED
  BY <1>4, <1>5, <1>6, <1>7, <1>c, <1>9, <1>11, <1>13, <1>14, <1>15, <1>16, <1>17
     DEF Next, RoleUpdate, RoleRemove

\* A step that changes nothing keeps the types.
LEMMA TypeStutter == TypeOK /\ UNCHANGED vars => TypeOK'
<1> SUFFICES ASSUME TypeOK, UNCHANGED vars PROVE TypeOK'
  OBVIOUS
<1>1. DataOK'
  BY DEF TypeOK, DataOK, vars
<1>2. JobsOK'
  BY DEF TypeOK, JobsOK, Active, vars
<1>3. (sweep \in SweepType)' /\ CountsOK'
  BY DEF TypeOK, CountsOK, vars
<1> QED BY <1>1, <1>2, <1>3 DEF TypeOK

LEMMA TypeInit == Init => TypeOK
<1> SUFFICES ASSUME Init PROVE TypeOK
  OBVIOUS
<1>1. DataOK
  BY RolesAssumption DEF Init, DataOK
<1>2. JobsOK
  BY DEF Init, JobsOK, Stages, Handlers, Active
<1>3. sweep \in SweepType
  BY RestType DEF Init
<1>4. CountsOK
  <2>1. changes = 0 /\ errors = 0 /\ restarts = 0 /\ clash = FALSE /\ torn = FALSE
    BY DEF Init
  <2>2. /\ changes \in 0..MaxChanges /\ errors \in Nat /\ restarts \in Nat
        /\ errors + restarts <= MaxFaults
    BY <2>1, RolesAssumption
  <2> QED BY <2>1, <2>2, Zenon DEF CountsOK
<1> QED BY <1>1, <1>2, <1>3, <1>4 DEF TypeOK

LEMMA TypeInductive == TypeOK /\ [Next]_vars => TypeOK'
<1>1. TypeOK /\ Next => TypeOK'
  BY DataStep, JobsStep, SweepStep, CountsStep DEF TypeOK
<1> QED BY <1>1, TypeStutter

\* What the bot stores, gives and takes are roles moderators named, and a
\* goroutine at work knows what for, in every run (discord_main.go:852-908,
\* 1089-1131, 1170-1251, 1276-1326).
THEOREM RolesTypeCorrect == Spec => []TypeOK
BY TypeInit, TypeInductive, PTL DEF Spec

-----------------------------------------------------------------------------
(* Who was given the player role keeps it.                                 *)

\* Whoever was given the role is known, the role is one for players, and what
\* the sweep is about to strip is not what he was given.
Due ==
    /\ \A w \in welcomed : w[2] \in local /\ w[3] \in PlayerIds
    /\ sweep.at = "strip" =>
          \A w \in welcomed : w[2] = sweep.target[1] => w[3] # sweep.target[2]

IInv == TypeOK /\ WelcomedKeepsRole /\ Due

\* What Welcome keeps: old entries and the new ones of users who are known.
LEMMA WelcomeKeeps ==
    ASSUME NEW new, NEW gone, Welcome(new, gone)
    PROVE  /\ welcomed' \subseteq (welcomed \ gone) \cup new
           /\ \A w \in welcomed' : w[2] \in local'
BY DEF Welcome

\* Steps that give nothing to be kept, and leave the sweep and what is held.
LEMMA NothingNew ==
    ASSUME IInv, Welcome({}, {}), held \subseteq held', UNCHANGED sweep
    PROVE  WelcomedKeepsRole' /\ Due'
<1>1. welcomed' \subseteq welcomed /\ \A w \in welcomed' : w[2] \in local'
  BY WelcomeKeeps
<1> QED BY <1>1 DEF IInv, WelcomedKeepsRole, Due

LEMMA Untouched ==
    ASSUME IInv, UNCHANGED <<welcomed, local>>, held \subseteq held',
           UNCHANGED sweep \/ sweep'.at # "strip"
    PROVE  WelcomedKeepsRole' /\ Due'
BY DEF IInv, WelcomedKeepsRole, Due

\* The roles login and logoff touch beside the player role are not ones for
\* players.
LEMMA OtherIds ==
    ASSUME TypeOK
    PROVE  \A g, s : /\ RoleOf(g, "admin", s) \cap PlayerIds = {}
                     /\ RoleOf(g, "subscriber", s) \cap PlayerIds = {}
BY RolesAssumption DEF TypeOK, DataOK, RoleOf, PlayerIds, IdsOf

LEMMA InvStep == IInv /\ Next => WelcomedKeepsRole' /\ Due'
<1> SUFFICES ASSUME IInv, Next PROVE WelcomedKeepsRole' /\ Due'
  OBVIOUS
<1>t. TypeOK /\ known \subseteq Choices /\ sweep \in SweepType
  BY DEF IInv, TypeOK, DataOK
<1>k. \A g : PlayerRole(g) \subseteq PlayerIds
  BY <1>t, KnownIds
<1>1. ASSUME NEW h \in Commands, Command(h) PROVE WelcomedKeepsRole' /\ Due'
  <2>1. UNCHANGED <<welcomed, local, held, sweep>>
    BY <1>1 DEF Command, CreateKnownRole, ClearKnownRoles, QueryKnownRoles, AllCollected,
                CollectKnownRole, people, roles
  <2> QED BY <2>1, Untouched
<1>2. CASE \/ \E h \in Commands, r \in Choices : UpdateKnownRole(h, r)
           \/ \E h \in Commands, g \in Guilds, tp \in Types, s \in Servers :
                 RemoveKnownRole(h, g, tp, s)
           \/ \E h \in Callers, u \in Users, g \in Guilds : Login(h, u, g) \/ Logoff(h, u, g)
           \/ \E h \in Callers, u \in Users, g \in Guilds, s \in Servers :
                 Sub(h, u, g, s) \/ Unsub(h, u, g, s)
  <2>1. UNCHANGED <<welcomed, local, held, sweep>>
    BY <1>2 DEF UpdateKnownRole, RemoveKnownRole, Login, Logoff, Sub, Unsub, Begin, people, roles
  <2> QED BY <2>1, Untouched
<1>3. CASE \/ \E h \in Handlers : StatementFails(h)
           \/ \E h \in Callers : CallFails(h)
  <2>1. UNCHANGED <<welcomed, local, held, sweep>>
    BY <1>3 DEF StatementFails, CallFails, Fault, people, roles
  <2> QED BY <2>1, Untouched
<1>4. ASSUME NEW h \in Callers, SelectUser(h) PROVE WelcomedKeepsRole' /\ Due'
  BY <1>4, Untouched DEF SelectUser, people, roles
<1>5. ASSUME NEW h \in Callers, EvictUser(h) \/ StoreUser(h) PROVE WelcomedKeepsRole' /\ Due'
  BY <1>5, NothingNew DEF EvictUser, StoreUser
<1>6. ASSUME NEW h \in Callers, GivePlayerRole(h) PROVE WelcomedKeepsRole' /\ Due'
  <2> DEFINE given == Holdings(h, PlayerRole(job[h].guild))
             new == IF Condemned(job[h].user) THEN {} ELSE given
  <2>1. /\ held' = held \cup given /\ Welcome(new, {})
        /\ UNCHANGED <<local, sweep>>
    BY <1>6 DEF GivePlayerRole, people
  <2>2. /\ welcomed' \subseteq welcomed \cup new
        /\ \A w \in welcomed' : w[2] \in local'
    BY <2>1, WelcomeKeeps
  <2>3. \A w \in given : w[2] = job[h].user /\ w[3] \in PlayerIds
    BY <1>k DEF Holdings
  <2>4. sweep.at = "strip" => \A w \in new : w[2] # sweep.target[1]
    BY <2>3 DEF Condemned
  <2>5. new \subseteq given
    OBVIOUS
  <2>6. WelcomedKeepsRole'
    BY <2>1, <2>2, <2>5 DEF IInv, WelcomedKeepsRole
  <2>7. Due'
    BY <2>1, <2>2, <2>3, <2>4, <2>5 DEF IInv, Due
  <2> QED BY <2>6, <2>7
<1>7. ASSUME NEW h \in Callers, DropPlayerRole(h) PROVE WelcomedKeepsRole' /\ Due'
  <2> DEFINE gone == Holdings(h, PlayerRole(job[h].guild))
  <2>1. /\ held' = held \ gone /\ Welcome({}, gone)
        /\ UNCHANGED <<local, sweep>>
    BY <1>7 DEF DropPlayerRole, people
  <2>2. welcomed' \subseteq welcomed \ gone
    BY <2>1, WelcomeKeeps
  <2> QED BY <2>1, <2>2 DEF IInv, WelcomedKeepsRole, Due
<1>8. ASSUME NEW h \in Callers, NEW s, GiveAdminRole(h, s) PROVE WelcomedKeepsRole' /\ Due'
  BY <1>8, Untouched DEF GiveAdminRole, people
<1>9. ASSUME NEW h \in Callers, Subscribe(h) PROVE WelcomedKeepsRole' /\ Due'
  BY <1>9, Untouched DEF Subscribe, people
<1>10. ASSUME NEW ids, ids \cap PlayerIds = {}, NEW h, held' = held \ Holdings(h, ids),
              UNCHANGED <<welcomed, local, sweep>>
       PROVE  WelcomedKeepsRole' /\ Due'
  <2>1. \A w \in welcomed : w \notin Holdings(h, ids)
    BY <1>10 DEF IInv, Due, Holdings
  <2> QED BY <1>10, <2>1 DEF IInv, WelcomedKeepsRole, Due
<1>11. ASSUME NEW h \in Callers, NEW s, DropAdminRole(h, s) PROVE WelcomedKeepsRole' /\ Due'
  BY <1>11, <1>t, <1>10, OtherIds DEF DropAdminRole, people
<1>12. ASSUME NEW h \in Callers, Unsubscribe(h) PROVE WelcomedKeepsRole' /\ Due'
  BY <1>12, <1>t, <1>10, OtherIds DEF Unsubscribe, SubscriberRole, people
<1>13. ASSUME NEW h \in Callers, Caller(h) PROVE WelcomedKeepsRole' /\ Due'
  BY <1>13, <1>4, <1>5, <1>6, <1>7, <1>8, <1>9, <1>11, <1>12 DEF Caller
<1>14. CASE SweepBegins
  <2>1. sweep'.at # "strip"
    BY <1>14, Begins
  <2> QED BY <1>14, <2>1, Untouched DEF SweepBegins, others, people, roles
<1>15. CASE \E g \in Guilds : ReadRoles(g)
  <2>1. sweep'.at # "strip"
    BY <1>15, <1>t, ReadsRoles
  <2> QED BY <1>15, <2>1, Untouched DEF ReadRoles, others, people, roles
<1>16. CASE FetchMembers \/ FetchFails
  <2>1. sweep'.at # "strip"
    BY <1>16, <1>t, FetchesMembers
  <2> QED BY <1>16, <2>1, Untouched DEF FetchMembers, FetchFails, Fault, others, people, roles
<1>17. ASSUME NEW m \in Member, CheckMember(m) PROVE WelcomedKeepsRole' /\ Due'
  <2>1. UNCHANGED <<welcomed, local, held>>
    BY <1>17 DEF CheckMember, others, people, roles
  <2>2. sweep'.at = "strip" => sweep'.target = m /\ Excess(m[1], m[2])
    BY <1>17, <1>t, ChecksMember
  <2>3. DOMAIN sweep.server \subseteq AdminIds
    BY <1>t DEF SweepType, AdminIds
  <2>4. ASSUME Excess(m[1], m[2]), NEW w \in welcomed, w[2] = m[1] PROVE w[3] # m[2]
    <3>1. m[1] \in local /\ w[3] \in PlayerIds
      BY <2>4 DEF IInv, Due
    <3>2. m[2] \in AdminIds
      BY <2>3, <2>4, <3>1 DEF Excess, IsRegistered
    <3> QED BY <3>1, <3>2, NoIdForBoth
  <2>5. Due'
    BY <2>1, <2>2, <2>4 DEF IInv, Due
  <2> QED BY <2>1, <2>5 DEF IInv, WelcomedKeepsRole
<1>18. CASE StripRole \/ StripFails
  <2>1. /\ UNCHANGED <<welcomed, local>> /\ sweep.at = "strip"
        /\ \/ held' = held
           \/ held' = held \ {<<sweep.guild, sweep.target[1], sweep.target[2]>>}
    BY <1>18 DEF StripRole, StripFails, Fault, others, people, roles
  <2>2. sweep'.at # "strip"
    BY <1>18, <1>t, Strips
  <2>3. <<sweep.guild, sweep.target[1], sweep.target[2]>> \notin welcomed
    BY <2>1 DEF IInv, Due
  <2> QED BY <2>1, <2>2, <2>3 DEF IInv, WelcomedKeepsRole, Due
<1>19. CASE Sweep
  BY <1>19, <1>14, <1>15, <1>16, <1>17, <1>18 DEF Sweep
<1>20. CASE \E u \in Users : Deregister(u)
  BY <1>20, NothingNew DEF Deregister, Change
<1>21. CASE Restart \/ \E h \in Commands : RemoveWithoutServer(h)
  <2>1. Welcome({}, {}) /\ held' = held /\ sweep' = SweepAtRest
    BY <1>21 DEF Restart, RemoveWithoutServer, Die
  <2>2. welcomed' \subseteq welcomed /\ \A w \in welcomed' : w[2] \in local'
    BY <2>1, WelcomeKeeps
  <2> QED BY <2>1, <2>2, RestType DEF IInv, WelcomedKeepsRole, Due
<1>22. CASE \E u \in Users : Register(u)
  <2>1. local \subseteq local' /\ UNCHANGED <<held, welcomed, sweep>>
    BY <1>22 DEF Register, Change, roles
  <2> QED BY <2>1 DEF IInv, WelcomedKeepsRole, Due
<1>23. CASE \/ \E s \in Servers, list \in SUBSET Users : LoadAdmins(s, list)
            \/ \E w \in Holding : GiveByHand(w)
  BY <1>23, Untouched DEF LoadAdmins, GiveByHand, Change, people, roles
<1> QED
  BY <1>1, <1>2, <1>3, <1>13, <1>16, <1>18, <1>19, <1>20, <1>21, <1>22, <1>23
     DEF Next, RoleUpdate, RoleRemove

\* "receive channel permissions" (discord_commands.go:166): who was given the
\* player role is not stripped of it while the bot knows him, whatever sweeps,
\* logins of others, role commands, failures and restarts there are.
THEOREM PlayersKeepTheirRole == Spec => []WelcomedKeepsRole
<1>1. Init => IInv
  BY TypeInit, RestType DEF Init, IInv, WelcomedKeepsRole, Due
<1>2. IInv /\ [Next]_vars => IInv'
  <2>1. ASSUME IInv, Next PROVE IInv'
    BY <2>1, InvStep, TypeInductive DEF IInv
  <2>2. ASSUME IInv, UNCHANGED vars PROVE IInv'
    BY <2>2, TypeStutter DEF IInv, WelcomedKeepsRole, Due, vars
  <2> QED BY <2>1, <2>2
<1>3. IInv => WelcomedKeepsRole
  BY DEF IInv
<1> QED BY <1>1, <1>2, <1>3, PTL DEF Spec

-----------------------------------------------------------------------------
(* The maps follow the table.                                              *)

\* clash has not missed anything.
ClashIsSeen ==
    ~clash => \A c, d \in Commands : Active(c) /\ Active(d) => c = d

\* The maps hold the rows of the table, and others only of subscriber roles,
\* but for the rows a command has yet to read.
UpToDateBut(rest) ==
    /\ rows \subseteq known \cup rest
    /\ \A r \in known : r.type # "subscriber" => r \in rows

\* What a command knows of the table and the maps when it is alone.
Rebuild ==
    ~clash =>
        /\ \A q, r \in rows : SameKey(q, r) => q = r
        /\ \A h \in Commands :
              /\ at[h] = "create" => \A r \in rows : ~SameKey(r, job[h])
              /\ at[h] = "query" => \A r \in known : r.type = "subscriber"
              /\ at[h] = "collect" => left[h] \subseteq rows /\ UpToDateBut(left[h])
        /\ ~torn /\ (\A h \in Commands : ~Active(h)) => UpToDateBut({})

Rebuilds == ClashIsSeen /\ Rebuild

LEMMA RebuildsInit == Init => Rebuilds
<1> SUFFICES ASSUME Init PROVE Rebuilds
  OBVIOUS
<1>1. \A h \in Commands : at[h] = "idle"
  BY DEF Init, Handlers
<1>2. \A q, r \in rows : SameKey(q, r) => q = r
  BY RolesAssumption DEF Init
<1>3. UpToDateBut({})
  BY DEF Init, UpToDateBut
<1> QED BY <1>1, <1>2, <1>3 DEF Rebuilds, ClashIsSeen, Rebuild, Active

\* Where a step of goroutine h leaves the others.
LEMMA GotoOf ==
    ASSUME TypeOK, Rebuilds, NEW h \in Handlers, NEW next, Goto(h, next)
    PROVE  /\ at'[h] = next /\ \A g \in Handlers \ {h} : at'[g] = at[g]
           /\ ClashIsSeen' /\ (~clash' => ~clash)
BY DEF Goto, TypeOK, JobsOK, CountsOK, ClashIsSeen

\* A step that has nothing to do with table and maps.
LEMMA RebuildElsewhere ==
    ASSUME Rebuilds, UNCHANGED <<rows, known>>, ClashIsSeen',
           ~clash' => ~clash, ~torn' => ~torn,
           \A h \in Commands : \/ at'[h] = at[h] /\ left'[h] = left[h] /\ job'[h] = job[h]
                               \/ ~Active(h) /\ ~Active(h)'
    PROVE  Rebuilds'
<1> SUFFICES ASSUME ~clash' PROVE Rebuild'
  BY DEF Rebuilds, Rebuild
<1>1. Rebuild /\ ~clash
  BY DEF Rebuilds
<1>2. \A h \in Commands :
          /\ at'[h] = "create" => \A r \in rows : ~SameKey(r, job'[h])
          /\ at'[h] = "query" => \A r \in known : r.type = "subscriber"
          /\ at'[h] = "collect" => left'[h] \subseteq rows /\ UpToDateBut(left[h])'
  BY <1>1 DEF Rebuild, UpToDateBut, Active
<1>3. \A h \in Commands : Active(h)' <=> Active(h)
  BY DEF Active
<1>4. ~torn' /\ (\A h \in Commands : ~Active(h)') => UpToDateBut({})'
  BY <1>1, <1>3 DEF Rebuild, UpToDateBut
<1> QED BY <1>1, <1>2, <1>4 DEF Rebuild

\* A step of a command at work: the others are not.
LEMMA RebuildStep ==
    ASSUME TypeOK, Rebuilds, NEW h \in Commands, NEW next, Goto(h, next),
           Active(h) \/ next \notin {"idle", "ended"},
           ~clash /\ ~clash' =>
              /\ \A q, r \in rows' : SameKey(q, r) => q = r
              /\ next = "create" => \A r \in rows' : ~SameKey(r, job'[h])
              /\ next = "query" => \A r \in known' : r.type = "subscriber"
              /\ next = "collect" => left'[h] \subseteq rows' /\ UpToDateBut(left[h])'
              /\ next \in {"idle", "ended"} /\ ~torn' => UpToDateBut({})'
    PROVE  Rebuilds'
<1>1. /\ at'[h] = next /\ \A g \in Commands \ {h} : at'[g] = at[g]
      /\ ClashIsSeen' /\ (~clash' => ~clash)
  BY GotoOf DEF Handlers
<1> SUFFICES ASSUME ~clash' PROVE Rebuild'
  BY <1>1 DEF Rebuilds, Rebuild
<1>2. \A g \in Commands \ {h} : ~Active(g)'
  BY <1>1 DEF Rebuilds, ClashIsSeen, Active
<1>3. (\A g \in Commands : ~Active(g)') => next \in {"idle", "ended"}
  BY <1>1 DEF Active
<1> QED BY <1>1, <1>2, <1>3 DEF Rebuild, Active

LEMMA SameKeySame ==
    \A p, q, r : /\ SameKey(p, q) => SameKey(q, p)
                 /\ SameKey(p, q) /\ SameKey(q, r) => SameKey(p, r)
BY DEF SameKey

LEMMA UpdateRebuilds ==
    ASSUME TypeOK, Rebuilds, NEW h \in Commands, NEW r \in Choices, UpdateKnownRole(h, r)
    PROVE  Rebuilds'
<1> DEFINE same == {q \in rows : SameKey(q, r)}
<1>1. /\ at[h] = "idle"
      /\ rows' = (rows \ same) \cup {r : q \in same}
      /\ Goto(h, IF same = {} THEN "create" ELSE "clear")
      /\ job'[h] = r
  BY DEF UpdateKnownRole, TypeOK, JobsOK, Handlers
<1>2. ASSUME ~clash PROVE \A p, q \in rows' : SameKey(p, q) => p = q
  <2>1. \A p, q \in rows : SameKey(p, q) => p = q
    BY <1>2 DEF Rebuilds, Rebuild
  <2>2. \A q \in rows' : q = r \/ (q \in rows /\ ~SameKey(q, r))
    BY <1>1
  <2> QED BY <2>1, <2>2, SameKeySame
<1>3. CASE same = {}
  <2>1. rows' = rows /\ \A q \in rows : ~SameKey(q, r)
    BY <1>1, <1>3
  <2> QED BY <1>1, <1>2, <1>3, <2>1, RebuildStep
<1>4. CASE same # {}
  BY <1>1, <1>2, <1>4, RebuildStep
<1> QED BY <1>3, <1>4

LEMMA CommandRebuilds ==
    ASSUME TypeOK, Rebuilds, NEW h \in Commands, Command(h)
    PROVE  Rebuilds'
<1>a. Active(h)
  BY DEF Command, CreateKnownRole, ClearKnownRoles, QueryKnownRoles, CollectKnownRole,
         AllCollected, Active
<1>u. ~clash => \A q, r \in rows : SameKey(q, r) => q = r
  BY DEF Rebuilds, Rebuild
<1>1. CASE CreateKnownRole(h)
  <2>1. rows' = rows \cup {job[h]} /\ Goto(h, "clear") /\ at[h] = "create"
    BY <1>1 DEF CreateKnownRole
  <2>2. ASSUME ~clash PROVE \A q, r \in rows' : SameKey(q, r) => q = r
    <3>1. \A r \in rows : ~SameKey(r, job[h])
      BY <2>1, <2>2 DEF Rebuilds, Rebuild
    <3> QED BY <1>u, <2>1, <2>2, <3>1, SameKeySame
  <2> QED BY <1>a, <2>1, <2>2, RebuildStep
<1>2. CASE ClearKnownRoles(h)
  BY <1>a, <1>u, <1>2, RebuildStep DEF ClearKnownRoles
<1>3. CASE QueryKnownRoles(h)
  <2>1. /\ at[h] = "query" /\ Goto(h, "collect") /\ left'[h] = rows
        /\ UNCHANGED <<rows, known>>
    BY <1>3 DEF QueryKnownRoles, settings, TypeOK, JobsOK, Handlers
  <2>2. ~clash => UpToDateBut(left[h])'
    BY <2>1 DEF Rebuilds, Rebuild, UpToDateBut
  <2> QED BY <1>a, <1>u, <2>1, <2>2, RebuildStep
<1>4. ASSUME NEW r \in rows \cup left[h], CollectKnownRole(h, r) PROVE Rebuilds'
  <2>1. /\ at[h] = "collect" /\ r \in left[h] /\ Goto(h, "collect")
        /\ known' = {q \in known : ~SameKey(q, r)} \cup {r}
        /\ left'[h] = left[h] \ {r} /\ rows' = rows
    BY <1>4 DEF CollectKnownRole, TypeOK, JobsOK, Handlers
  <2>2. ASSUME ~clash PROVE left'[h] \subseteq rows' /\ UpToDateBut(left[h])'
    <3>1. left[h] \subseteq rows /\ UpToDateBut(left[h])
      BY <2>1, <2>2 DEF Rebuilds, Rebuild
    <3>2. \A q \in rows : SameKey(q, r) => q = r
      BY <1>u, <2>1, <2>2, <3>1
    <3> QED BY <2>1, <3>1, <3>2 DEF UpToDateBut
  <2> QED BY <1>a, <1>u, <2>1, <2>2, RebuildStep
<1>5. CASE AllCollected(h)
  <2>1. /\ at[h] = "collect" /\ left[h] = {} /\ Goto(h, "ended")
        /\ UNCHANGED <<rows, known>>
    BY <1>5 DEF AllCollected, End, settings
  <2>2. ~clash => UpToDateBut({})'
    BY <2>1 DEF Rebuilds, Rebuild, UpToDateBut
  <2> QED BY <1>a, <1>u, <2>1, <2>2, RebuildStep
<1> QED BY <1>1, <1>2, <1>3, <1>4, <1>5 DEF Command

LEMMA RemoveRebuilds ==
    ASSUME TypeOK, Rebuilds, NEW h \in Commands, NEW g, NEW tp, NEW s, RemoveKnownRole(h, g, tp, s)
    PROVE  Rebuilds'
<1> DEFINE gone == {q \in rows : q.guild = g /\ q.type = tp /\ q.server = s}
<1>1. /\ at[h] = "idle" /\ rows' = rows \ gone
      /\ Goto(h, IF gone = {} THEN "ended" ELSE "clear")
      /\ UNCHANGED <<known, job, left, torn>>
  BY DEF RemoveKnownRole
<1>2. ~clash => \A q, r \in rows : SameKey(q, r) => q = r
  BY DEF Rebuilds, Rebuild
<1>3. CASE gone = {}
  <2>1. /\ at'[h] = "ended" /\ \A c \in Commands \ {h} : at'[c] = at[c]
        /\ ClashIsSeen' /\ (~clash' => ~clash) /\ rows' = rows
    BY <1>1, <1>3, GotoOf DEF Handlers
  <2> QED BY <1>1, <2>1, RebuildElsewhere DEF Active
<1>4. CASE gone # {}
  BY <1>1, <1>2, <1>4, RebuildStep
<1> QED BY <1>3, <1>4

\* All maps are filled from the table, one row of a key.
LEMMA DieRebuilds ==
    ASSUME TypeOK, Rebuilds, NEW by, Die(by)
    PROVE  Rebuilds'
<1>1. /\ \A h \in Commands : at'[h] \in {"idle", "ended"}
      /\ rows' = rows /\ clash' = clash
      /\ known' \subseteq rows /\ \A r \in rows : \E q \in known' : SameKey(q, r)
  BY DEF Die, Active, Handlers
<1>2. ASSUME ~clash PROVE UpToDateBut({})' /\ \A q, r \in rows' : SameKey(q, r) => q = r
  <2>1. \A q, r \in rows : SameKey(q, r) => q = r
    BY <1>2 DEF Rebuilds, Rebuild
  <2>2. rows \subseteq known'
    BY <1>1, <2>1
  <2> QED BY <1>1, <2>1, <2>2 DEF UpToDateBut
<1> QED BY <1>1, <1>2 DEF Rebuilds, ClashIsSeen, Rebuild, Active

\* Callers and the sweep only read the maps.
LEMMA CallerRebuilds ==
    ASSUME TypeOK, Rebuilds, NEW h \in Callers, NEW next, Goto(h, next),
           UNCHANGED settings, UNCHANGED torn,
           \A c \in Commands : left'[c] = left[c] /\ job'[c] = job[c]
    PROVE  Rebuilds'
<1>1. /\ ClashIsSeen' /\ (~clash' => ~clash)
      /\ \A c \in Commands : at'[c] = at[c]
  BY GotoOf, RolesAssumption DEF Handlers
<1> QED BY <1>1, RebuildElsewhere DEF settings

LEMMA RebuildsNext == TypeOK /\ Rebuilds /\ [Next]_vars => Rebuilds'
<1> SUFFICES ASSUME TypeOK, Rebuilds, [Next]_vars PROVE Rebuilds'
  OBVIOUS
<1>0. \A c \in Commands : c \notin Callers
  BY RolesAssumption
<1>j. /\ \A h \in Callers : \A j : job' = [job EXCEPT ![h] = j] =>
             \A c \in Commands : job'[c] = job[c]
      /\ \A h \in Callers : \A l : left' = [left EXCEPT ![h] = l] =>
             \A c \in Commands : left'[c] = left[c]
  BY <1>0 DEF TypeOK, JobsOK, Handlers
<1>1. ASSUME NEW h \in Callers, NEW kind, NEW u, NEW g, NEW s, NEW next,
             Begin(h, kind, u, g, s, next)
      PROVE  Rebuilds'
  <2>1. \A c \in Commands : left'[c] = left[c] /\ job'[c] = job[c]
    BY <1>1, <1>j DEF Begin
  <2> QED BY <1>1, <2>1, CallerRebuilds DEF Begin
<1>2. CASE \/ \E h \in Callers, u \in Users, g \in Guilds : Login(h, u, g) \/ Logoff(h, u, g)
           \/ \E h \in Callers, u \in Users, g \in Guilds, s \in Servers :
                 Sub(h, u, g, s) \/ Unsub(h, u, g, s)
  BY <1>1, <1>2 DEF Login, Logoff, Sub, Unsub
<1>3. ASSUME NEW h \in Callers, UNCHANGED settings, UNCHANGED torn,
             \/ End(h)
             \/ \E next : Goto(h, next) /\ UNCHANGED <<job, left>>
      PROVE  Rebuilds'
  <2>1. \A c \in Commands : left'[c] = left[c] /\ job'[c] = job[c]
    BY <1>3, <1>j DEF End
  <2>2. PICK next : Goto(h, next)
    BY <1>3 DEF End
  <2> QED BY <1>3, <2>1, <2>2, CallerRebuilds
<1>4. ASSUME NEW h \in Callers, NEW s, GiveAdminRole(h, s) \/ DropAdminRole(h, s)
      PROVE  Rebuilds'
  <2>1. NextServer(h, s) /\ UNCHANGED settings /\ UNCHANGED torn
    BY <1>4 DEF GiveAdminRole, DropAdminRole
  <2>2. CASE End(h)
    BY <1>3, <2>1, <2>2
  <2>3. CASE ~End(h)
    <3>1. left' = [left EXCEPT ![h] = left[h] \ {s}] /\ UNCHANGED job /\ Goto(h, at[h])
      BY <2>1, <2>3 DEF NextServer
    <3>2. \A c \in Commands : left'[c] = left[c] /\ job'[c] = job[c]
      BY <1>j, <3>1
    <3> QED BY <2>1, <3>1, <3>2, CallerRebuilds
  <2> QED BY <2>2, <2>3
<1>5. ASSUME NEW h \in Callers, Caller(h) PROVE Rebuilds'
  <2>1. CASE SelectUser(h)
    <3>1. End(h) \/ \E next : Goto(h, next) /\ UNCHANGED <<job, left>>
      BY <2>1 DEF SelectUser
    <3> QED BY <1>3, <2>1, <3>1 DEF SelectUser
  <2>2. CASE EvictUser(h) \/ StoreUser(h)
    <3>1. \E next : Goto(h, next) /\ UNCHANGED <<job, left>>
      BY <2>2 DEF EvictUser, StoreUser
    <3> QED BY <1>3, <2>2, <3>1 DEF EvictUser, StoreUser
  <2>3. CASE GivePlayerRole(h)
    <3>1. End(h) \/ \E next : Goto(h, next) /\ UNCHANGED <<job, left>>
      BY <2>3 DEF GivePlayerRole
    <3> QED BY <1>3, <2>3, <3>1 DEF GivePlayerRole
  <2>4. CASE DropPlayerRole(h)
    <3>1. End(h) \/ \E next : Goto(h, next) /\ UNCHANGED <<job, left>>
      BY <2>4 DEF DropPlayerRole
    <3> QED BY <1>3, <2>4, <3>1 DEF DropPlayerRole
  <2>5. CASE Subscribe(h) \/ Unsubscribe(h)
    BY <1>3, <2>5 DEF Subscribe, Unsubscribe
  <2> QED BY <1>4, <1>5, <2>1, <2>2, <2>3, <2>4, <2>5 DEF Caller
<1>6. ASSUME UNCHANGED <<rows, known, at, job, left, clash, torn>> PROVE Rebuilds'
  <2>1. ClashIsSeen'
    BY <1>6 DEF Rebuilds, ClashIsSeen, Active
  <2> QED BY <1>6, <2>1, RebuildElsewhere
<1>7. CASE Sweep
  <2>1. UNCHANGED others
    BY <1>7 DEF Sweep, SweepBegins, ReadRoles, FetchMembers, CheckMember, StripRole, others
  <2> QED BY <2>1, <1>6 DEF others, settings
<1>8. CASE \/ \E u \in Users : Register(u) \/ Deregister(u)
           \/ \E s \in Servers, list \in SUBSET Users : LoadAdmins(s, list)
           \/ \E w \in Holding : GiveByHand(w)
  <2>1. Change
    BY <1>8 DEF Register, Deregister, LoadAdmins, GiveByHand
  <2> QED BY <2>1, <1>6 DEF Change, settings
<1>9. ASSUME NEW h \in Handlers, StatementFails(h) PROVE Rebuilds'
  <2>1. UNCHANGED settings /\ End(h) /\ torn' = (torn \/ h \in Commands)
    BY <1>9 DEF StatementFails, Fault
  <2>2. CASE h \in Commands
    <3>1. at[h] \in {"create", "query", "collect"} /\ torn' = TRUE
      BY <1>9, <2>1, <2>2 DEF StatementFails
    <3>2. Active(h) /\ Goto(h, "ended")
      BY <2>1, <3>1 DEF Active, End
    <3>3. ~clash => \A q, r \in rows : SameKey(q, r) => q = r
      BY DEF Rebuilds, Rebuild
    <3> QED BY <2>1, <2>2, <3>1, <3>2, <3>3, RebuildStep DEF settings
  <2>3. CASE h \in Callers
    <3>1. torn' = torn
      BY <1>0, <2>1, <2>3 DEF TypeOK, CountsOK
    <3> QED BY <1>3, <2>1, <2>3, <3>1
  <2> QED BY <2>2, <2>3 DEF Handlers
<1>10. ASSUME NEW h \in Callers, CallFails(h) PROVE Rebuilds'
  BY <1>3, <1>10 DEF CallFails, Fault
<1>11. CASE FetchFails \/ StripFails
  BY <1>6, <1>11 DEF FetchFails, StripFails, Fault, settings
<1>12. CASE Restart \/ \E h \in Commands : RemoveWithoutServer(h)
  BY <1>12, DieRebuilds DEF Restart, RemoveWithoutServer
<1>13. CASE UNCHANGED vars
  BY <1>6, <1>13 DEF vars
<1> QED
  BY <1>2, <1>5, <1>7, <1>8, <1>9, <1>10, <1>11, <1>12, <1>13,
     UpdateRebuilds, RemoveRebuilds, CommandRebuilds DEF Next, RoleUpdate, RoleRemove

\* Once a role command that ran alone and did not fail has ended, the maps name
\* for players and admins the roles of the table, and for subscribers at least
\* these; so does a restart (discord_main.go:852-908).
THEOREM MapsFollowTable == Spec => []KnownFollowsTable
<1>1. Init => TypeOK /\ Rebuilds
  BY TypeInit, RebuildsInit
<1>2. TypeOK /\ Rebuilds /\ [Next]_vars => TypeOK' /\ Rebuilds'
  BY TypeInductive, RebuildsNext
<1>3. Rebuilds => KnownFollowsTable
  <2>1. "player" # "subscriber" /\ "admin" # "subscriber"
    OBVIOUS
  <2> QED BY <2>1 DEF Rebuilds, Rebuild, UpToDateBut, KnownFollowsTable, OfType
<1> QED BY <1>1, <1>2, <1>3, PTL DEF Spec
=============================================================================
