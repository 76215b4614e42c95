-------------------------------- MODULE Roles --------------------------------
(***************************************************************************)
(* Discord roles: discord_main.go:852-908, 1089-1131, 1170-1251,           *)
(* 1276-1326 and the commands that call them.                              *)
(*                                                                         *)
(* DISCORD_ROLES says which role of a guild marks players, admins of a     *)
(* server and subscribers of a server; three maps hold it in memory.       *)
(* !login, !logoff, !sub and !unsub give and take these roles by REST      *)
(* calls.  Every half minute a sweep looks at every member of every guild  *)
(* and strips the player and admin roles that are not due by local_users   *)
(* and Known_admins, which change meanwhile.                               *)
(*                                                                         *)
(* Every command is a goroutine; a statement, a map access, and a map      *)
(* lookup with the REST call it is for are one step each.  The maps have   *)
(* no lock: a clear in the middle of another goroutine's access is a clear *)
(* in front of or behind it, or the death of the process, which is Die.    *)
(***************************************************************************)
EXTENDS Naturals

CONSTANTS
    Users, Guilds, Servers,
    RoleIds,        \* roles of the guilds, in Discord
    AnyServer,      \* "", the server of a player role
    Superuser,      \* discord_superuser_id; whether or not one of Users
    Moderators,     \* the users whose ckeys are in local_moderators
    Choices,        \* the rows a !role_update may ask for
    AtStart,        \* DISCORD_ROLES when the bot is first started
    AdminsAtStart,  \* the admin lists there may be then
    Commands,       \* goroutines running !role_update or !role_remove
    Callers,        \* goroutines running !login, !logoff, !sub or !unsub
    Listed,         \* <<g, u>>: u is among the members the sweep is shown of g
    Idle,           \* what a goroutine that is not at work is working for
    MaxChanges,     \* bound: registrations, lists loaded, roles given by hand
    MaxFaults       \* bound: failing calls and deaths of the bot

Types == {"player", "admin", "subscriber"}
Row == [guild : Guilds, type : Types, server : Servers \cup {AnyServer}, role : RoleIds]

SameKey(q, r) == q.guild = r.guild /\ q.type = r.type /\ q.server = r.server

\* The sweep asks for guildslim guilds and userslim members of each, and never
\* for more: the first 100 and the first 1000, as Discord orders them.
\* Moderators name a role either for players or for something else, and a
\* server with every role but the player's (discord_commands.go:589-593).
ASSUME RolesAssumption ==
    /\ Choices \subseteq Row /\ AtStart \subseteq Choices
    /\ \A r \in Choices : r.type = "player" <=> r.server = AnyServer
    /\ \A q, r \in Choices : q.type = "player" /\ q.role = r.role => r.type = "player"
    /\ \A q, r \in AtStart : SameKey(q, r) => q = r
    /\ AdminsAtStart \subseteq [Servers -> SUBSET Users]
    /\ AnyServer \notin Servers
    /\ Listed \subseteq Guilds \X Users
    /\ Commands \cap Callers = {}
    /\ MaxChanges \in Nat /\ MaxFaults \in Nat

Handlers == Commands \cup Callers
Kinds == {"login", "logoff", "sub", "unsub"}
Call == [kind : Kinds, user : Users, guild : Guilds, server : Servers \cup {AnyServer}]
Member == Users \X RoleIds
Holding == Guilds \X Users \X RoleIds

\* The roles moderators name for these types.
IdsOf(types) == {r.role : r \in {q \in Choices : q.type \in types}}

VARIABLES
    registered, \* the users with a row in DISCORD_REGISTERED_USERS
    local,      \* the users with an entry in local_users
    admins,     \* Known_admins: the users whose ckey is on a server's list
    rows,       \* DISCORD_ROLES
    known,      \* the three maps, as the rows they hold
    held,       \* who holds which role in which guild, in Discord
    at,         \* the step each goroutine is about to run
    job,        \* the row, or the call, it is at work for
    left,       \* the rows it has yet to read, or servers yet to go through
    sweep,      \* update_roles: its step and its variables
    welcomed,   \* ghost: player roles given to those known ever since
    clash,      \* ghost: two role commands were at work at once
    torn,       \* ghost: a role command failed since the bot was started
    changes, errors, restarts

vars == <<registered, local, admins, rows, known, held, at, job, left, sweep,
          welcomed, clash, torn, changes, errors, restarts>>

people == <<registered, local, admins>>
settings == <<rows, known>>
roles == <<held, welcomed>>
faults == <<errors, restarts>>

RoleOf(g, tp, s) ==
    {r.role : r \in {q \in known : q.guild = g /\ q.type = tp /\ q.server = s}}

PlayerRole(g) == RoleOf(g, "player", AnyServer)

\* get_permission_level is at least PERMISSIONS_REGISTERED, PERMISSIONS_ADMIN.
IsRegistered(u) == u = Superuser \/ u \in local
IsAdmin(u, s) == u = Superuser \/ (u \in local /\ (u \in Moderators \/ u \in admins[s]))

SweepType ==
    [at : {"rest", "guild", "members", "check", "strip"},
     guilds : SUBSET Guilds, guild : Guilds \cup {Idle},
     player : SUBSET IdsOf({"player"}),
     server : UNION {[ids -> Servers] : ids \in SUBSET IdsOf({"admin"})},
     members : SUBSET Member, target : Member \cup {Idle}]

SweepAtRest == [at |-> "rest", guilds |-> {}, guild |-> Idle, player |-> {},
                server |-> [r \in {} |-> Idle], members |-> {}, target |-> Idle]

Init ==
    /\ registered \in SUBSET Users /\ local = registered
    /\ admins \in AdminsAtStart
    /\ rows = AtStart /\ known = AtStart
    /\ held = {}
    /\ at = [h \in Handlers |-> "idle"]
    /\ job = [h \in Handlers |-> Idle]
    /\ left = [h \in Handlers |-> {}]
    /\ sweep = SweepAtRest
    /\ welcomed = {}
    /\ clash = FALSE /\ torn = FALSE
    /\ changes = 0 /\ errors = 0 /\ restarts = 0

\* What a goroutine does next: a role command writes the table and rebuilds
\* the maps; a caller is looked up in table and map, then gets or loses roles.
Stages == {"idle", "create", "clear", "query", "collect",
           "select", "evict", "store", "player", "admin",
           "drop_player", "drop_admin", "subscribe", "unsubscribe", "ended"}

Active(h) == at[h] \notin {"idle", "ended"}

\* Goroutine h goes on to its next step, or ends and forgets its variables.
Goto(h, next) ==
    /\ at' = [at EXCEPT ![h] = next]
    /\ clash' = (clash \/ \E c, d \in Commands : c # d /\ Active(c)' /\ Active(d)')

End(h) ==
    /\ job' = [job EXCEPT ![h] = Idle]
    /\ left' = [left EXCEPT ![h] = {}]
    /\ Goto(h, "ended")

-----------------------------------------------------------------------------
(* !role_update and !role_remove.                                          *)

\* update_known_role: every row of the key gets the new role, if there is one.
UpdateKnownRole(h, r) ==
    LET same == {q \in rows : SameKey(q, r)} IN
    /\ at[h] = "idle"
    /\ rows' = (rows \ same) \cup {r : q \in same}
    /\ job' = [job EXCEPT ![h] = r]
    /\ UNCHANGED <<people, known, roles, left, sweep, torn, changes, faults>>
    /\ Goto(h, IF same = {} THEN "create" ELSE "clear")

\* Mutant: the maps are not rebuilt for a new row.
CreateOnly(h) ==
    /\ at[h] = "create"
    /\ rows' = rows \cup {job[h]}
    /\ UNCHANGED <<people, known, roles, left, sweep, torn, changes, faults>>
    /\ job' = [job EXCEPT ![h] = Idle]
    /\ Goto(h, "ended")

CreateKnownRole(h) ==
    /\ at[h] = "create"
    /\ rows' = rows \cup {job[h]}
    /\ UNCHANGED <<people, known, roles, job, left, sweep, torn, changes, faults>>
    /\ Goto(h, "clear")

\* The server is the second argument, whatever the type: no row of a player
\* role has one, so the answer for it is "FAIL".
RemoveKnownRole(h, g, tp, s) ==
    LET gone == {q \in rows : q.guild = g /\ q.type = tp /\ q.server = s} IN
    /\ at[h] = "idle"
    /\ rows' = rows \ gone
    /\ UNCHANGED <<people, known, roles, job, left, sweep, torn, changes, faults>>
    /\ Goto(h, IF gone = {} THEN "ended" ELSE "clear")

\* populate_known_roles: two of the three maps are cleared.
ClearKnownRoles(h) ==
    /\ at[h] = "clear"
    /\ known' = {r \in known : r.type = "subscriber"}
    /\ UNCHANGED <<people, rows, roles, job, left, sweep, torn, changes, faults>>
    /\ Goto(h, "query")

QueryKnownRoles(h) ==
    /\ at[h] = "query"
    /\ left' = [left EXCEPT ![h] = rows]
    /\ UNCHANGED <<people, settings, roles, job, sweep, torn, changes, faults>>
    /\ Goto(h, "collect")

\* Mutant: every row is taken for one of an admin role.
CollectAsAdmin(h, r) ==
    /\ at[h] = "collect" /\ r \in left[h]
    /\ known' = known \cup {[r EXCEPT !.type = "admin"]}
    /\ left' = [left EXCEPT ![h] = @ \ {r}]
    /\ UNCHANGED <<people, rows, roles, job, sweep, torn, changes, faults>>
    /\ Goto(h, "collect")

\* closure_callback: an entry replaces the one of its key.
CollectKnownRole(h, r) ==
    /\ at[h] = "collect" /\ r \in left[h]
    /\ known' = {q \in known : ~SameKey(q, r)} \cup {r}
    /\ left' = [left EXCEPT ![h] = @ \ {r}]
    /\ UNCHANGED <<people, rows, roles, job, sweep, torn, changes, faults>>
    /\ Goto(h, "collect")

AllCollected(h) ==
    /\ at[h] = "collect" /\ left[h] = {}
    /\ UNCHANGED <<people, settings, roles, sweep, torn, changes, faults>>
    /\ End(h)

-----------------------------------------------------------------------------
(* !login, !logoff, !sub and !unsub; and the logoff of an unregistered     *)
(* user who writes to a bound channel.                                     *)

Begin(h, kind, u, g, s, next) ==
    /\ at[h] = "idle"
    /\ job' = [job EXCEPT ![h] = [kind |-> kind, user |-> u, guild |-> g, server |-> s]]
    /\ left' = [left EXCEPT ![h] = Servers]
    /\ UNCHANGED <<people, settings, roles, sweep, torn, changes, faults>>
    /\ Goto(h, next)

\* The dispatcher asks for a registered caller, who is looked up again.
Login(h, u, g) == IsRegistered(u) /\ Begin(h, "login", u, g, AnyServer, "select")
Unsub(h, u, g, s) == IsRegistered(u) /\ Begin(h, "unsub", u, g, s, "select")

\* Anybody may subscribe.
Sub(h, u, g, s) == Begin(h, "sub", u, g, s, "subscribe")

\* Whoever !logoff turns away for not being registered, messageCreate logs
\* off itself when he writes to a bound channel.
Logoff(h, u, g) == Begin(h, "logoff", u, g, AnyServer, "drop_player")

\* What is known to be held by those local_users knows ever since.
Welcome(new, gone) == welcomed' = {w \in (welcomed \ gone) \cup new : w[2] \in local'}

\* update_local_user; without a row the command ends.
SelectUser(h) ==
    /\ at[h] = "select"
    /\ UNCHANGED <<people, settings, roles, sweep, torn, changes, faults>>
    /\ IF job[h].user \in registered
         THEN UNCHANGED <<job, left>> /\ Goto(h, "evict")
         ELSE End(h)

EvictUser(h) ==
    /\ at[h] = "evict"
    /\ local' = local \ {job[h].user}
    /\ Welcome({}, {})
    /\ UNCHANGED <<registered, admins, settings, held, job, left, sweep, torn, changes, faults>>
    /\ Goto(h, "store")

StoreUser(h) ==
    /\ at[h] = "store"
    /\ local' = local \cup {job[h].user}
    /\ Welcome({}, {})
    /\ UNCHANGED <<registered, admins, settings, held, job, left, sweep, torn, changes, faults>>
    /\ Goto(h, IF job[h].kind = "login" THEN "player" ELSE "unsubscribe")

Holdings(h, ids) == {<<job[h].guild, job[h].user, r>> : r \in ids}

\* The sweep has found that u is to lose a role, and is about to strip it.
Condemned(u) == sweep.at = "strip" /\ sweep.target[1] = u

\* login_user: without a player role nothing is given, and all is well.
GivePlayerRole(h) ==
    LET ids == PlayerRole(job[h].guild) IN
    /\ at[h] = "player"
    /\ held' = held \cup Holdings(h, ids)
    /\ UNCHANGED <<people, settings, sweep, torn, changes, faults>>
    /\ Welcome(IF Condemned(job[h].user) THEN {} ELSE Holdings(h, ids), {})
    /\ IF ids = {} THEN End(h) ELSE UNCHANGED <<job, left>> /\ Goto(h, "admin")

\* The role login_user gives for server s; moderators are not looked at.
AdminRole(h, s) ==
    IF job[h].user \in admins[s] THEN RoleOf(job[h].guild, "admin", s) ELSE {}

NextServer(h, s) ==
    IF left[h] = {s} THEN End(h)
    ELSE /\ left' = [left EXCEPT ![h] = @ \ {s}]
         /\ UNCHANGED job
         /\ Goto(h, at[h])

GiveAdminRole(h, s) ==
    /\ at[h] = "admin" /\ s \in left[h]
    /\ held' = held \cup Holdings(h, AdminRole(h, s))
    /\ UNCHANGED <<people, settings, welcomed, sweep, torn, changes, faults>>
    /\ NextServer(h, s)

\* logoff_user: without a player role the admin roles are kept.
DropPlayerRole(h) ==
    LET ids == PlayerRole(job[h].guild) IN
    /\ at[h] = "drop_player"
    /\ held' = held \ Holdings(h, ids)
    /\ UNCHANGED <<people, settings, sweep, torn, changes, faults>>
    /\ Welcome({}, Holdings(h, ids))
    /\ IF ids = {} THEN End(h) ELSE UNCHANGED <<job, left>> /\ Goto(h, "drop_admin")

DropAdminRole(h, s) ==
    /\ at[h] = "drop_admin" /\ s \in left[h]
    /\ held' = held \ Holdings(h, RoleOf(job[h].guild, "admin", s))
    /\ UNCHANGED <<people, settings, welcomed, sweep, torn, changes, faults>>
    /\ NextServer(h, s)

SubscriberRole(h) == RoleOf(job[h].guild, "subscriber", job[h].server)

Subscribe(h) ==
    /\ at[h] = "subscribe"
    /\ held' = held \cup Holdings(h, SubscriberRole(h))
    /\ UNCHANGED <<people, settings, welcomed, sweep, torn, changes, faults>>
    /\ End(h)

Unsubscribe(h) ==
    /\ at[h] = "unsubscribe"
    /\ held' = held \ Holdings(h, SubscriberRole(h))
    /\ UNCHANGED <<people, settings, welcomed, sweep, torn, changes, faults>>
    /\ End(h)

-----------------------------------------------------------------------------
(* update_roles, again and again in one goroutine.                         *)

others == <<people, settings, at, job, left, clash, torn, changes>>

\* The next step once members are left to look at, and guilds behind them.
Sweeping(s) ==
    IF s.members # {} THEN [s EXCEPT !.at = "check"]
    ELSE IF s.guilds # {} THEN [s EXCEPT !.at = "guild"]
    ELSE SweepAtRest

SweepBegins ==
    /\ sweep.at = "rest"
    /\ sweep' = Sweeping([SweepAtRest EXCEPT !.guilds = {w[1] : w \in Listed}])
    /\ UNCHANGED <<others, roles, faults>>

\* A guild's roles are read, and the servers of its admin roles: one server
\* each, whichever comes last.
ReadRoles(g) ==
    LET adm == {r \in known : r.guild = g /\ r.type = "admin"} IN
    /\ sweep.at = "guild" /\ g \in sweep.guilds
    /\ \E server \in [{r.role : r \in adm} -> Servers] :
          /\ \A id \in DOMAIN server : \E r \in adm : r.role = id /\ r.server = server[id]
          /\ sweep' =
               LET s == [sweep EXCEPT !.guilds = @ \ {g}, !.guild = g,
                                      !.player = PlayerRole(g), !.server = server]
               IN  IF s.player = {} /\ adm = {} THEN Sweeping(s)
                   ELSE [s EXCEPT !.at = "members"]
    /\ UNCHANGED <<others, roles, faults>>

\* The members on the one page that is asked for, each with all his roles.
FetchMembers ==
    LET shown == {w \in held : w[1] = sweep.guild /\ <<w[1], w[2]>> \in Listed} IN
    /\ sweep.at = "members"
    /\ sweep' = Sweeping([sweep EXCEPT !.members = {<<w[2], w[3]>> : w \in shown}])
    /\ UNCHANGED <<others, roles, faults>>

\* Mutant: every role of the guild asks for an admin.
ExcessOfPlayers(u, id) ==
    \/ id \in sweep.player /\ \A s \in Servers : ~IsAdmin(u, s)
    \/ id \in DOMAIN sweep.server /\ ~IsAdmin(u, sweep.server[id])

\* Mutant: the registration of an admin is not asked again.
ExcessOfStrangers(u, id) == id \in sweep.player /\ ~IsRegistered(u)

\* Member u holds a role that is not due.
Excess(u, id) ==
    \/ id \in sweep.player /\ ~IsRegistered(u)
    \/ id \in DOMAIN sweep.server /\ ~IsAdmin(u, sweep.server[id])

CheckMember(m) ==
    /\ sweep.at = "check" /\ m \in sweep.members
    /\ sweep' = LET s == [sweep EXCEPT !.members = @ \ {m}] IN
                IF Excess(m[1], m[2]) THEN [s EXCEPT !.at = "strip", !.target = m]
                ELSE Sweeping(s)
    /\ UNCHANGED <<others, roles, faults>>

StripRole ==
    /\ sweep.at = "strip"
    /\ held' = held \ {<<sweep.guild, sweep.target[1], sweep.target[2]>>}
    /\ sweep' = Sweeping([sweep EXCEPT !.target = Idle])
    /\ UNCHANGED <<others, welcomed, faults>>

-----------------------------------------------------------------------------
(* What others do meanwhile, one step each.                                *)

Change ==
    /\ changes < MaxChanges
    /\ changes' = changes + 1
    /\ UNCHANGED <<settings, at, job, left, sweep, clash, torn, faults>>

Register(u) ==
    /\ Change
    /\ registered' = registered \cup {u} /\ local' = local \cup {u}
    /\ UNCHANGED <<admins, roles>>

Deregister(u) ==
    /\ Change
    /\ u \in registered
    /\ registered' = registered \ {u} /\ local' = local \ {u}
    /\ Welcome({}, {})
    /\ UNCHANGED <<admins, held>>

\* Load_admins_for_server puts the whole list in place at once.
LoadAdmins(s, list) ==
    /\ Change
    /\ admins' = [admins EXCEPT ![s] = list]
    /\ UNCHANGED <<registered, local, roles>>

\* Somebody gives a role in Discord.
GiveByHand(w) ==
    /\ Change
    /\ held' = held \cup {w}
    /\ UNCHANGED <<people, welcomed>>

-----------------------------------------------------------------------------
(* Failures.                                                               *)

Fault ==
    /\ errors + restarts < MaxFaults
    /\ errors' = errors + 1
    /\ UNCHANGED <<people, settings, roles, changes, restarts>>

\* A failing statement, of a role command or of update_local_user, ends it.
StatementFails(h) ==
    /\ Fault
    /\ at[h] \in IF h \in Commands THEN {"create", "query", "collect"} ELSE {"select"}
    /\ torn' = (torn \/ h \in Commands)
    /\ UNCHANGED sweep
    /\ End(h)

\* A REST call that gives or takes a role fails: the command ends.
CallFails(h) ==
    LET g == job[h].guild IN
    /\ Fault
    /\ \/ at[h] \in {"player", "drop_player"} /\ PlayerRole(g) # {}
       \/ at[h] = "admin" /\ \E s \in left[h] : AdminRole(h, s) # {}
       \/ at[h] = "drop_admin" /\ \E s \in left[h] : RoleOf(g, "admin", s) # {}
       \/ at[h] \in {"subscribe", "unsubscribe"} /\ SubscriberRole(h) # {}
    /\ UNCHANGED <<sweep, torn>>
    /\ End(h)

\* The bot may not list the guild's members, or the request fails: the sweep
\* goes on to the next guild, or is over.
FetchFails ==
    /\ Fault
    /\ sweep.at = "members"
    /\ sweep' \in {Sweeping(sweep), SweepAtRest}
    /\ UNCHANGED <<at, job, left, clash, torn>>

\* The result of the call is not looked at.
StripFails ==
    /\ Fault
    /\ sweep.at = "strip"
    /\ sweep' = Sweeping([sweep EXCEPT !.target = Idle])
    /\ UNCHANGED <<at, job, left, clash, torn>>

\* The process dies and is started again: all maps are filled from the tables,
\* the admin lists from the hub, those that do not load stay empty.
Die(by) ==
    /\ at' = [h \in Handlers |-> IF Active(h) \/ h \in by THEN "ended" ELSE at[h]]
    /\ job' = [h \in Handlers |-> Idle]
    /\ left' = [h \in Handlers |-> {}]
    /\ sweep' = SweepAtRest
    /\ local' = registered
    /\ \E loaded \in SUBSET Servers :
          admins' = [s \in Servers |-> IF s \in loaded THEN admins[s] ELSE {}]
    /\ known' \in {k \in SUBSET rows : \A r \in rows : \E q \in k : SameKey(q, r)}
    /\ \A q, r \in known' : SameKey(q, r) => q = r
    /\ Welcome({}, {})
    /\ torn' = FALSE
    /\ UNCHANGED <<registered, rows, held, clash, changes>>

Restart ==
    /\ errors + restarts < MaxFaults
    /\ restarts' = restarts + 1
    /\ Die({})
    /\ UNCHANGED errors

\* "!role_remove player", without the server the usage calls optional, reads
\* an argument that is not there, and nothing recovers.
RemoveWithoutServer(h) ==
    /\ at[h] = "idle"
    /\ Die({h})
    /\ UNCHANGED faults

-----------------------------------------------------------------------------
RoleUpdate(h) == \E r \in Choices : UpdateKnownRole(h, r)

RoleRemove(h) ==
    \/ \E g \in Guilds, tp \in Types, s \in Servers : RemoveKnownRole(h, g, tp, s)
    \/ RemoveWithoutServer(h)

Command(h) ==
    \/ CreateKnownRole(h) \/ ClearKnownRoles(h) \/ QueryKnownRoles(h) \/ AllCollected(h)
    \/ \E r \in rows \cup left[h] : CollectKnownRole(h, r)

Caller(h) ==
    \/ SelectUser(h) \/ EvictUser(h) \/ StoreUser(h)
    \/ GivePlayerRole(h) \/ DropPlayerRole(h) \/ Subscribe(h) \/ Unsubscribe(h)
    \/ \E s \in Servers : GiveAdminRole(h, s) \/ DropAdminRole(h, s)

Sweep ==
    \/ SweepBegins \/ FetchMembers \/ StripRole
    \/ \E g \in Guilds : ReadRoles(g)
    \/ \E m \in Member : CheckMember(m)

Next ==
    \/ \E h \in Commands : RoleUpdate(h) \/ RoleRemove(h) \/ Command(h)
    \/ \E h \in Callers, u \in Users, g \in Guilds : Login(h, u, g) \/ Logoff(h, u, g)
    \/ \E h \in Callers, u \in Users, g \in Guilds, s \in Servers :
          Sub(h, u, g, s) \/ Unsub(h, u, g, s)
    \/ \E h \in Callers : Caller(h) \/ CallFails(h)
    \/ Sweep
    \/ \E u \in Users : Register(u) \/ Deregister(u)
    \/ \E s \in Servers, list \in SUBSET Users : LoadAdmins(s, list)
    \/ \E w \in Holding : GiveByHand(w)
    \/ \E h \in Handlers : StatementFails(h)
    \/ FetchFails \/ StripFails \/ Restart

\* The ticker runs the sweep for ever; no command has to come to an end.
Fairness == WF_vars(Sweep)

Spec == Init /\ [][Next]_vars /\ Fairness

-----------------------------------------------------------------------------
(***************************************************************************)
(* Properties.                                                             *)
(***************************************************************************)

DataOK ==
    /\ registered \subseteq Users /\ local \subseteq Users
    /\ admins \in [Servers -> SUBSET Users]
    /\ rows \subseteq Choices /\ known \subseteq Choices
    /\ held \subseteq Holding /\ welcomed \subseteq Holding

JobsOK ==
    /\ at \in [Handlers -> Stages]
    /\ job \in [Handlers -> Choices \cup Call \cup {Idle}]
    /\ left \in [Handlers -> SUBSET (Choices \cup Servers)]
    /\ \A h \in Commands : left[h] \subseteq Choices /\ (at[h] = "create" => job[h] \in Choices)
    /\ \A h \in Callers : Active(h) => job[h] \in Call

CountsOK ==
    /\ clash \in BOOLEAN /\ torn \in BOOLEAN
    /\ changes \in 0..MaxChanges /\ errors \in Nat /\ restarts \in Nat
    /\ errors + restarts <= MaxFaults

\* Tables, maps, Discord's own record and the locals of every goroutine keep
\* their types: what is stored and given are roles a moderator named or
\* somebody gave, and a goroutine at work always knows what it works for.
TypeOK == DataOK /\ JobsOK /\ sweep \in SweepType /\ CountsOK

\* A member who was given the player role by !login keeps it as long as
\* local_users knows him and he does not log off, through any sweep, any
\* change of roles and any restart (discord_main.go:1306-1312); unless the
\* sweep had condemned him before he was given it.
WelcomedKeepsRole == welcomed \subseteq held

OfType(map, tp) == {r \in map : r.type = tp}

\* With no role command at work, none having overlapped or failed, the maps
\* hold what the table holds; the map of subscriber roles may hold more.
KnownFollowsTable ==
    ~clash /\ ~torn /\ (\A h \in Commands : ~Active(h)) =>
        /\ OfType(known, "player") = OfType(rows, "player")
        /\ OfType(known, "admin") = OfType(rows, "admin")
        /\ OfType(rows, "subscriber") \subseteq known

\* Member u of guild g holds a role of which the bot knows that he has lost
\* the right to it.
Overdue(g, u) ==
    \E id \in {w[3] : w \in {v \in held : v[1] = g /\ v[2] = u}} :
        \/ id \in PlayerRole(g) /\ ~IsRegistered(u)
        \/ /\ \E s \in Servers : id \in RoleOf(g, "admin", s)
           /\ \A s \in Servers : id \in RoleOf(g, "admin", s) => ~IsAdmin(u, s)

\* "stripping excess roles" (discord_main.go:1274): nobody whom the sweep is
\* shown keeps for ever a role he has no right to, however sweeps, logins and
\* changes overlap.  The limits of 100 guilds and 1000 members (1271-1272) leave
\* out the others: nothing ever strips them.
ExcessIsStripped == \A w \in Listed : []<>~Overdue(w[1], w[2])

\* !role_remove "removes role of [!type] type" (discord_commands.go:614): while
\* no role command is at work, overlapped or failed, the bot knows no role that
\* is not in the table any more.
RemovedRoleIsForgotten ==
    ~clash /\ ~torn /\ (\A h \in Commands : ~Active(h)) => known \subseteq rows
=============================================================================
