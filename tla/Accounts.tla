------------------------------ MODULE Accounts ------------------------------
(***************************************************************************)
(* Linking a Discord account (login) to a byond account (ckey):            *)
(* discord_main.go:763-850 and the commands that call it.                  *)
(*                                                                         *)
(* !register stores a one-time token for the caller.  The game server      *)
(* sends it back from the player's session, so the webhook that carries    *)
(* it proves that login and ckey are the same person; register_user then   *)
(* rewrites the table row and refreshes local_users, the map every         *)
(* permission check reads.  !login and !unsub refresh the map too, and     *)
(* !deregister removes a login.                                            *)
(*                                                                         *)
(* Every command and every webhook is a goroutine of its own.  A statement *)
(* is atomic in the database and commits on its own; between two of them   *)
(* any other goroutine may run.  A failing statement panics, which ends    *)
(* the function that holds the deferred logging_recover.  Neither table    *)
(* has a unique key (db_part.go:185-294).                                  *)
(***************************************************************************)
EXTENDS Naturals, FiniteSets

CONSTANTS
    Logins, Ckeys,
    Nobody,         \* "", what a missing map entry reads as
    Registers,      \* goroutines running !register; also the tokens they make
    Redeems,        \* goroutines running the token webhook
    Deregisters,    \* goroutines running !deregister
    Lookups,        \* goroutines running !login or !unsub
    MaxFaults       \* bound: failing statements and restarts of the bot

ASSUME AccountsAssumption ==
    /\ Nobody \notin Logins \cup Ckeys
    /\ MaxFaults \in Nat

Handlers == Registers \cup Redeems \cup Deregisters \cup Lookups

VARIABLES
    tokens,     \* DISCORD_TOKENS, rows of type "register"
    rows,       \* DISCORD_REGISTERED_USERS
    cache,      \* local_users
    at,         \* the statement each goroutine is about to run
    login,      \* the login each goroutine works for
    ckey,       \* the ckey it registers, or has read for its login
    token,      \* the token it was given
    proven,     \* ghost: the pairs some redeemed token has proven
    inserted,   \* ghost: the webhooks that have inserted their row
    removed,    \* ghost: logins deregistered with "OK", not inserted since
    clash,      \* ghost: two goroutines were at work on one login or ckey
    torn,       \* ghost: a statement failed since the bot was started
    errors, restarts

vars == <<tokens, rows, cache, at, login, ckey, token, proven, inserted,
          removed, clash, torn, errors, restarts>>

tables == <<tokens, rows>>
locals == <<login, ckey, token>>
ghosts == <<proven, inserted, removed>>
faults == <<torn, errors, restarts>>

\* A row names the webhook that inserted it, so that two equal rows stay two.
Row == [login : Logins, ckey : Ckeys, by : Redeems \cup {Nobody}]
Token == [id : Registers, login : Logins]

\* What a goroutine does next: register_user first deletes, then inserts,
\* then update_local_user selects, evicts from the map and stores in it.
Stages == {"idle", "create", "spend", "delete_did", "delete_ckey", "insert",
           "select", "evict", "store", "delete", "forget", "ended"}

Active(h) == at[h] \notin {"idle", "ended"}
Quiet == \A h \in Handlers : ~Active(h)

\* Two goroutines are at work on one login or one ckey.
Clashing ==
    \E g, h \in Handlers :
        /\ g # h /\ Active(g) /\ Active(h)
        /\ login[g] = login[h] \/ (ckey[g] = ckey[h] /\ ckey[g] # Nobody)

\* Goroutine h goes on to its next stage.  The last conjunct of an action: it
\* looks at the next values of login and ckey.
Goto(h, next) ==
    /\ at' = [at EXCEPT ![h] = next]
    /\ clash' = (clash \/ Clashing')

\* It goes on, and has changed nothing.
Pass(h, stage, next) ==
    /\ at[h] = stage
    /\ UNCHANGED <<tables, cache, locals, ghosts, faults>>
    /\ Goto(h, next)

Init ==
    /\ tokens = {}
    /\ cache \in [Logins -> Ckeys \cup {Nobody}]
    /\ \A l, m \in Logins : cache[l] = cache[m] /\ cache[l] # Nobody => l = m
    /\ rows = {[login |-> l, ckey |-> cache[l], by |-> Nobody] :
                   l \in {m \in Logins : cache[m] # Nobody}}
    /\ at = [h \in Handlers |-> "idle"]
    /\ login = [h \in Handlers |-> Nobody]
    /\ ckey = [h \in Handlers |-> Nobody]
    /\ token = [h \in Handlers |-> Nobody]
    /\ proven = {<<r.login, r.ckey>> : r \in rows}
    /\ inserted = {} /\ removed = {}
    /\ clash = FALSE /\ torn = FALSE
    /\ errors = 0 /\ restarts = 0

-----------------------------------------------------------------------------
(* !register: drop the tokens of login l, make a new one.                  *)

RemoveTokens(h, l, gone) ==
    /\ at[h] = "idle"
    /\ tokens' = tokens \ gone
    /\ login' = [login EXCEPT ![h] = l]
    /\ UNCHANGED <<rows, cache, ckey, token, ghosts, faults>>
    /\ Goto(h, "create")

\* Mutant: the old tokens are left valid.
RemoveNone(h, l) == RemoveTokens(h, l, {})

RemoveToken(h, l) == RemoveTokens(h, l, {t \in tokens : t.login = l})

CreateToken(h) ==
    /\ at[h] = "create"
    /\ tokens' = tokens \cup {[id |-> h, login |-> login[h]]}
    /\ UNCHANGED <<rows, cache, locals, ghosts, faults>>
    /\ Goto(h, "ended")

-----------------------------------------------------------------------------
(* The token webhook: expend_token, then register_user.                    *)

\* The game server says that the player of ckey k typed token id.
SelectToken(h, id, k) ==
    /\ at[h] = "idle"
    /\ \E t \in tokens :
          /\ t.id = id
          /\ login' = [login EXCEPT ![h] = t.login]
          /\ proven' = proven \cup {<<t.login, k>>}
    /\ ckey' = [ckey EXCEPT ![h] = k]
    /\ token' = [token EXCEPT ![h] = id]
    /\ UNCHANGED <<tables, cache, inserted, removed, faults>>
    /\ Goto(h, "spend")

\* No such token: Scan panics and the type stays "".
NoSuchToken(h, id) ==
    /\ \A t \in tokens : t.id # id
    /\ Pass(h, "idle", "ended")

\* Mutant: the token is not spent.
SpendNothing(h) == Pass(h, "spend", "delete_did")

\* Whether a row was deleted is not looked at.
SpendToken(h) ==
    /\ at[h] = "spend"
    /\ tokens' = {t \in tokens : t.id # token[h]}
    /\ UNCHANGED <<rows, cache, locals, ghosts, faults>>
    /\ Goto(h, "delete_did")

DeleteLogin(h) ==
    /\ at[h] = "delete_did"
    /\ rows' = {r \in rows : r.login # login[h]}
    /\ UNCHANGED <<tokens, cache, locals, ghosts, faults>>
    /\ Goto(h, "delete_ckey")

\* Mutant: the other account of the ckey is left in the table.
DeleteNoCkey(h) == Pass(h, "delete_ckey", "insert")

DeleteCkey(h) ==
    /\ at[h] = "delete_ckey"
    /\ rows' = {r \in rows : r.ckey # ckey[h]}
    /\ UNCHANGED <<tokens, cache, locals, ghosts, faults>>
    /\ Goto(h, "insert")

InsertRow(h, l, k) ==
    /\ at[h] = "insert"
    /\ rows' = rows \cup {[login |-> l, ckey |-> k, by |-> h]}
    /\ inserted' = inserted \cup {h}
    /\ removed' = removed \ {login[h]}
    /\ UNCHANGED <<tokens, cache, locals, proven, faults>>
    /\ Goto(h, "select")

\* Mutant: the columns are swapped.
InsertSwapped(h) == InsertRow(h, ckey[h], login[h])

InsertUser(h) == InsertRow(h, login[h], ckey[h])

-----------------------------------------------------------------------------
(* update_local_user, from register_user and from !login and !unsub.       *)

\* The dispatcher lets only a login it knows run these commands (or the
\* superuser, known or not, who is left out).
Lookup(h, l) ==
    /\ at[h] = "idle"
    /\ cache[l] # Nobody
    /\ login' = [login EXCEPT ![h] = l]
    /\ UNCHANGED <<tables, cache, ckey, token, ghosts, faults>>
    /\ Goto(h, "select")

SelectFrom(h, candidates) ==
    /\ at[h] = "select"
    /\ \E r \in candidates : ckey' = [ckey EXCEPT ![h] = r.ckey]
    /\ UNCHANGED <<tables, cache, login, token, ghosts, faults>>
    /\ Goto(h, "evict")

\* Mutant: the statement has no where clause.
SelectAnyone(h) == SelectFrom(h, rows)

\* The first row the database happens to return.
SelectUser(h) == SelectFrom(h, {r \in rows : r.login = login[h]})

\* No row: Scan panics before the map is touched.
NoSuchUser(h) ==
    /\ \A r \in rows : r.login # login[h]
    /\ Pass(h, "select", "ended")

\* Mutant: only the login's own entry is evicted.
EvictSelf(h) ==
    /\ at[h] = "evict"
    /\ cache' = [cache EXCEPT ![login[h]] = Nobody]
    /\ UNCHANGED <<tables, locals, ghosts, faults>>
    /\ Goto(h, "store")

\* The loop over local_users: the login and whoever else holds the ckey.
EvictOthers(h) ==
    /\ at[h] = "evict"
    /\ cache' = [l \in Logins |->
          IF l = login[h] \/ cache[l] = ckey[h] THEN Nobody ELSE cache[l]]
    /\ UNCHANGED <<tables, locals, ghosts, faults>>
    /\ Goto(h, "store")

StoreUser(h) ==
    /\ at[h] = "store"
    /\ cache' = [cache EXCEPT ![login[h]] = ckey[h]]
    /\ UNCHANGED <<tables, locals, ghosts, faults>>
    /\ Goto(h, "ended")

-----------------------------------------------------------------------------
(* !deregister.                                                            *)

Deregister(h, l) ==
    /\ at[h] = "idle"
    /\ cache[l] # Nobody
    /\ login' = [login EXCEPT ![h] = l]
    /\ UNCHANGED <<tables, cache, ckey, token, ghosts, faults>>
    /\ Goto(h, "delete")

\* "FAIL" when no row was there; the map is left alone then.
DeleteUser(h) ==
    /\ at[h] = "delete"
    /\ rows' = {r \in rows : r.login # login[h]}
    /\ UNCHANGED <<tokens, cache, locals, ghosts, faults>>
    /\ Goto(h, IF rows' # rows THEN "forget" ELSE "ended")

ForgetUser(h) ==
    /\ at[h] = "forget"
    /\ cache' = [cache EXCEPT ![login[h]] = Nobody]
    /\ removed' = removed \cup {login[h]}
    /\ UNCHANGED <<tables, locals, proven, inserted, faults>>
    /\ Goto(h, "ended")

-----------------------------------------------------------------------------
(* Failing statements and restarts.                                        *)

\* Remove_token recovers by itself and !register goes on without looking.
RemoveFails(h, l) ==
    /\ at[h] = "idle"
    /\ errors + restarts < MaxFaults
    /\ login' = [login EXCEPT ![h] = l]
    /\ errors' = errors + 1
    /\ torn' = TRUE
    /\ UNCHANGED <<tables, cache, ckey, token, ghosts, restarts>>
    /\ Goto(h, "create")

\* So does remove_token_by_id; any other failing statement ends the handler.
AfterPanic == [stage \in Stages |-> IF stage = "spend" THEN "delete_did" ELSE "ended"]

StatementFails(h) ==
    /\ errors + restarts < MaxFaults
    /\ at[h] \in {"create", "spend", "delete_did", "delete_ckey", "insert",
                  "select", "delete"}
    /\ errors' = errors + 1
    /\ torn' = TRUE
    /\ UNCHANGED <<tables, cache, locals, ghosts, restarts>>
    /\ Goto(h, AfterPanic[at[h]])

\* The process dies, also of a concurrent map access the runtime catches;
\* update_local_users fills an empty map, the last row of a login wins.
Restart ==
    /\ errors + restarts < MaxFaults
    /\ cache' \in [Logins -> Ckeys \cup {Nobody}]
    /\ \A l \in Logins :
          LET own == {r.ckey : r \in {q \in rows : q.login = l}}
          IN  IF own = {} THEN cache'[l] = Nobody ELSE cache'[l] \in own
    /\ at' = [h \in Handlers |-> IF Active(h) THEN "ended" ELSE at[h]]
    /\ torn' = FALSE
    /\ restarts' = restarts + 1
    /\ UNCHANGED <<tables, locals, ghosts, clash, errors>>

-----------------------------------------------------------------------------
Next ==
    \/ \E h \in Registers, l \in Logins : RemoveToken(h, l)
    \/ \E h \in Redeems, id \in Registers, k \in Ckeys : SelectToken(h, id, k)
    \/ \E h \in Redeems, id \in Registers : NoSuchToken(h, id)
    \/ \E h \in Lookups, l \in Logins : Lookup(h, l)
    \/ \E h \in Deregisters, l \in Logins : Deregister(h, l)
    \/ \E h \in Registers : CreateToken(h)
    \/ \E h \in Redeems : SpendToken(h) \/ DeleteLogin(h) \/ DeleteCkey(h) \/ InsertUser(h)
    \/ \E h \in Redeems \cup Lookups :
          SelectUser(h) \/ NoSuchUser(h) \/ EvictOthers(h) \/ StoreUser(h)
    \/ \E h \in Deregisters : DeleteUser(h) \/ ForgetUser(h)
    \/ \E h \in Registers, l \in Logins : RemoveFails(h, l)
    \/ \E h \in Handlers : StatementFails(h)
    \/ Restart

Spec == Init /\ [][Next]_vars

-----------------------------------------------------------------------------
(***************************************************************************)
(* Properties.                                                             *)
(***************************************************************************)

\* Tables, map and the locals of every goroutine keep their types: no row, no
\* token and no map entry is half written, whatever fails.
TypeOK ==
    /\ tokens \subseteq Token
    /\ rows \subseteq Row
    /\ cache \in [Logins -> Ckeys \cup {Nobody}]
    /\ at \in [Handlers -> Stages]
    /\ login \in [Handlers -> Logins \cup {Nobody}]
    /\ ckey \in [Handlers -> Ckeys \cup {Nobody}]
    /\ token \in [Handlers -> Registers \cup {Nobody}]
    /\ proven \subseteq Logins \X Ckeys
    /\ inserted \subseteq Redeems /\ removed \subseteq Logins
    /\ clash \in BOOLEAN /\ torn \in BOOLEAN
    /\ errors \in Nat /\ restarts \in Nat /\ errors + restarts <= MaxFaults

\* Nobody is known under, or stored with, a ckey whose player has not sent
\* back a token of that login, whatever overlaps, fails or restarts
\* (every permission check reads local_users, discord_main.go:271-282).
OnlyProvenLinks ==
    /\ \A r \in rows : <<r.login, r.ckey>> \in proven
    /\ \A l \in Logins : cache[l] # Nobody => <<l, cache[l]>> \in proven

\* While no two goroutines work on one login or ckey at once, a login has one
\* row and a ckey one row, also after failures and crashes in between: the
\* delete_user_did and delete_user_ckey of register_user stand in for the
\* unique keys the table lacks.
LinksAreOneToOne ==
    ~clash => \A q, r \in rows : q.login = r.login \/ q.ckey = r.ckey => q = r

\* Under the same condition, with no statement failed since the start,
\* local_users says what the table says whenever no goroutine is at work.
CacheFollowsTable ==
    Quiet /\ ~clash /\ ~torn =>
        \A l \in Logins, k \in Ckeys :
            cache[l] = k <=> \E r \in rows : r.login = l /\ r.ckey = k

\* A token registers once: a second webhook with it comes too late, and a
\* crash between reading and deleting it has not registered anything.
TokenRegistersOnce ==
    ~clash /\ errors = 0 =>
        \A g, h \in inserted : token[g] = token[h] => g = h

\* !register leaves a login one token, whatever was left by a crash before.
OneTokenPerLogin ==
    ~clash /\ errors = 0 => \A s, t \in tokens : s.login = t.login => s = t

\* !deregister "deregisters specified user" (discord_commands.go:1368): once
\* it said OK the bot no longer knows the login, until it is inserted anew.
DeregisteredIsUnknown ==
    \A l \in removed : cache[l] = Nobody
=============================================================================
