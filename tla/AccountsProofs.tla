--------------------------- MODULE AccountsProofs ---------------------------
(***************************************************************************)
(* Accounts keeps its types, links only what a token has proven, and while *)
(* goroutines keep out of each other's way, links one to one, follows the  *)
(* table and uses a token once: for every number of logins, ckeys,         *)
(* goroutines and faults.                                                  *)
(***************************************************************************)
EXTENDS Accounts, TLAPS

\* What a goroutine holds in its locals.  OnlyProvenLinks is inductive only
\* with it: what is inserted or stored was held since the token was read, or
\* was read from a row.
Held ==
    \A h \in Handlers :
        /\ Active(h) => login[h] \in Logins
        /\ at[h] \in {"spend", "delete_did", "delete_ckey", "insert", "evict", "store"}
              => ckey[h] \in Ckeys /\ <<login[h], ckey[h]>> \in proven

Inv == TypeOK /\ Held /\ OnlyProvenLinks

\* The rows the table starts with are proven, and nobody holds anything.
LEMMA InvInit == Init => Inv
<1> SUFFICES ASSUME Init PROVE Inv
  OBVIOUS
<1>1. \A r \in rows : r \in Row /\ r.login \in Logins /\ r.ckey \in Ckeys
                      /\ <<r.login, r.ckey>> \in proven
  BY AccountsAssumption DEF Init, Row
<1>2. \A l \in Logins : cache[l] # Nobody => <<l, cache[l]>> \in proven
  <2> SUFFICES ASSUME NEW l \in Logins, cache[l] # Nobody
               PROVE  <<l, cache[l]>> \in proven
    OBVIOUS
  <2>1. [login |-> l, ckey |-> cache[l], by |-> Nobody] \in rows
    BY DEF Init
  <2> QED
    BY <2>1 DEF Init
<1>3. proven \subseteq Logins \X Ckeys
  BY <1>1 DEF Init
<1>4. TypeOK
  <2>1. rows \subseteq Row /\ tokens \subseteq Token /\ inserted \subseteq Redeems
        /\ removed \subseteq Logins
    BY <1>1 DEF Init
  <2>2. /\ errors \in Nat /\ restarts \in Nat /\ errors + restarts <= MaxFaults
    BY AccountsAssumption DEF Init
  <2>3. /\ at \in [Handlers -> Stages]
        /\ login \in [Handlers -> Logins \cup {Nobody}]
        /\ ckey \in [Handlers -> Ckeys \cup {Nobody}]
        /\ token \in [Handlers -> Registers \cup {Nobody}]
        /\ cache \in [Logins -> Ckeys \cup {Nobody}]
    BY DEF Init, Stages
  <2>4. clash \in BOOLEAN /\ torn \in BOOLEAN
    BY DEF Init
  <2> QED
    BY <1>3, <2>1, <2>2, <2>3, <2>4 DEF TypeOK
<1> QED
  BY <1>1, <1>2, <1>4 DEF Init, Inv, Held, OnlyProvenLinks, Active

\* One step of goroutine h, which only goes from proven links to proven links
\* and leaves the locals of the others alone.
LEMMA StepKeeps ==
    ASSUME Inv, NEW h \in Handlers, NEW next \in Stages, Goto(h, next),
           tokens' \subseteq Token, rows' \subseteq Row,
           cache' \in [Logins -> Ckeys \cup {Nobody}],
           login' \in [Handlers -> Logins \cup {Nobody}],
           ckey' \in [Handlers -> Ckeys \cup {Nobody}],
           token' \in [Handlers -> Registers \cup {Nobody}],
           inserted' \subseteq Redeems, removed' \subseteq Logins,
           torn' \in BOOLEAN, errors' \in Nat, restarts' \in Nat,
           errors' + restarts' <= MaxFaults,
           proven \subseteq proven', proven' \subseteq Logins \X Ckeys,
           \A r \in rows' : <<r.login, r.ckey>> \in proven',
           \A l \in Logins : cache'[l] # Nobody => <<l, cache'[l]>> \in proven',
           \A g \in Handlers \ {h} : login'[g] = login[g] /\ ckey'[g] = ckey[g],
           next # "ended" => login'[h] \in Logins,
           next \in {"spend", "delete_did", "delete_ckey", "insert", "evict", "store"}
              => ckey'[h] \in Ckeys /\ <<login'[h], ckey'[h]>> \in proven'
    PROVE  Inv'
<1>1. at' \in [Handlers -> Stages] /\ at'[h] = next
      /\ \A g \in Handlers \ {h} : at'[g] = at[g]
  BY DEF Goto, Inv, TypeOK
<1>2. clash' \in BOOLEAN
  BY DEF Goto, Inv, TypeOK
<1>3. TypeOK'
  BY <1>1, <1>2 DEF TypeOK
<1>4. Held'
  <2> SUFFICES ASSUME NEW g \in Handlers
               PROVE  /\ Active(g)' => login'[g] \in Logins
                      /\ at'[g] \in {"spend", "delete_did", "delete_ckey", "insert",
                                     "evict", "store"}
                            => ckey'[g] \in Ckeys /\ <<login'[g], ckey'[g]>> \in proven'
    BY DEF Held
  <2>1. CASE g = h
    BY <1>1, <2>1 DEF Active
  <2>2. CASE g # h
    BY <1>1, <2>2 DEF Active, Inv, Held
  <2> QED
    BY <2>1, <2>2
<1>5. OnlyProvenLinks'
  BY DEF OnlyProvenLinks
<1> QED
  BY <1>3, <1>4, <1>5 DEF Inv

\* Every step of a goroutine, a failing statement and a restart keep Inv.
LEMMA InvNext == Inv /\ [Next]_vars => Inv'
<1> SUFFICES ASSUME Inv, [Next]_vars
             PROVE  Inv'
  OBVIOUS
<1> USE DEF Inv, TypeOK, tables, locals, ghosts, faults
<1>0. /\ \A r \in rows : r \in Row /\ <<r.login, r.ckey>> \in proven
                         /\ r.login \in Logins /\ r.ckey \in Ckeys
      /\ \A l \in Logins : cache[l] # Nobody => <<l, cache[l]>> \in proven
      /\ \A t \in tokens : t.id \in Registers /\ t.login \in Logins
  BY DEF OnlyProvenLinks, Row, Token
<1>1. ASSUME NEW h \in Handlers, NEW stage \in Stages, NEW next \in Stages,
             Pass(h, stage, next),
             next # "ended" => login[h] \in Logins,
             next \in {"spend", "delete_did", "delete_ckey", "insert", "evict", "store"}
                => ckey[h] \in Ckeys /\ <<login[h], ckey[h]>> \in proven
      PROVE  Inv'
  BY <1>0, <1>1, StepKeeps DEF Pass
<1>2. ASSUME NEW h \in Registers, NEW l \in Logins, RemoveToken(h, l)
      PROVE  Inv'
  BY <1>0, <1>2, StepKeeps DEF RemoveToken, RemoveTokens, Handlers, Stages
<1>3. ASSUME NEW h \in Registers, CreateToken(h)
      PROVE  Inv'
  <2>1. login[h] \in Logins
    BY <1>3 DEF CreateToken, Held, Active, Handlers
  <2>2. [id |-> h, login |-> login[h]] \in Token
    BY <2>1 DEF Token
  <2> QED
    BY <1>0, <1>3, <2>1, <2>2, StepKeeps DEF CreateToken, Handlers, Stages
<1>4. ASSUME NEW h \in Redeems, NEW id \in Registers, NEW k \in Ckeys, SelectToken(h, id, k)
      PROVE  Inv'
  <2>1. PICK t \in tokens : /\ login' = [login EXCEPT ![h] = t.login]
                            /\ proven' = proven \cup {<<t.login, k>>}
    BY <1>4 DEF SelectToken
  <2>2. t.login \in Logins
    BY <1>0
  <2>3. /\ login' \in [Handlers -> Logins \cup {Nobody}]
        /\ ckey' \in [Handlers -> Ckeys \cup {Nobody}]
        /\ token' \in [Handlers -> Registers \cup {Nobody}]
        /\ login'[h] = t.login /\ ckey'[h] = k
        /\ \A g \in Handlers \ {h} : login'[g] = login[g] /\ ckey'[g] = ckey[g]
    BY <1>4, <2>1, <2>2 DEF SelectToken, Handlers
  <2>4. proven \subseteq proven' /\ proven' \subseteq Logins \X Ckeys
        /\ <<t.login, k>> \in proven'
    BY <2>1, <2>2
  <2> QED
    BY <1>0, <1>4, <2>2, <2>3, <2>4, StepKeeps DEF SelectToken, Handlers, Stages
<1>5. ASSUME NEW h \in Redeems, NEW id \in Registers, NoSuchToken(h, id)
      PROVE  Inv'
  BY <1>1, <1>5 DEF NoSuchToken, Handlers, Stages
<1>6. ASSUME NEW h \in Redeems, SpendToken(h) \/ DeleteLogin(h) \/ DeleteCkey(h)
      PROVE  Inv'
  <2>1. login[h] \in Logins /\ ckey[h] \in Ckeys /\ <<login[h], ckey[h]>> \in proven
    BY <1>6 DEF SpendToken, DeleteLogin, DeleteCkey, Held, Active, Handlers
  <2>2. CASE SpendToken(h)
    BY <1>0, <2>1, <2>2, StepKeeps DEF SpendToken, Handlers, Stages
  <2>3. CASE DeleteLogin(h)
    BY <1>0, <2>1, <2>3, StepKeeps DEF DeleteLogin, Handlers, Stages
  <2>4. CASE DeleteCkey(h)
    BY <1>0, <2>1, <2>4, StepKeeps DEF DeleteCkey, Handlers, Stages
  <2> QED
    BY <1>6, <2>2, <2>3, <2>4
<1>7. ASSUME NEW h \in Redeems, InsertUser(h)
      PROVE  Inv'
  <2>1. login[h] \in Logins /\ ckey[h] \in Ckeys /\ <<login[h], ckey[h]>> \in proven
    BY <1>7 DEF InsertUser, InsertRow, Held, Active, Handlers
  <2> DEFINE row == [login |-> login[h], ckey |-> ckey[h], by |-> h]
  <2>2. row \in Row /\ row.login = login[h] /\ row.ckey = ckey[h]
    BY <2>1 DEF Row
  <2>3. rows' = rows \cup {row}
    BY <1>7 DEF InsertUser, InsertRow
  <2> HIDE DEF row
  <2>4. \A r \in rows' : r \in Row /\ <<r.login, r.ckey>> \in proven
    BY <1>0, <2>1, <2>2, <2>3
  <2> QED
    BY <1>0, <1>7, <2>1, <2>4, StepKeeps DEF InsertUser, InsertRow, Handlers, Stages
<1>8. ASSUME NEW h \in Lookups \cup Deregisters, NEW l \in Logins,
             Lookup(h, l) \/ Deregister(h, l)
      PROVE  Inv'
  <2>1. CASE Lookup(h, l)
    BY <1>0, <2>1, StepKeeps DEF Lookup, Handlers, Stages
  <2>2. CASE Deregister(h, l)
    BY <1>0, <2>2, StepKeeps DEF Deregister, Handlers, Stages
  <2> QED
    BY <1>8, <2>1, <2>2
<1>9. ASSUME NEW h \in Handlers, SelectUser(h)
      PROVE  Inv'
  <2>1. PICK r \in rows : r.login = login[h] /\ ckey' = [ckey EXCEPT ![h] = r.ckey]
    BY <1>9 DEF SelectUser, SelectFrom
  <2>2. /\ login[h] \in Logins /\ r.ckey \in Ckeys /\ <<login[h], r.ckey>> \in proven
    BY <1>0, <2>1
  <2> QED
    BY <1>0, <1>9, <2>1, <2>2, StepKeeps DEF SelectUser, SelectFrom, Stages
<1>10. ASSUME NEW h \in Handlers, NoSuchUser(h)
       PROVE  Inv'
  BY <1>1, <1>10 DEF NoSuchUser, Stages
<1>11. ASSUME NEW h \in Handlers, EvictOthers(h) \/ StoreUser(h)
       PROVE  Inv'
  <2>1. login[h] \in Logins /\ ckey[h] \in Ckeys /\ <<login[h], ckey[h]>> \in proven
    BY <1>11 DEF EvictOthers, StoreUser, Held, Active
  <2>2. CASE EvictOthers(h)
    BY <1>0, <2>1, <2>2, StepKeeps DEF EvictOthers, Stages
  <2>3. CASE StoreUser(h)
    BY <1>0, <2>1, <2>3, StepKeeps DEF StoreUser, Stages
  <2> QED
    BY <1>11, <2>2, <2>3
<1>12. ASSUME NEW h \in Deregisters, DeleteUser(h) \/ ForgetUser(h)
       PROVE  Inv'
  <2>1. login[h] \in Logins
    BY <1>12 DEF DeleteUser, ForgetUser, Held, Active, Handlers
  <2>2. CASE DeleteUser(h)
    <3>1. PICK next \in {"forget", "ended"} : Goto(h, next)
      BY <2>2 DEF DeleteUser
    <3> QED
      BY <1>0, <2>1, <2>2, <3>1, StepKeeps DEF DeleteUser, Handlers, Stages
  <2>3. CASE ForgetUser(h)
    BY <1>0, <2>1, <2>3, StepKeeps DEF ForgetUser, Handlers, Stages
  <2> QED
    BY <1>12, <2>2, <2>3
<1>13. ASSUME NEW h \in Registers, NEW l \in Logins, RemoveFails(h, l)
       PROVE  Inv'
  <2>1. errors' \in Nat /\ restarts' \in Nat /\ errors' + restarts' <= MaxFaults
    BY <1>13, AccountsAssumption DEF RemoveFails
  <2>2. tokens' = tokens /\ rows' = rows /\ cache' = cache /\ ckey' = ckey
        /\ token' = token /\ proven' = proven /\ inserted' = inserted
        /\ removed' = removed /\ torn' = TRUE
        /\ login' = [login EXCEPT ![h] = l] /\ Goto(h, "create")
    BY <1>13 DEF RemoveFails
  <2> QED
    BY <1>0, <2>1, <2>2, StepKeeps DEF Handlers, Stages
<1>14. ASSUME NEW h \in Handlers, StatementFails(h)
       PROVE  Inv'
  <2>1. /\ AfterPanic[at[h]] \in Stages
        /\ AfterPanic[at[h]] = IF at[h] = "spend" THEN "delete_did" ELSE "ended"
    BY DEF AfterPanic, Stages
  <2>2. at[h] = "spend" => login[h] \in Logins /\ ckey[h] \in Ckeys
                           /\ <<login[h], ckey[h]>> \in proven
    BY DEF Held, Active
  <2>3. errors' \in Nat /\ restarts' \in Nat /\ errors' + restarts' <= MaxFaults
    BY <1>14, AccountsAssumption DEF StatementFails
  <2> QED
    BY <1>0, <1>14, <2>1, <2>2, <2>3, StepKeeps DEF StatementFails
<1>15. ASSUME Restart
       PROVE  Inv'
  <2>1. at' \in [Handlers -> Stages]
        /\ \A h \in Handlers : at'[h] = at[h] \/ at'[h] = "ended"
    BY <1>15 DEF Restart, Stages
  <2>2. \A l \in Logins : cache'[l] # Nobody => <<l, cache'[l]>> \in proven
    <3> SUFFICES ASSUME NEW l \in Logins, cache'[l] # Nobody
                 PROVE  <<l, cache'[l]>> \in proven
      OBVIOUS
    <3> DEFINE own == {r.ckey : r \in {q \in rows : q.login = l}}
    <3>1. IF own = {} THEN cache'[l] = Nobody ELSE cache'[l] \in own
      BY <1>15 DEF Restart
    <3>2. PICK r \in rows : r.login = l /\ cache'[l] = r.ckey
      BY <3>1
    <3> QED
      BY <1>0, <3>2
  <2>3. TypeOK'
    <3>1. errors' \in Nat /\ restarts' \in Nat /\ errors' + restarts' <= MaxFaults
      BY <1>15, AccountsAssumption DEF Restart
    <3>2. /\ tokens' = tokens /\ rows' = rows /\ login' = login /\ ckey' = ckey
          /\ token' = token /\ proven' = proven /\ inserted' = inserted
          /\ removed' = removed /\ clash' = clash /\ torn' = FALSE
          /\ cache' \in [Logins -> Ckeys \cup {Nobody}]
      BY <1>15 DEF Restart
    <3> QED
      BY <2>1, <3>1, <3>2
  <2>4. Held'
    BY <1>15, <2>1 DEF Restart, Held, Active
  <2>5. OnlyProvenLinks'
    BY <1>0, <1>15, <2>2 DEF Restart, OnlyProvenLinks
  <2> QED
    BY <2>3, <2>4, <2>5
<1>16. CASE UNCHANGED vars
  BY <1>16 DEF vars, Held, Active, OnlyProvenLinks
<1> QED
  <2>1. Redeems \cup Lookups \subseteq Handlers
    BY DEF Handlers
  <2> QED
    BY <1>2, <1>3, <1>4, <1>5, <1>6, <1>7, <1>8, <1>9, <1>10, <1>11, <1>12, <1>13,
       <1>14, <1>15, <1>16, <2>1 DEF Next

\* Inv holds in every reachable state.
LEMMA InvCorrect == Spec => []Inv
BY InvInit, InvNext, PTL DEF Spec

\* The tables, the map and the goroutines keep their types.
THEOREM AccountsTypeCorrect == Spec => []TypeOK
<1>1. Inv => TypeOK
  BY DEF Inv
<1> QED
  BY <1>1, InvCorrect, PTL

\* Whatever overlaps, fails or restarts, no row and no entry of local_users
\* links a login to a ckey that has not sent back one of its tokens
\* (discord_main.go:788-850).
THEOREM LinksAreProven == Spec => []OnlyProvenLinks
<1>1. Inv => OnlyProvenLinks
  BY DEF Inv
<1> QED
  BY <1>1, InvCorrect, PTL
-----------------------------------------------------------------------------
(***************************************************************************)
(* While nobody works on one login or ckey with another, links are one to  *)
(* one and local_users follows the table.                                  *)
(***************************************************************************)

\* clash has not missed anything.
ClashIsSeen == ~clash => ~Clashing

\* Goroutine h has inserted its row and is about to read it back.
Rereads(h) == at[h] = "select" /\ h \in inserted

InsertedLate ==
    \A h \in inserted : at[h] \in {"select", "evict", "store", "ended"}

RowOf(l, k) == \E r \in rows : r.login = l /\ r.ckey = k

\* What the table holds of a login or ckey that goroutine h has to itself.
RowsOfHolders ==
    \A h \in Handlers :
        /\ at[h] \in {"delete_ckey", "insert", "forget"} =>
              \A r \in rows : r.login # login[h]
        /\ at[h] = "insert" => \A r \in rows : r.ckey # ckey[h]
        /\ at[h] \in {"evict", "store"} \/ Rereads(h) => RowOf(login[h], ckey[h])

\* Goroutine h may have changed the rows of login l, or of ckey k, and not yet
\* local_users.
BehindLogin(h, l) ==
    /\ login[h] = l
    /\ at[h] \in {"delete_ckey", "insert", "evict", "store", "forget"} \/ Rereads(h)
BehindCkey(h, k) ==
    /\ ckey[h] = k
    /\ at[h] \in {"insert", "evict"} \/ Rereads(h)
Behind(l, k) == \E h \in Handlers : BehindLogin(h, l) \/ BehindCkey(h, k)

CacheIsBehind ==
    ~torn => \A l \in Logins, k \in Ckeys :
        Behind(l, k) \/ (cache[l] = k <=> RowOf(l, k))

Links ==
    /\ ClashIsSeen /\ InsertedLate
    /\ ~clash => /\ \A q, r \in rows : q.login = r.login \/ q.ckey = r.ckey => q = r
                 /\ RowsOfHolders
                 /\ CacheIsBehind

\* What a step of goroutine h leaves alone, and what clash says of it.
LEMMA StepOf ==
    ASSUME Inv, NEW h \in Handlers, NEW next \in Stages, Goto(h, next)
    PROVE  /\ at'[h] = next /\ \A g \in Handlers \ {h} : at'[g] = at[g]
           /\ ClashIsSeen'
           /\ ~clash' => ~clash
BY DEF Goto, Inv, TypeOK, ClashIsSeen

\* Two goroutines at work have logins and ckeys of their own.
LEMMA NotClashing ==
    ASSUME ClashIsSeen, ~clash, NEW g \in Handlers, NEW h \in Handlers, g # h,
           Active(g), Active(h)
    PROVE  login[g] # login[h] /\ (ckey[g] = ckey[h] => ckey[g] = Nobody)
BY DEF ClashIsSeen, Clashing

LEMMA LinksInit == Init => Links
<1> SUFFICES ASSUME Init PROVE Links
  OBVIOUS
<1>1. \A h \in Handlers : at[h] = "idle"
  BY DEF Init
<1>2. /\ ClashIsSeen /\ InsertedLate /\ RowsOfHolders
  BY <1>1 DEF Init, ClashIsSeen, Clashing, Active, InsertedLate, RowsOfHolders, Rereads
<1>3. \A r \in rows : r.login \in Logins /\ r.ckey = cache[r.login] /\ r.ckey # Nobody
                      /\ r = [login |-> r.login, ckey |-> cache[r.login], by |-> Nobody]
  BY DEF Init
<1>4. \A q, r \in rows : q.login = r.login \/ q.ckey = r.ckey => q = r
  <2> SUFFICES ASSUME NEW q \in rows, NEW r \in rows, q.login = r.login \/ q.ckey = r.ckey
               PROVE  q = r
    OBVIOUS
  <2>1. q.login = r.login
    BY <1>3 DEF Init
  <2> QED
    BY <1>3, <2>1
<1>5. \A l \in Logins, k \in Ckeys : cache[l] = k <=> RowOf(l, k)
  <2> SUFFICES ASSUME NEW l \in Logins, NEW k \in Ckeys
               PROVE  cache[l] = k <=> RowOf(l, k)
    OBVIOUS
  <2>1. ASSUME cache[l] = k PROVE RowOf(l, k)
    <3>1. [login |-> l, ckey |-> cache[l], by |-> Nobody] \in rows
      BY <2>1, AccountsAssumption DEF Init
    <3> QED
      BY <2>1, <3>1 DEF RowOf
  <2>2. ASSUME RowOf(l, k) PROVE cache[l] = k
    BY <1>3, <2>2 DEF RowOf
  <2> QED
    BY <2>1, <2>2
<1> QED
  BY <1>2, <1>4, <1>5 DEF Links, CacheIsBehind

\* A step of goroutine h that changes neither rows nor local_users, and ends
\* no work on them unless a statement failed.
LEMMA QuietLinks ==
    ASSUME Inv, Links, NEW h \in Handlers, NEW next \in Stages, Goto(h, next),
           UNCHANGED <<rows, cache, inserted>>, torn => torn',
           \A g \in Handlers \ {h} : login'[g] = login[g] /\ ckey'[g] = ckey[g],
           next \in {"create", "spend", "delete_did", "select", "delete", "ended"},
           h \in inserted => next = "ended",
           ~clash /\ ~torn' =>
              at[h] \notin {"delete_ckey", "insert", "evict", "store", "forget"} /\ ~Rereads(h)
    PROVE  Links'
<1>1. /\ at'[h] = next /\ \A g \in Handlers \ {h} : at'[g] = at[g]
      /\ ClashIsSeen' /\ (~clash' => ~clash)
  BY StepOf
<1>2. InsertedLate'
  BY <1>1 DEF Links, InsertedLate, Inv, TypeOK, Handlers
<1>3. ASSUME ~clash' PROVE RowsOfHolders'
  BY <1>1, <1>3 DEF Links, RowsOfHolders, Rereads, RowOf
<1>4. ASSUME ~clash' PROVE CacheIsBehind'
  <2> SUFFICES ASSUME ~torn', NEW l \in Logins, NEW k \in Ckeys
               PROVE  Behind(l, k)' \/ (cache'[l] = k <=> RowOf(l, k)')
    BY DEF CacheIsBehind
  <2>1. Behind(l, k) => Behind(l, k)'
    <3> SUFFICES ASSUME NEW g \in Handlers, BehindLogin(g, l) \/ BehindCkey(g, k)
                 PROVE  Behind(l, k)'
      BY DEF Behind
    <3>1. g # h
      BY <1>1, <1>4 DEF BehindLogin, BehindCkey
    <3>2. BehindLogin(g, l)' \/ BehindCkey(g, k)'
      BY <1>1, <3>1 DEF BehindLogin, BehindCkey, Rereads
    <3> QED
      BY <3>2 DEF Behind
  <2>2. Behind(l, k) \/ (cache[l] = k <=> RowOf(l, k))
    BY <1>1, <1>4 DEF Links, CacheIsBehind
  <2> QED
    BY <2>1, <2>2 DEF RowOf
<1> QED
  BY <1>1, <1>2, <1>3, <1>4 DEF Links

\* A step of goroutine h that deletes rows of its own login or ckey.
LEMMA DeletingLinks ==
    ASSUME Inv, Links, NEW h \in Handlers, NEW next \in Stages, Goto(h, next),
           UNCHANGED <<cache, inserted, torn, login, ckey>>, rows' \subseteq rows,
           \/ /\ at[h] = "delete_did" /\ next = "delete_ckey"
              /\ rows' = {r \in rows : r.login # login[h]}
           \/ /\ at[h] = "delete_ckey" /\ next = "insert"
              /\ rows' = {r \in rows : r.ckey # ckey[h]}
           \/ /\ at[h] = "delete" /\ next = "forget"
              /\ rows' = {r \in rows : r.login # login[h]}
    PROVE  Links'
<1>1. /\ at'[h] = next /\ \A g \in Handlers \ {h} : at'[g] = at[g]
      /\ ClashIsSeen' /\ (~clash' => ~clash)
  BY StepOf
<1>2. InsertedLate'
  BY <1>1 DEF Links, InsertedLate, Inv, TypeOK, Handlers
<1> SUFFICES ASSUME ~clash'
             PROVE  /\ \A q, r \in rows' : q.login = r.login \/ q.ckey = r.ckey => q = r
                    /\ RowsOfHolders'
                    /\ CacheIsBehind'
  BY <1>1, <1>2 DEF Links
<1>3. \A g \in Handlers \ {h} : Active(g) =>
          login[g] # login[h] /\ (ckey[g] = ckey[h] => ckey[g] = Nobody)
  BY <1>1, NotClashing DEF Links, Active
<1>4. RowsOfHolders /\ CacheIsBehind
  BY <1>1 DEF Links
<1>5. at[h] = "delete_ckey" => ckey[h] # Nobody
  BY AccountsAssumption DEF Inv, Held
<1>6. ASSUME NEW g \in Handlers \ {h}, at[g] \in {"evict", "store"} \/ Rereads(g)
      PROVE  RowOf(login[g], ckey[g])'
  <2>1. RowOf(login[g], ckey[g]) /\ Active(g)
    BY <1>4, <1>6 DEF RowsOfHolders, Rereads, Active
  <2>2. PICK r \in rows : r.login = login[g] /\ r.ckey = ckey[g]
    BY <2>1 DEF RowOf
  <2>3. r.ckey # Nobody
    BY AccountsAssumption DEF Inv, TypeOK, Row
  <2>4. r \in rows'
    BY <1>3, <2>1, <2>2, <2>3
  <2> QED
    BY <2>2, <2>4 DEF RowOf
<1>7. RowsOfHolders'
  BY <1>1, <1>4, <1>6 DEF RowsOfHolders, Rereads
<1>8. CacheIsBehind'
  <2> SUFFICES ASSUME ~torn', NEW l \in Logins, NEW k \in Ckeys, ~Behind(l, k)'
               PROVE  cache'[l] = k <=> RowOf(l, k)'
    BY DEF CacheIsBehind
  <2>1. l # login[h] /\ (next = "insert" => k # ckey[h])
    BY <1>1 DEF Behind, BehindLogin, BehindCkey
  <2>2. ~Behind(l, k)
    <3>1. \A g \in Handlers \ {h} : /\ BehindLogin(g, l) => BehindLogin(g, l)'
                                    /\ BehindCkey(g, k) => BehindCkey(g, k)'
      BY <1>1 DEF BehindLogin, BehindCkey, Rereads
    <3>2. ~BehindLogin(h, l) /\ ~BehindCkey(h, k)
      BY <2>1 DEF BehindLogin, BehindCkey, Rereads
    <3> QED
      BY <3>1, <3>2 DEF Behind
  <2>3. RowOf(l, k) <=> RowOf(l, k)'
    BY <2>1 DEF RowOf
  <2> QED
    BY <1>4, <2>2, <2>3 DEF CacheIsBehind
<1> QED
  BY <1>1, <1>7, <1>8 DEF Links

LEMMA InsertingLinks ==
    ASSUME Inv, Links, NEW h \in Redeems, InsertUser(h)
    PROVE  Links'
<1> USE DEF locals, faults
<1>0. h \in Handlers /\ Goto(h, "select") /\ "select" \in Stages
  BY DEF InsertUser, InsertRow, Handlers, Stages
<1>1. /\ at[h] = "insert"
      /\ at'[h] = "select" /\ \A g \in Handlers \ {h} : at'[g] = at[g]
      /\ ClashIsSeen' /\ (~clash' => ~clash)
  BY <1>0, StepOf DEF InsertUser, InsertRow
<1> DEFINE row == [login |-> login[h], ckey |-> ckey[h], by |-> h]
<1>2. /\ rows' = rows \cup {row} /\ inserted' = inserted \cup {h}
      /\ UNCHANGED <<cache, login, ckey, torn>>
  BY DEF InsertUser, InsertRow
<1>3. row.login = login[h] /\ row.ckey = ckey[h]
  OBVIOUS
<1> HIDE DEF row
<1>4. InsertedLate'
  BY <1>1, <1>2 DEF Links, InsertedLate, Inv, TypeOK, Handlers
<1> SUFFICES ASSUME ~clash'
             PROVE  /\ \A q, r \in rows' : q.login = r.login \/ q.ckey = r.ckey => q = r
                    /\ RowsOfHolders'
                    /\ CacheIsBehind'
  BY <1>1, <1>4 DEF Links
<1>5. \A g \in Handlers \ {h} : Active(g) =>
          login[g] # login[h] /\ (ckey[g] = ckey[h] => ckey[g] = Nobody)
  BY <1>0, <1>1, NotClashing DEF Links, Active
<1>6. RowsOfHolders /\ CacheIsBehind
      /\ \A q, r \in rows : q.login = r.login \/ q.ckey = r.ckey => q = r
  BY <1>1 DEF Links
<1>7. ckey[h] # Nobody
  BY <1>0, <1>1, AccountsAssumption DEF Inv, Held
<1>8. \A r \in rows : r.login # login[h] /\ r.ckey # ckey[h]
  BY <1>0, <1>1, <1>6 DEF RowsOfHolders
<1>9. \A q, r \in rows' : q.login = r.login \/ q.ckey = r.ckey => q = r
  BY <1>2, <1>3, <1>6, <1>8
<1>10. RowOf(login[h], ckey[h])' /\ \A l, k : RowOf(l, k) => RowOf(l, k)'
  BY <1>2, <1>3 DEF RowOf
<1>11. RowsOfHolders'
  <2> SUFFICES ASSUME NEW g \in Handlers
               PROVE  /\ at'[g] \in {"delete_ckey", "insert", "forget"} =>
                            \A r \in rows' : r.login # login'[g]
                      /\ at'[g] = "insert" => \A r \in rows' : r.ckey # ckey'[g]
                      /\ at'[g] \in {"evict", "store"} \/ Rereads(g)' =>
                            RowOf(login[g], ckey[g])'
    BY DEF RowsOfHolders
  <2>1. CASE g = h
    BY <1>1, <1>10, <2>1
  <2>2. CASE g # h
    <3>1. at'[g] = at[g] /\ (Rereads(g)' => Rereads(g))
      BY <1>1, <1>2, <2>2 DEF Rereads
    <3>2. at[g] \in {"evict", "store"} \/ Rereads(g) => RowOf(login[g], ckey[g])
      BY <1>6 DEF RowsOfHolders
    <3>3. at[g] \in {"evict", "store"} \/ Rereads(g) => RowOf(login[g], ckey[g])'
      BY <1>2, <1>10, <3>2
    <3>4. at[g] \in {"delete_ckey", "insert", "forget"} =>
             \A r \in rows' : r.login # login[g]
      BY <1>2, <1>3, <1>5, <1>6, <2>2 DEF RowsOfHolders, Active
    <3>5. at[g] = "insert" => \A r \in rows' : r.ckey # ckey[g]
      BY <1>2, <1>3, <1>5, <1>6, <1>7, <2>2 DEF RowsOfHolders, Active
    <3> QED
      BY <1>2, <3>1, <3>3, <3>4, <3>5
  <2> QED
    BY <2>1, <2>2
<1>12. CacheIsBehind'
  <2> SUFFICES ASSUME ~torn', NEW l \in Logins, NEW k \in Ckeys, ~Behind(l, k)'
               PROVE  cache'[l] = k <=> RowOf(l, k)'
    BY DEF CacheIsBehind
  <2>1. Rereads(h)'
    BY <1>1, <1>2 DEF Rereads
  <2>2. l # login[h] /\ k # ckey[h]
    BY <1>0, <1>2, <2>1 DEF Behind, BehindLogin, BehindCkey
  <2>3. ~Behind(l, k)
    <3>1. \A g \in Handlers \ {h} : /\ BehindLogin(g, l) => BehindLogin(g, l)'
                                    /\ BehindCkey(g, k) => BehindCkey(g, k)'
      BY <1>1, <1>2 DEF BehindLogin, BehindCkey, Rereads
    <3> QED
      BY <2>2, <3>1 DEF Behind, BehindLogin, BehindCkey
  <2>4. RowOf(l, k) <=> RowOf(l, k)'
    BY <1>2, <1>3, <2>2 DEF RowOf
  <2> QED
    BY <1>2, <1>6, <2>3, <2>4 DEF CacheIsBehind
<1> QED
  BY <1>9, <1>11, <1>12

\* update_local_user reads the row of its login.
LEMMA SelectingLinks ==
    ASSUME Inv, Links, NEW h \in Handlers, SelectUser(h)
    PROVE  Links'
<1> USE DEF tables, ghosts, faults
<1>0. Goto(h, "evict") /\ "evict" \in Stages
  BY DEF SelectUser, SelectFrom, Stages
<1>1. /\ at[h] = "select"
      /\ at'[h] = "evict" /\ \A g \in Handlers \ {h} : at'[g] = at[g]
      /\ ClashIsSeen' /\ (~clash' => ~clash)
  BY <1>0, StepOf DEF SelectUser, SelectFrom
<1>2. PICK r \in rows : r.login = login[h] /\ ckey' = [ckey EXCEPT ![h] = r.ckey]
  BY DEF SelectUser, SelectFrom
<1>3. /\ UNCHANGED <<rows, cache, login, inserted, torn>>
      /\ ckey'[h] = r.ckey /\ \A g \in Handlers \ {h} : ckey'[g] = ckey[g]
  BY <1>2 DEF SelectUser, SelectFrom, Inv, TypeOK
<1>4. InsertedLate'
  BY <1>1, <1>3 DEF Links, InsertedLate, Inv, TypeOK, Handlers
<1> SUFFICES ASSUME ~clash'
             PROVE  RowsOfHolders' /\ CacheIsBehind'
  BY <1>1, <1>3, <1>4 DEF Links
<1>5. RowsOfHolders /\ CacheIsBehind
      /\ \A p, q \in rows : p.login = q.login \/ p.ckey = q.ckey => p = q
  BY <1>1 DEF Links
<1>6. RowOf(login[h], ckey[h])'
  BY <1>2, <1>3 DEF RowOf
<1>7. RowsOfHolders'
  <2> SUFFICES ASSUME NEW g \in Handlers \ {h}
               PROVE  /\ at'[g] \in {"delete_ckey", "insert", "forget"} =>
                            \A q \in rows' : q.login # login'[g]
                      /\ at'[g] = "insert" => \A q \in rows' : q.ckey # ckey'[g]
                      /\ at'[g] \in {"evict", "store"} \/ Rereads(g)' =>
                            RowOf(login[g], ckey[g])'
    BY <1>1, <1>6 DEF RowsOfHolders
  <2>1. at'[g] = at[g] /\ (Rereads(g)' => Rereads(g)) /\ login'[g] = login[g]
        /\ ckey'[g] = ckey[g]
    BY <1>1, <1>3 DEF Rereads
  <2> QED
    BY <1>3, <1>5, <2>1 DEF RowsOfHolders, RowOf
<1>8. CacheIsBehind'
  <2> SUFFICES ASSUME ~torn', NEW l \in Logins, NEW k \in Ckeys, ~Behind(l, k)'
               PROVE  cache'[l] = k <=> RowOf(l, k)'
    BY DEF CacheIsBehind
  <2>1. \A g \in Handlers \ {h} : /\ BehindLogin(g, l) => BehindLogin(g, l)'
                                  /\ BehindCkey(g, k) => BehindCkey(g, k)'
    BY <1>1, <1>3 DEF BehindLogin, BehindCkey, Rereads
  <2>2. BehindLogin(h, l) => BehindLogin(h, l)'
    BY <1>1, <1>3 DEF BehindLogin
  <2>3. BehindCkey(h, k) => BehindCkey(h, k)'
    <3> SUFFICES ASSUME BehindCkey(h, k) PROVE BehindCkey(h, k)'
      OBVIOUS
    <3>1. RowOf(login[h], k)
      BY <1>1, <1>5 DEF BehindCkey, RowsOfHolders
    <3>2. r.ckey = k
      BY <1>2, <1>5, <3>1 DEF RowOf
    <3> QED
      BY <1>1, <1>3, <3>2 DEF BehindCkey
  <2>4. ~Behind(l, k)
    BY <2>1, <2>2, <2>3 DEF Behind
  <2> QED
    BY <1>3, <1>5, <2>4 DEF CacheIsBehind, RowOf
<1> QED
  BY <1>7, <1>8

\* A step of goroutine h on local_users: other logins keep their ckeys, apart
\* from the one h works on.
LEMMA CachingLinks ==
    ASSUME Inv, Links, NEW h \in Handlers, NEW next \in Stages, Goto(h, next),
           UNCHANGED <<rows, login, ckey, inserted, torn>>,
           \/ /\ at[h] = "evict" /\ next = "store"
              /\ cache' = [l \in Logins |->
                     IF l = login[h] \/ cache[l] = ckey[h] THEN Nobody ELSE cache[l]]
           \/ /\ at[h] = "store" /\ next = "ended"
              /\ cache' = [cache EXCEPT ![login[h]] = ckey[h]]
           \/ /\ at[h] = "forget" /\ next = "ended"
              /\ cache' = [cache EXCEPT ![login[h]] = Nobody]
    PROVE  Links'
<1>1. /\ at'[h] = next /\ \A g \in Handlers \ {h} : at'[g] = at[g]
      /\ ClashIsSeen' /\ (~clash' => ~clash)
  BY StepOf
<1>2. InsertedLate'
  BY <1>1 DEF Links, InsertedLate, Inv, TypeOK, Handlers
<1> SUFFICES ASSUME ~clash'
             PROVE  RowsOfHolders' /\ CacheIsBehind'
  BY <1>1, <1>2 DEF Links
<1>3. RowsOfHolders /\ CacheIsBehind
      /\ \A p, q \in rows : p.login = q.login \/ p.ckey = q.ckey => p = q
  BY <1>1 DEF Links
<1>4. RowsOfHolders'
  <2> SUFFICES ASSUME NEW g \in Handlers
               PROVE  /\ at'[g] \in {"delete_ckey", "insert", "forget"} =>
                            \A q \in rows : q.login # login[g]
                      /\ at'[g] = "insert" => \A q \in rows : q.ckey # ckey[g]
                      /\ at'[g] \in {"evict", "store"} \/ Rereads(g)' => RowOf(login[g], ckey[g])
    BY DEF RowsOfHolders, RowOf
  <2>1. CASE g = h
    BY <1>1, <1>3, <2>1 DEF RowsOfHolders, Rereads
  <2>2. CASE g # h
    BY <1>1, <1>3, <2>2 DEF RowsOfHolders, Rereads
  <2> QED
    BY <2>1, <2>2
<1>5. CacheIsBehind'
  <2> SUFFICES ASSUME ~torn', NEW l \in Logins, NEW k \in Ckeys, ~Behind(l, k)'
               PROVE  cache'[l] = k <=> RowOf(l, k)
    BY DEF CacheIsBehind, RowOf
  <2>1. ASSUME ~BehindLogin(h, l), ~BehindCkey(h, k)
        PROVE  cache[l] = k <=> RowOf(l, k)
    <3>1. \A g \in Handlers \ {h} : /\ BehindLogin(g, l) => BehindLogin(g, l)'
                                    /\ BehindCkey(g, k) => BehindCkey(g, k)'
      BY <1>1 DEF BehindLogin, BehindCkey, Rereads
    <3>2. ~Behind(l, k)
      BY <2>1, <3>1 DEF Behind
    <3> QED
      BY <1>3, <3>2 DEF CacheIsBehind
  <2>2. login[h] \in Logins /\ k # Nobody
    BY AccountsAssumption DEF Inv, Held, Active
  <2>3. at[h] \in {"evict", "store"} => RowOf(login[h], ckey[h]) /\ ckey[h] \in Ckeys
    BY <1>3 DEF RowsOfHolders, Inv, Held
  <2>4. CASE at[h] = "evict"
    <3>1. l # login[h]
      BY <1>1, <2>4 DEF Behind, BehindLogin
    <3>2. CASE k = ckey[h]
      <4>1. ~RowOf(l, k)
        BY <1>3, <2>3, <2>4, <3>1, <3>2 DEF RowOf
      <4> QED
        BY <2>2, <2>4, <3>2, <4>1
    <3>3. CASE k # ckey[h]
      <4>1. cache[l] = k <=> RowOf(l, k)
        BY <2>1, <3>1, <3>3 DEF BehindLogin, BehindCkey
      <4> QED
        BY <2>2, <2>4, <3>1, <3>3, <4>1
    <3> QED
      BY <3>2, <3>3
  <2>5. CASE at[h] = "store"
    <3>1. CASE l = login[h]
      <4>1. cache'[l] = ckey[h]
        BY <2>2, <2>5, <3>1 DEF Inv, TypeOK
      <4> QED
        BY <1>3, <2>3, <2>5, <3>1, <4>1 DEF RowOf
    <3>2. CASE l # login[h]
      <4>1. cache[l] = k <=> RowOf(l, k)
        BY <2>1, <2>5, <3>2 DEF BehindLogin, BehindCkey, Rereads
      <4> QED
        BY <2>5, <3>2, <4>1 DEF Inv, TypeOK
    <3> QED
      BY <3>1, <3>2
  <2>6. CASE at[h] = "forget"
    <3>1. CASE l = login[h]
      BY <1>3, <2>2, <2>6, <3>1 DEF RowsOfHolders, RowOf, Inv, TypeOK
    <3>2. CASE l # login[h]
      <4>1. cache[l] = k <=> RowOf(l, k)
        BY <2>1, <2>6, <3>2 DEF BehindLogin, BehindCkey, Rereads
      <4> QED
        BY <2>6, <3>2, <4>1 DEF Inv, TypeOK
    <3> QED
      BY <3>1, <3>2
  <2> QED
    BY <2>4, <2>5, <2>6
<1> QED
  BY <1>4, <1>5

\* A restart fills local_users from the table and ends all work.
LEMMA RestartLinks == Inv /\ Links /\ Restart => Links'
<1> SUFFICES ASSUME Inv, Links, Restart PROVE Links'
  OBVIOUS
<1> USE DEF tables, locals, ghosts
<1>1. /\ \A h \in Handlers : at'[h] \in {"idle", "ended"} /\ (at[h] # "idle" => at'[h] = "ended")
      /\ UNCHANGED <<rows, inserted, login, ckey, clash>>
  BY DEF Restart, Active
<1>2. ClashIsSeen' /\ RowsOfHolders' /\ InsertedLate'
  BY <1>1 DEF ClashIsSeen, Clashing, Active, RowsOfHolders, Rereads, Links, InsertedLate,
              Inv, TypeOK, Handlers
<1>3. ASSUME ~clash, NEW l \in Logins, NEW k \in Ckeys
      PROVE  cache'[l] = k <=> RowOf(l, k)'
  <2> DEFINE own == {r.ckey : r \in {q \in rows : q.login = l}}
  <2>1. IF own = {} THEN cache'[l] = Nobody ELSE cache'[l] \in own
    BY DEF Restart
  <2>2. \A p, q \in rows : p.login = q.login => p = q
    BY <1>3 DEF Links
  <2>3. RowOf(l, k)' <=> k \in own
    BY <1>1 DEF RowOf
  <2>4. \A j \in own : k \in own => j = k
    BY <2>2
  <2> HIDE DEF own
  <2> QED
    BY <2>1, <2>3, <2>4, AccountsAssumption
<1> QED
  BY <1>1, <1>2, <1>3 DEF Links, CacheIsBehind

LEMMA LinksNext == Inv /\ Links /\ [Next]_vars => Links'
<1> SUFFICES ASSUME Inv, Links, [Next]_vars
             PROVE  Links'
  OBVIOUS
<1> USE DEF tables, locals, ghosts, faults
<1>0. /\ Registers \subseteq Handlers /\ Redeems \subseteq Handlers
      /\ Deregisters \subseteq Handlers /\ Lookups \subseteq Handlers
      /\ {"create", "spend", "delete_did", "delete_ckey", "insert", "select", "evict", "store",
          "delete", "forget", "ended"} \subseteq Stages
      /\ \A h \in Handlers : h \in inserted =>
             at[h] \notin {"idle", "create", "spend", "delete_did", "delete"}
  BY DEF Handlers, Stages, Links, InsertedLate
<1>1. ASSUME NEW h \in Registers, NEW l \in Logins, RemoveToken(h, l) \/ RemoveFails(h, l)
      PROVE  Links'
  <2>1. /\ at[h] = "idle" /\ Goto(h, "create") /\ UNCHANGED <<rows, cache, inserted>>
        /\ torn => torn'
        /\ \A g \in Handlers \ {h} : login'[g] = login[g] /\ ckey'[g] = ckey[g]
    BY <1>1 DEF RemoveToken, RemoveTokens, RemoveFails, Inv, TypeOK
  <2> QED
    BY <1>0, <2>1, QuietLinks DEF Rereads
<1>2. ASSUME NEW h \in Registers, CreateToken(h)
      PROVE  Links'
  BY <1>0, <1>2, QuietLinks DEF CreateToken, Rereads
<1>3. ASSUME NEW h \in Redeems, NEW id \in Registers, NEW k \in Ckeys, SelectToken(h, id, k)
      PROVE  Links'
  <2>1. /\ at[h] = "idle" /\ Goto(h, "spend") /\ UNCHANGED <<rows, cache, inserted, torn>>
        /\ \A g \in Handlers \ {h} : login'[g] = login[g] /\ ckey'[g] = ckey[g]
    BY <1>3 DEF SelectToken, Inv, TypeOK
  <2> QED
    BY <1>0, <2>1, QuietLinks DEF Rereads
<1>4. ASSUME NEW h \in Redeems, NEW id \in Registers, NoSuchToken(h, id)
      PROVE  Links'
  BY <1>0, <1>4, QuietLinks DEF NoSuchToken, Pass, Rereads
<1>5. ASSUME NEW h \in Redeems, SpendToken(h)
      PROVE  Links'
  BY <1>0, <1>5, QuietLinks DEF SpendToken, Rereads
<1>6. ASSUME NEW h \in Redeems, DeleteLogin(h)
      PROVE  Links'
  BY <1>0, <1>6, DeletingLinks DEF DeleteLogin
<1>7. ASSUME NEW h \in Redeems, DeleteCkey(h)
      PROVE  Links'
  BY <1>0, <1>7, DeletingLinks DEF DeleteCkey
<1>8. ASSUME NEW h \in Lookups \cup Deregisters, NEW l \in Logins,
             Lookup(h, l) \/ Deregister(h, l)
      PROVE  Links'
  <2>1. PICK next \in {"select", "delete"} : Goto(h, next)
    BY <1>8 DEF Lookup, Deregister
  <2>2. /\ at[h] = "idle" /\ UNCHANGED <<rows, cache, inserted, torn>>
        /\ \A g \in Handlers \ {h} : login'[g] = login[g] /\ ckey'[g] = ckey[g]
    BY <1>8 DEF Lookup, Deregister, Inv, TypeOK
  <2> QED
    BY <1>0, <2>1, <2>2, QuietLinks DEF Rereads
<1>9. ASSUME NEW h \in Handlers, NoSuchUser(h)
      PROVE  Links'
  <2>1. ~clash => ~Rereads(h)
    BY <1>9 DEF NoSuchUser, Links, RowsOfHolders, RowOf
  <2> QED
    BY <1>0, <1>9, <2>1, QuietLinks DEF NoSuchUser, Pass
<1>10. ASSUME NEW h \in Handlers, EvictOthers(h) \/ StoreUser(h)
       PROVE  Links'
  BY <1>0, <1>10, CachingLinks DEF EvictOthers, StoreUser
<1>11. ASSUME NEW h \in Deregisters, DeleteUser(h)
       PROVE  Links'
  <2>1. CASE rows' = rows
    BY <1>0, <1>11, <2>1, QuietLinks DEF DeleteUser, Rereads
  <2>2. CASE rows' # rows
    BY <1>0, <1>11, <2>2, DeletingLinks DEF DeleteUser
  <2> QED
    BY <2>1, <2>2
<1>12. ASSUME NEW h \in Deregisters, ForgetUser(h)
       PROVE  Links'
  BY <1>0, <1>12, CachingLinks DEF ForgetUser
<1>13. ASSUME NEW h \in Handlers, StatementFails(h)
       PROVE  Links'
  <2>1. /\ Goto(h, AfterPanic[at[h]]) /\ torn' = TRUE
        /\ UNCHANGED <<rows, cache, inserted, login, ckey>>
        /\ AfterPanic[at[h]] = IF at[h] = "spend" THEN "delete_did" ELSE "ended"
    BY <1>13 DEF StatementFails, AfterPanic, Stages
  <2> QED
    BY <1>0, <2>1, QuietLinks
<1>14. CASE UNCHANGED vars
  BY <1>14 DEF vars, Links, ClashIsSeen, Clashing, Active, InsertedLate, RowsOfHolders, Rereads,
               RowOf, CacheIsBehind, Behind, BehindLogin, BehindCkey
<1> QED
  BY <1>0, <1>1, <1>2, <1>3, <1>4, <1>5, <1>6, <1>7, <1>8, <1>9, <1>10, <1>11, <1>12, <1>13,
     <1>14, InsertingLinks, SelectingLinks, RestartLinks DEF Next

LEMMA LinksCorrect == Spec => []Links
<1>1. Inv /\ Links /\ Inv' /\ [Next]_vars => Links'
  BY LinksNext
<1> QED
  BY <1>1, LinksInit, InvCorrect, PTL DEF Spec

\* While goroutines keep to logins and ckeys of their own, a login has one row
\* and a ckey one row, whatever fails and whenever the bot dies
\* (discord_main.go:816-826).
THEOREM LinksStayOneToOne == Spec => []LinksAreOneToOne
<1>1. Links => LinksAreOneToOne
  BY DEF Links, LinksAreOneToOne
<1> QED
  BY <1>1, LinksCorrect, PTL

\* Under the same condition, and while no statement fails, local_users says
\* what the table says when nobody is at work (discord_main.go:829-850).
THEOREM CacheKeepsUp == Spec => []CacheFollowsTable
<1>1. Links => CacheFollowsTable
  <2> SUFFICES ASSUME Links, Quiet, ~clash, ~torn, NEW l \in Logins, NEW k \in Ckeys
               PROVE  cache[l] = k <=> RowOf(l, k)
    BY DEF CacheFollowsTable, RowOf
  <2>1. ~Behind(l, k)
    BY DEF Quiet, Active, Behind, BehindLogin, BehindCkey, Rereads
  <2> QED
    BY <2>1 DEF Links, CacheIsBehind
<1> QED
  BY <1>1, LinksCorrect, PTL

-----------------------------------------------------------------------------
(***************************************************************************)
(* Tokens.                                                                 *)
(***************************************************************************)

\* Goroutine h goes by the token it has read, or has inserted by it.
Claims(h) == at[h] \in {"spend", "delete_did", "delete_ckey", "insert"} \/ h \in inserted

\* One goroutine goes by a token, which is gone once it has been spent.
UsedOnce ==
    /\ \A h \in Handlers, t \in tokens :
          Claims(h) /\ at[h] # "spend" => t.id # token[h]
    /\ \A g, h \in Handlers :
          Claims(g) /\ Claims(h) /\ token[g] = token[h] => g = h
    /\ \A h \in Handlers, t \in tokens : at[h] = "create" => t.login # login[h]
    /\ \A s, t \in tokens : s.login = t.login => s = t

\* A token is made once, and who is about to spend it works for its login.
TokenUse ==
    /\ \A t \in tokens : at[t.id] = "ended"
    /\ \A h \in Handlers : Claims(h) =>
          token[h] \in Registers /\ at[token[h]] = "ended"
    /\ \A s, t \in tokens : s.id = t.id => s = t
    /\ \A h \in Handlers, t \in tokens :
          at[h] = "spend" /\ t.id = token[h] => t.login = login[h]
    /\ ~clash /\ errors = 0 => UsedOnce

LEMMA TokenUseInit == Init => TokenUse
BY DEF Init, TokenUse, UsedOnce, Claims

\* Goroutine h makes no token and reads none.
LEMMA OtherTokenUse ==
    ASSUME Inv, Links, TokenUse, NEW h \in Handlers, NEW next \in Stages \ {"spend"},
           Goto(h, next), at[h] # "ended",
           tokens' \subseteq tokens, token' = token, inserted' \subseteq inserted \cup {h},
           errors \in Nat, errors' = errors \/ errors' = errors + 1,
           \A g \in Handlers \ {h} : login'[g] = login[g],
           Claims(h)' => Claims(h),
           errors' = 0 /\ next = "create" => \A t \in tokens' : t.login # login'[h],
           errors' = 0 /\ Claims(h)' /\ at[h] = "spend" => \A t \in tokens' : t.id # token[h]
    PROVE  TokenUse'
<1>1. /\ at'[h] = next /\ \A g \in Handlers \ {h} : at'[g] = at[g]
      /\ ~clash' => ~clash
  BY StepOf
<1>2. \A g \in Handlers : at[g] = "ended" => at'[g] = "ended"
  BY <1>1
<1>3. \A g \in Handlers : Claims(g)' => Claims(g)
  BY <1>1 DEF Claims
<1>4. \A t \in tokens : t.id \in Handlers
  BY DEF Inv, TypeOK, Token, Handlers
<1>5. /\ \A t \in tokens' : at'[t.id] = "ended"
      /\ \A g \in Handlers : Claims(g)' =>
            token'[g] \in Registers /\ at'[token'[g]] = "ended"
      /\ \A s, t \in tokens' : s.id = t.id => s = t
  BY <1>2, <1>3, <1>4 DEF TokenUse, Handlers
<1>6. \A g \in Handlers, t \in tokens' :
          at'[g] = "spend" /\ t.id = token'[g] => t.login = login'[g]
  BY <1>1 DEF TokenUse
<1>7. ASSUME ~clash', errors' = 0
      PROVE  UsedOnce'
  <2>1. UsedOnce
    BY <1>1, <1>7 DEF TokenUse
  <2>2. \A g \in Handlers, t \in tokens' :
            Claims(g)' /\ at'[g] # "spend" => t.id # token'[g]
    <3> SUFFICES ASSUME NEW g \in Handlers, NEW t \in tokens', Claims(g)', at'[g] # "spend"
                 PROVE  t.id # token[g]
      OBVIOUS
    <3>1. CASE g = h /\ at[h] = "spend"
      BY <1>7, <3>1
    <3>2. CASE g # h \/ at[h] # "spend"
      BY <1>1, <1>3, <2>1, <3>2 DEF UsedOnce
    <3> QED
      BY <3>1, <3>2
  <2>3. \A g \in Handlers, t \in tokens' : at'[g] = "create" => t.login # login'[g]
    BY <1>1, <1>7, <2>1 DEF UsedOnce
  <2>4. \A f, g \in Handlers :
            Claims(f)' /\ Claims(g)' /\ token'[f] = token'[g] => f = g
    BY <1>3, <2>1 DEF UsedOnce
  <2> QED
    BY <2>1, <2>2, <2>3, <2>4 DEF UsedOnce
<1> QED
  BY <1>5, <1>6, <1>7 DEF TokenUse

\* A new token has an id of its own, and its login had none.
LEMMA CreatingTokenUse ==
    ASSUME Inv, Links, TokenUse, NEW h \in Registers, CreateToken(h)
    PROVE  TokenUse'
<1> USE DEF locals, ghosts, faults
<1> DEFINE new == [id |-> h, login |-> login[h]]
<1>0. h \in Handlers /\ "ended" \in Stages /\ Goto(h, "ended") /\ at[h] = "create"
      /\ UNCHANGED <<login, token, inserted, errors>>
  BY DEF CreateToken, Handlers, Stages
<1>1. /\ at'[h] = "ended" /\ \A g \in Handlers \ {h} : at'[g] = at[g]
      /\ ~clash' => ~clash
  BY <1>0, StepOf
<1>2. tokens' = tokens \cup {new} /\ new.id = h /\ new.login = login[h]
  BY DEF CreateToken
<1> HIDE DEF new
<1>3. \A g \in Handlers : /\ at[g] = "ended" => at'[g] = "ended"
                          /\ Claims(g)' => Claims(g) /\ token[g] # h
                          /\ at'[g] = "spend" => at[g] = "spend"
                          /\ at'[g] = "create" => at[g] = "create" /\ g # h
  BY <1>0, <1>1 DEF Claims, TokenUse
<1>4. \A t \in tokens : t.id \in Handlers /\ t.id # h
  BY <1>0 DEF Inv, TypeOK, Token, Handlers, TokenUse
<1>5. /\ \A t \in tokens' : at'[t.id] = "ended"
      /\ \A g \in Handlers : Claims(g)' =>
            token'[g] \in Registers /\ at'[token'[g]] = "ended"
      /\ \A s, t \in tokens' : s.id = t.id => s = t
  BY <1>0, <1>1, <1>2, <1>3, <1>4 DEF TokenUse, Handlers
<1>6. \A g \in Handlers, t \in tokens' :
          at'[g] = "spend" /\ t.id = token'[g] => t.login = login'[g]
  BY <1>0, <1>2, <1>3 DEF TokenUse, Claims
<1>7. ASSUME ~clash', errors' = 0
      PROVE  UsedOnce'
  <2>1. UsedOnce /\ ~Clashing
    BY <1>0, <1>1, <1>7 DEF TokenUse, Links, ClashIsSeen
  <2>2. \A g \in Handlers, t \in tokens' :
            Claims(g)' /\ at'[g] # "spend" => t.id # token'[g]
    BY <1>0, <1>1, <1>2, <1>3, <2>1 DEF UsedOnce
  <2>3. \A f, g \in Handlers :
            Claims(f)' /\ Claims(g)' /\ token'[f] = token'[g] => f = g
    BY <1>0, <1>3, <2>1 DEF UsedOnce
  <2>4. \A g \in Handlers : at'[g] = "create" => login[g] # login[h]
    BY <1>0, <1>3, <2>1 DEF Clashing, Active
  <2>5. \A t \in tokens : t.login # login[h]
    BY <1>0, <2>1 DEF UsedOnce
  <2>6. \A g \in Handlers, t \in tokens' : at'[g] = "create" => t.login # login'[g]
    BY <1>0, <1>2, <1>3, <2>1, <2>4 DEF UsedOnce
  <2>7. \A s, t \in tokens' : s.login = t.login => s = t
    BY <1>2, <2>1, <2>5 DEF UsedOnce
  <2> QED
    BY <2>2, <2>3, <2>6, <2>7 DEF UsedOnce
<1> QED
  BY <1>5, <1>6, <1>7 DEF TokenUse

\* Whoever else goes by the token of the webhook has not spent it, so it works
\* for the same login.
LEMMA SelectingTokenUse ==
    ASSUME Inv, Links, TokenUse, NEW h \in Redeems, NEW id \in Registers, NEW k \in Ckeys,
           SelectToken(h, id, k)
    PROVE  TokenUse'
<1> USE DEF tables, faults
<1>0. h \in Handlers /\ "spend" \in Stages /\ Goto(h, "spend") /\ at[h] = "idle"
      /\ UNCHANGED <<tokens, inserted, errors>>
  BY DEF SelectToken, Handlers, Stages
<1>1. /\ at'[h] = "spend" /\ \A g \in Handlers \ {h} : at'[g] = at[g]
      /\ ClashIsSeen' /\ (~clash' => ~clash)
  BY <1>0, StepOf DEF SelectToken
<1>2. PICK t \in tokens : t.id = id /\ login' = [login EXCEPT ![h] = t.login]
  BY DEF SelectToken
<1>3. /\ token'[h] = id /\ \A g \in Handlers \ {h} : token'[g] = token[g]
      /\ login'[h] = t.login /\ \A g \in Handlers \ {h} : login'[g] = login[g]
  BY <1>0, <1>2 DEF SelectToken, Inv, TypeOK
<1>4. \A g \in Handlers : at[g] = "ended" => at'[g] = "ended"
  BY <1>0, <1>1
<1>5. \A g \in Handlers \ {h} : Claims(g)' => Claims(g)
  BY <1>0, <1>1 DEF Claims
<1>6. \A s \in tokens : s.id \in Handlers /\ at[s.id] = "ended"
  BY DEF Inv, TypeOK, Token, Handlers, TokenUse
<1>7. /\ \A s \in tokens' : at'[s.id] = "ended"
      /\ \A r, s \in tokens' : r.id = s.id => r = s
  BY <1>0, <1>4, <1>6 DEF TokenUse
<1>8. \A g \in Handlers : Claims(g)' =>
          token'[g] \in Registers /\ at'[token'[g]] = "ended"
  BY <1>2, <1>3, <1>4, <1>5, <1>6 DEF TokenUse, Handlers
<1>9. \A g \in Handlers, s \in tokens' :
          at'[g] = "spend" /\ s.id = token'[g] => s.login = login'[g]
  BY <1>0, <1>1, <1>2, <1>3 DEF TokenUse
<1>10. ASSUME ~clash', errors' = 0
       PROVE  UsedOnce'
  <2>1. UsedOnce /\ ~Clashing'
    BY <1>0, <1>1, <1>10 DEF TokenUse, ClashIsSeen
  <2>2. \A g \in Handlers, s \in tokens' :
            Claims(g)' /\ at'[g] # "spend" => s.id # token'[g]
    BY <1>0, <1>1, <1>3, <1>5, <2>1 DEF UsedOnce
  <2>3. \A g \in Handlers \ {h} : Claims(g)' => token[g] # id
    <3> SUFFICES ASSUME NEW g \in Handlers \ {h}, Claims(g), token[g] = id
                 PROVE  FALSE
      BY <1>5
    <3>1. at[g] = "spend"
      BY <1>2, <2>1 DEF UsedOnce
    <3>2. login[g] = t.login
      BY <1>2, <3>1 DEF TokenUse
    <3> QED
      BY <1>0, <1>1, <1>3, <2>1, <3>1, <3>2 DEF Clashing, Active
  <2>4. \A f, g \in Handlers :
            Claims(f)' /\ Claims(g)' /\ token'[f] = token'[g] => f = g
    BY <1>3, <1>5, <2>1, <2>3 DEF UsedOnce
  <2>5. \A g \in Handlers, s \in tokens' : at'[g] = "create" => s.login # login'[g]
    BY <1>0, <1>1, <1>3, <2>1 DEF UsedOnce
  <2> QED
    BY <1>0, <2>1, <2>2, <2>4, <2>5 DEF UsedOnce
<1> QED
  BY <1>7, <1>8, <1>9, <1>10 DEF TokenUse

\* A restart ends whoever had read a token and not inserted by it.
LEMMA RestartTokenUse == Inv /\ Links /\ TokenUse /\ Restart => TokenUse'
<1> SUFFICES ASSUME Inv, Links, TokenUse, Restart PROVE TokenUse'
  OBVIOUS
<1> USE DEF tables, locals, ghosts
<1>1. /\ \A h \in Handlers : /\ at'[h] \in {"idle", "ended"}
                             /\ at[h] = "ended" => at'[h] = "ended"
      /\ UNCHANGED <<tokens, token, inserted, login, clash, errors>>
  BY DEF Restart, Active
<1>2. \A h \in Handlers : Claims(h)' => Claims(h) /\ at[h] # "spend"
  BY <1>1 DEF Claims, Links, InsertedLate
<1>3. \A t \in tokens : t.id \in Handlers
  BY DEF Inv, TypeOK, Token, Handlers
<1>4. UsedOnce => UsedOnce'
  BY <1>1, <1>2 DEF UsedOnce
<1>5. Registers \subseteq Handlers
  BY DEF Handlers
<1> QED
  BY <1>1, <1>2, <1>3, <1>4, <1>5 DEF TokenUse

LEMMA TokenUseNext == Inv /\ Links /\ TokenUse /\ [Next]_vars => TokenUse'
<1> SUFFICES ASSUME Inv, Links, TokenUse, [Next]_vars
             PROVE  TokenUse'
  OBVIOUS
<1> USE DEF tables, locals, ghosts, faults
<1>0. /\ Registers \subseteq Handlers /\ Redeems \subseteq Handlers
      /\ Deregisters \subseteq Handlers /\ Lookups \subseteq Handlers
      /\ {"create", "delete_did", "delete_ckey", "insert", "select", "evict", "store",
          "delete", "forget", "ended"} \subseteq Stages \ {"spend"}
      /\ errors \in Nat
      /\ \A h \in Handlers : h \in inserted =>
             at[h] \notin {"idle", "create", "spend", "delete_did", "delete"}
  BY DEF Handlers, Stages, Links, InsertedLate, Inv, TypeOK
<1>1. ASSUME NEW h \in Registers, NEW l \in Logins, RemoveToken(h, l)
      PROVE  TokenUse'
  <2>1. /\ at[h] = "idle" /\ Goto(h, "create") /\ UNCHANGED <<token, inserted, errors>>
        /\ tokens' = tokens \ {t \in tokens : t.login = l}
        /\ login'[h] = l /\ \A g \in Handlers \ {h} : login'[g] = login[g]
    BY <1>0, <1>1 DEF RemoveToken, RemoveTokens, Inv, TypeOK
  <2>2. at'[h] = "create"
    BY <1>0, <2>1, StepOf
  <2> QED
    BY <1>0, <2>1, <2>2, OtherTokenUse DEF Claims
<1>2. ASSUME NEW h \in Registers, NEW l \in Logins, RemoveFails(h, l)
      PROVE  TokenUse'
  <2>1. /\ at[h] = "idle" /\ Goto(h, "create") /\ UNCHANGED <<tokens, token, inserted>>
        /\ errors' = errors + 1 /\ errors' # 0
        /\ \A g \in Handlers \ {h} : login'[g] = login[g]
    BY <1>0, <1>2 DEF RemoveFails, Inv, TypeOK
  <2>2. at'[h] = "create"
    BY <1>0, <2>1, StepOf
  <2> QED
    BY <1>0, <2>1, <2>2, OtherTokenUse DEF Claims
<1>3. ASSUME NEW h \in Handlers, NEW next \in Stages \ {"spend", "create"}, Goto(h, next),
             at[h] \notin {"spend", "ended"},
             UNCHANGED <<tokens, token, errors>>, inserted' \subseteq inserted \cup {h},
             \A g \in Handlers \ {h} : login'[g] = login[g],
             h \in inserted' \ inserted => at[h] = "insert",
             next \in {"delete_did", "delete_ckey", "insert"} =>
                at[h] \in {"delete_did", "delete_ckey", "insert"}
      PROVE  TokenUse'
  <2>1. at'[h] = next
    BY <1>3, StepOf
  <2>2. Claims(h)' => Claims(h)
    BY <1>3, <2>1 DEF Claims
  <2> QED
    BY <1>0, <1>3, <2>2, OtherTokenUse
<1>4. ASSUME NEW h \in Redeems, NEW id \in Registers, NoSuchToken(h, id)
      PROVE  TokenUse'
  BY <1>0, <1>3, <1>4 DEF NoSuchToken, Pass
<1>5. ASSUME NEW h \in Redeems, SpendToken(h)
      PROVE  TokenUse'
  <2>1. /\ at[h] = "spend" /\ Goto(h, "delete_did")
        /\ UNCHANGED <<login, token, inserted, errors>>
        /\ tokens' = {t \in tokens : t.id # token[h]}
    BY <1>5 DEF SpendToken
  <2> QED
    BY <1>0, <2>1, OtherTokenUse DEF Claims
<1>6. ASSUME NEW h \in Redeems, DeleteLogin(h) \/ DeleteCkey(h) \/ InsertUser(h)
      PROVE  TokenUse'
  <2>1. CASE DeleteLogin(h)
    BY <1>0, <1>3, <2>1 DEF DeleteLogin
  <2>2. CASE DeleteCkey(h)
    BY <1>0, <1>3, <2>2 DEF DeleteCkey
  <2>3. CASE InsertUser(h)
    BY <1>0, <1>3, <2>3 DEF InsertUser, InsertRow
  <2> QED
    BY <1>6, <2>1, <2>2, <2>3
<1>7. ASSUME NEW h \in Lookups \cup Deregisters, NEW l \in Logins,
             Lookup(h, l) \/ Deregister(h, l)
      PROVE  TokenUse'
  <2>1. PICK next \in {"select", "delete"} : Goto(h, next)
    BY <1>7 DEF Lookup, Deregister
  <2>2. /\ at[h] = "idle" /\ UNCHANGED <<tokens, token, inserted, errors>>
        /\ \A g \in Handlers \ {h} : login'[g] = login[g]
    BY <1>7 DEF Lookup, Deregister, Inv, TypeOK
  <2> QED
    BY <1>0, <1>3, <2>1, <2>2
<1>8. ASSUME NEW h \in Handlers,
             SelectUser(h) \/ NoSuchUser(h) \/ EvictOthers(h) \/ StoreUser(h)
      PROVE  TokenUse'
  <2>1. PICK next \in {"evict", "store", "ended"} : Goto(h, next)
    BY <1>8 DEF SelectUser, SelectFrom, NoSuchUser, Pass, EvictOthers, StoreUser
  <2>2. /\ at[h] \in {"select", "evict", "store"}
        /\ UNCHANGED <<tokens, token, login, inserted, errors>>
    BY <1>8 DEF SelectUser, SelectFrom, NoSuchUser, Pass, EvictOthers, StoreUser
  <2> QED
    BY <1>0, <1>3, <2>1, <2>2
<1>9. ASSUME NEW h \in Deregisters, DeleteUser(h) \/ ForgetUser(h)
      PROVE  TokenUse'
  <2>1. PICK next \in {"forget", "ended"} : Goto(h, next)
    BY <1>9 DEF DeleteUser, ForgetUser
  <2>2. /\ at[h] \in {"delete", "forget"}
        /\ UNCHANGED <<tokens, token, login, inserted, errors>>
    BY <1>9 DEF DeleteUser, ForgetUser
  <2> QED
    BY <1>0, <1>3, <2>1, <2>2
<1>10. ASSUME NEW h \in Handlers, StatementFails(h)
       PROVE  TokenUse'
  <2>1. /\ Goto(h, AfterPanic[at[h]]) /\ UNCHANGED <<tokens, token, login, inserted>>
        /\ AfterPanic[at[h]] = IF at[h] = "spend" THEN "delete_did" ELSE "ended"
        /\ errors' = errors + 1 /\ errors' # 0 /\ at[h] # "ended"
    BY <1>0, <1>10 DEF StatementFails, AfterPanic, Stages
  <2>2. at'[h] = IF at[h] = "spend" THEN "delete_did" ELSE "ended"
    BY <1>0, <2>1, StepOf
  <2>3. Claims(h)' => Claims(h)
    BY <2>1, <2>2 DEF Claims
  <2> QED
    BY <1>0, <2>1, <2>2, <2>3, OtherTokenUse
<1>11. CASE UNCHANGED vars
  BY <1>11 DEF vars, TokenUse, UsedOnce, Claims
<1> QED
  <2>1. Redeems \cup Lookups \subseteq Handlers
    BY <1>0
  <2> QED
    BY <1>1, <1>2, <1>4, <1>5, <1>6, <1>7, <1>8, <1>9, <1>10, <1>11, <2>1, CreatingTokenUse,
       SelectingTokenUse, RestartTokenUse DEF Next

LEMMA TokenUseCorrect == Spec => []TokenUse
<1>1. Inv /\ Links /\ TokenUse /\ [Next]_vars => TokenUse'
  BY TokenUseNext
<1> QED
  BY <1>1, TokenUseInit, InvCorrect, LinksCorrect, PTL DEF Spec

\* While goroutines keep to logins and ckeys of their own and no statement
\* fails, one webhook registers by a token, also when the bot dies between
\* reading and deleting it (discord_main.go:788-805).
THEOREM TokensRegisterOnce == Spec => []TokenRegistersOnce
<1>1. Inv /\ TokenUse => TokenRegistersOnce
  BY DEF Inv, TypeOK, Handlers, TokenUse, UsedOnce, Claims, TokenRegistersOnce
<1> QED
  BY <1>1, InvCorrect, TokenUseCorrect, PTL

\* Under the same conditions a login has one token: !register drops what an
\* earlier one, or a crash, has left (discord_main.go:763-786).
THEOREM TokensAreUnique == Spec => []OneTokenPerLogin
<1>1. TokenUse => OneTokenPerLogin
  BY DEF TokenUse, UsedOnce, OneTokenPerLogin
<1> QED
  BY <1>1, TokenUseCorrect, PTL
=============================================================================
