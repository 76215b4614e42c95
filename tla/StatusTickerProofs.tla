------------------------- MODULE StatusTickerProofs -------------------------
(***************************************************************************)
(* The ticker of a server's status embeds never gets lost, and its updates *)
(* exclude one another, for any number of calls of start_ticker.           *)
(***************************************************************************)
EXTENDS StatusTicker, TLAPS

Types ==
    /\ at \in [Starts -> Places]
    /\ loop \in [Starts -> Loops]
    /\ ticker \in [Starts -> {"on", "last", "off"}]

\* A call has returned before its goroutine runs.
CallersFirst == \A s \in Starts : loop[s] # "none" => at[s] = "done"

Updating(s) == at[s] = "update" \/ loop[s] = "update"

\* Who updates holds the mutex.
Held == \A s \in Starts : Updating(s) => mutex = s

Inv == Types /\ CallersFirst /\ Held /\ SomeTickerRuns

\* Two updates of the embeds of a server never overlap, whether a command or
\* a ticker makes them (global_update_mutex, byond_part.go:225-246).
UpdatesExclude ==
    /\ \A s, t \in Starts : Updating(s) /\ Updating(t) => s = t
    /\ \A s \in Starts : ~(at[s] = "update" /\ loop[s] = "update")

-----------------------------------------------------------------------------
LEMMA InvInit == Init => Inv
BY DEF Init, Inv, Types, CallersFirst, Held, Updating, SomeTickerRuns, Places, Loops

LEMMA CallerKeepsInv ==
    ASSUME Inv, NEW s \in Starts, Launch(s) \/ Bind(s) \/ CallerStep(s)
    PROVE  Inv'
<1> USE TickerAssumption DEF Inv, Types, CallersFirst, Held, Updating, SomeTickerRuns, Places, Loops,
      CallerGoes, goroutine, Ticking
<1>1. CASE Launch(s)
  BY <1>1 DEF Launch
<1>2. CASE Bind(s)
  BY <1>2 DEF Bind
<1>3. CASE BindLocks(s)
  BY <1>3 DEF BindLocks
<1>4. CASE BindUpdated(s)
  BY <1>4 DEF BindUpdated
<1>5. CASE CheckChan(s)
  BY <1>5 DEF CheckChan
<1>6. CASE StopTicker(s)
  BY <1>6 DEF StopTicker
<1>7. CASE Spawn(s)
  BY <1>7 DEF Spawn
<1> QED
  BY <1>1, <1>2, <1>3, <1>4, <1>5, <1>6, <1>7 DEF CallerStep

LEMMA LoopKeepsInv ==
    ASSUME Inv, NEW g \in Starts, LoopStep(g)
    PROVE  Inv'
<1> USE TickerAssumption DEF Inv, Types, CallersFirst, Held, Updating, SomeTickerRuns, Places, Loops,
      LoopGoes, caller, Ticking
<1>1. CASE MakeTicker(g)
  BY <1>1 DEF MakeTicker
<1>2. CASE EnterSelect(g)
  BY <1>2 DEF EnterSelect
<1>3. CASE Tick(g)
  BY <1>3 DEF Tick, TickTo
<1>4. CASE GlobalUpdate(g)
  BY <1>4 DEF GlobalUpdate
<1>5. CASE Updated(g)
  BY <1>5 DEF Updated
<1>6. CASE Stopped(g)
  BY <1>6 DEF Stopped
<1> QED
  BY <1>1, <1>2, <1>3, <1>4, <1>5, <1>6 DEF LoopStep

\* The one step that takes a ticker away leaves a caller who starts another.
LEMMA ReceiveKeepsInv ==
    ASSUME Inv, NEW s \in Starts, NEW g \in Starts, Receive(s, g)
    PROVE  Inv'
BY TickerAssumption DEF Inv, Types, CallersFirst, Held, Updating, SomeTickerRuns, Places, Loops,
      Receive, CallerGoes, LoopGoes, Ticking

LEMMA InvHolds == Spec => []Inv
<1>1. Inv /\ [Next]_vars => Inv'
  <2> SUFFICES ASSUME Inv, [Next]_vars PROVE Inv'
    OBVIOUS
  <2>1. CASE UNCHANGED vars
    BY <2>1 DEF vars, Inv, Types, CallersFirst, Held, Updating, SomeTickerRuns, Ticking
  <2>2. CASE Next
    BY <2>2, CallerKeepsInv, LoopKeepsInv, ReceiveKeepsInv DEF Next
  <2> QED
    BY <2>1, <2>2
<1> QED
  BY <1>1, InvInit, PTL DEF Spec

-----------------------------------------------------------------------------
\* However calls of start_ticker overlap and whichever goroutine takes a
\* request to stop (byond_part.go:336-360): once a call has returned, a ticker
\* runs, or a goroutine is about to make one.
THEOREM SomeTickerAlwaysRuns == Spec => []SomeTickerRuns
BY InvHolds, PTL DEF Inv

\* The mutex does what StatusEmbeds takes for granted: updates of the embeds
\* never overlap (byond_part.go:225-246).
THEOREM UpdatesAlwaysExclude == Spec => []UpdatesExclude
<1>1. Inv => UpdatesExclude
  BY TickerAssumption DEF Inv, CallersFirst, Held, UpdatesExclude, Updating
<1> QED
  BY <1>1, InvHolds, PTL
=============================================================================
