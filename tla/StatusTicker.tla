---------------------------- MODULE StatusTicker ----------------------------
(***************************************************************************)
(* The ticker that refreshes the status embeds of one server               *)
(* (byond_part.go:225-246, 336-360, 392-428).                              *)
(*                                                                         *)
(* launch_ss_tickers and every !status_bind call start_ticker: when        *)
(* ss.timerchan is not nil it is asked to stop through that channel, and   *)
(* then a goroutine is started, which makes the ticker and the channel     *)
(* itself.  A goroutine that is told to stop stops its ticker, sets        *)
(* ss.timerchan to nil and goes on with its loop; each round of the loop   *)
(* looks at ss.timerchan again.  Nothing guards the field.                 *)
(*                                                                         *)
(* A channel is named after the call whose goroutine made it.              *)
(***************************************************************************)
EXTENDS Naturals, FiniteSets

CONSTANTS
    Starts,     \* the calls of start_ticker, each made once
    Nil

ASSUME TickerAssumption == Nil \notin Starts

VARIABLES
    timerchan,  \* ss.timerchan
    at,         \* where the caller of start_ticker is
    target,     \* the channel it is sending on
    loop,       \* where the goroutine it started is
    watch,      \* the channel the goroutine's select is receiving from
    ticker,     \* its ticker: on, off, or stopped with a tick left in it
    stops,      \* ghost: the calls whose request to stop was received
    mutex       \* who holds global_update_mutex

vars == <<timerchan, at, target, loop, watch, ticker, stops, mutex>>

caller == <<at, target>>
goroutine == <<loop, watch, ticker>>

Places == {"idle", "lock", "update", "check", "stop", "send", "spawn", "done"}
Loops == {"none", "new", "loop", "select", "lock", "update", "told"}

Init ==
    /\ timerchan = Nil
    /\ at = [s \in Starts |-> "idle"]
    /\ target = [s \in Starts |-> Nil]
    /\ loop = [s \in Starts |-> "none"]
    /\ watch = [s \in Starts |-> Nil]
    /\ ticker = [s \in Starts |-> "off"]
    /\ stops = {}
    /\ mutex = Nil

-----------------------------------------------------------------------------
(* The caller: bind_server_embed and start_ticker.                         *)

CallerGoes(s, from, to) ==
    /\ at[s] = from
    /\ at' = [at EXCEPT ![s] = to]

\* launch_ss_tickers, before Dopen lets any command in; populate_server_embeds
\* has made the first global_update by then.
Launch(s) ==
    /\ \A t \in Starts : at[t] = "idle"
    /\ CallerGoes(s, "idle", "check")
    /\ UNCHANGED <<timerchan, target, goroutine, stops, mutex>>

Bind(s) ==
    /\ CallerGoes(s, "idle", "lock")
    /\ UNCHANGED <<timerchan, target, goroutine, stops, mutex>>

BindLocks(s) ==
    /\ CallerGoes(s, "lock", "update")
    /\ mutex = Nil
    /\ mutex' = s
    /\ UNCHANGED <<timerchan, target, goroutine, stops>>

BindUpdated(s) ==
    /\ CallerGoes(s, "update", "check")
    /\ mutex' = Nil
    /\ UNCHANGED <<timerchan, target, goroutine, stops>>

\* The nil checks of start_ticker and stop_ticker; they come to the same.
CheckChan(s) ==
    /\ CallerGoes(s, "check", IF timerchan = Nil THEN "spawn" ELSE "stop")
    /\ UNCHANGED <<timerchan, target, goroutine, stops, mutex>>

\* The send looks at the field once more, and never ends on a nil channel.
StopTicker(s) ==
    /\ CallerGoes(s, "stop", "send")
    /\ target' = [target EXCEPT ![s] = timerchan]
    /\ UNCHANGED <<timerchan, goroutine, stops, mutex>>

\* Mutant: a ticker that was stopped is not started again.
SpawnUnlessStopped(s) ==
    /\ CallerGoes(s, "spawn", "done")
    /\ loop' = [loop EXCEPT ![s] = IF s \in stops THEN "none" ELSE "new"]
    /\ UNCHANGED <<timerchan, target, watch, ticker, stops, mutex>>

Spawn(s) ==
    /\ CallerGoes(s, "spawn", "done")
    /\ loop' = [loop EXCEPT ![s] = "new"]
    /\ UNCHANGED <<timerchan, target, watch, ticker, stops, mutex>>

-----------------------------------------------------------------------------
(* The goroutine.                                                          *)

LoopGoes(g, from, to) ==
    /\ loop[g] = from
    /\ loop' = [loop EXCEPT ![g] = to]

MakeTicker(g) ==
    /\ LoopGoes(g, "new", "loop")
    /\ ticker' = [ticker EXCEPT ![g] = "on"]
    /\ timerchan' = g
    /\ UNCHANGED <<caller, watch, stops, mutex>>

EnterSelect(g) ==
    /\ LoopGoes(g, "loop", "select")
    /\ watch' = [watch EXCEPT ![g] = timerchan]
    /\ UNCHANGED <<timerchan, caller, ticker, stops, mutex>>

TickTo(g, next) ==
    /\ LoopGoes(g, "select", next)
    /\ ticker[g] # "off"
    /\ ticker' = [ticker EXCEPT ![g] = IF @ = "last" THEN "off" ELSE "on"]
    /\ watch' = [watch EXCEPT ![g] = Nil]
    /\ UNCHANGED <<timerchan, caller, stops, mutex>>

\* Mutant: a tick updates nothing.
TickIdly(g) == TickTo(g, "loop")

Tick(g) == TickTo(g, "lock")

GlobalUpdate(g) ==
    /\ LoopGoes(g, "lock", "update")
    /\ mutex = Nil
    /\ mutex' = g
    /\ UNCHANGED <<timerchan, caller, watch, ticker, stops>>

Updated(g) ==
    /\ LoopGoes(g, "update", "loop")
    /\ mutex' = Nil
    /\ UNCHANGED <<timerchan, caller, watch, ticker, stops>>

\* The channel is unbuffered: the send of s and the receive of g are one step.
Receive(s, g) ==
    /\ watch[g] = target[s] /\ target[s] # Nil
    /\ CallerGoes(s, "send", "spawn")
    /\ LoopGoes(g, "select", "told")
    /\ stops' = stops \cup {s}
    /\ target' = [target EXCEPT ![s] = Nil]
    /\ watch' = [watch EXCEPT ![g] = Nil]
    /\ UNCHANGED <<timerchan, ticker, mutex>>

\* Stop does not drain the ticker's channel; there is no return.
Stopped(g) ==
    /\ LoopGoes(g, "told", "loop")
    /\ \E rest \in {"off", "last"} :
          ticker' = [ticker EXCEPT ![g] = IF @ = "on" THEN rest ELSE @]
    /\ timerchan' = Nil
    /\ UNCHANGED <<caller, watch, stops, mutex>>

-----------------------------------------------------------------------------
CallerStep(s) ==
    \/ BindLocks(s) \/ BindUpdated(s) \/ CheckChan(s) \/ StopTicker(s) \/ Spawn(s)

LoopStep(g) ==
    \/ MakeTicker(g) \/ EnterSelect(g) \/ Tick(g) \/ GlobalUpdate(g) \/ Updated(g) \/ Stopped(g)

Next ==
    \/ \E s \in Starts : Launch(s) \/ Bind(s) \/ CallerStep(s) \/ LoopStep(s)
    \/ \E s, g \in Starts : Receive(s, g)

\* A goroutine that can run runs, a ticker that is on ticks, and a mutex that
\* is released over and over is got in the end (sync.Mutex hands it over):
\* strong fairness differs from weak fairness in that case alone.  Nothing is
\* assumed of when start_ticker is called, nor of which goroutine takes a
\* request to stop.
Fairness == \A s \in Starts : SF_vars(CallerStep(s)) /\ SF_vars(LoopStep(s))

Spec == Init /\ [][Next]_vars /\ Fairness

-----------------------------------------------------------------------------
(***************************************************************************)
(* Properties.                                                             *)
(***************************************************************************)

Ticking(g) == ticker[g] = "on" /\ loop[g] # "told"

\* However the calls overlap, and although requests to stop can reach the
\* wrong goroutine or none, the server never loses its last ticker: once a
\* start_ticker has returned there is one, or one is just being started.
SomeTickerRuns ==
    (\E s \in Starts : at[s] = "done") =>
        \E g \in Starts : Ticking(g) \/ loop[g] = "new" \/ at[g] = "spawn"

\* A server that was started is refreshed again and again.
KeepsUpdating ==
    (\E s \in Starts : at[s] = "done") ~> []<>(\E g \in Starts : loop[g] = "update")
=============================================================================
