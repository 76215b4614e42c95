------------------------------ MODULE Lifecycle ------------------------------
(***************************************************************************)
(* From start to shutdown (main.go:184-214): what main brings up and takes *)
(* down in which order, the three tickers it starts and stops, and the     *)
(* commands and webhooks that are served meanwhile.                        *)
(*                                                                         *)
(* main runs down one list of calls.  A ticker is a goroutine whose select *)
(* either runs its callback or takes a request to stop; the request is a   *)
(* send on an unbuffered channel, so it waits for a callback to end.  The  *)
(* channel of the http ticker, http_server_stop, is declared and never     *)
(* made: a send on it waits forever.                                       *)
(***************************************************************************)
EXTENDS Naturals, Sequences

CONSTANTS
    Commands,       \* goroutines running a Discord command
    Webhooks,       \* goroutines running a webhook
    MaxRestarts     \* bound: how often the process dies and is started again

ASSUME LifecycleAssumption == MaxRestarts \in Nat

Requests == Commands \cup Webhooks
Tickers == {"spam", "sweep", "http"}

VARIABLES
    main,       \* the call main is in
    up,         \* what is up: see Brings
    loop,       \* where the goroutine of each ticker is
    request,    \* where each command and webhook is
    signalled,  \* the process was asked to end
    restarts

vars == <<main, up, loop, request, signalled, restarts>>

\* The calls of main, Dopen and Dclose unfolded.  db_init prepares the
\* statements; farewell is what Dclose sends first; the three stop_ calls are
\* the sends to the tickers.
Order == <<"db_init", "discord_init", "populate_servers", "server_embeds", "open_session",
    "populate_maps", "start_spam", "add_handlers", "update_roles", "start_sweep",
    "shell_repo_init", "http_server", "wait", "farewell", "stop_spam", "stop_sweep",
    "close_session", "db_deinit", "stop_http", "shutdown", "stopped">>

Calls == {Order[i] : i \in DOMAIN Order}

FollowerIn(order, call) == order[1 + CHOOSE i \in DOMAIN order : order[i] = call]

\* Mutant: the handlers are added as soon as the session is open.
AfterWithHandlersFirst(call) ==
    CASE call = "open_session"  -> "add_handlers"
      [] call = "add_handlers"  -> "populate_maps"
      [] call = "start_spam"    -> "update_roles"
      [] OTHER                  -> FollowerIn(Order, call)

After(call) == FollowerIn(Order, call)

\* What a call brings up; the handlers serve as long as the session is open.
Brings(call) ==
    CASE call = "db_init"       -> {"templates"}
      [] call = "open_session"  -> {"session"}
      [] call = "populate_maps" -> {"maps"}
      [] call = "add_handlers"  -> {"handlers"}
      [] call = "http_server"   -> {"http"}
      [] OTHER                  -> {}

\* What it takes down.
Drops(call) ==
    CASE call = "close_session" -> {"session"}
      [] call = "db_deinit"     -> {"templates"}
      [] call = "shutdown"      -> {"http"}
      [] OTHER                  -> {}

Starts(call) ==
    CASE call = "start_spam"  -> {"spam"}
      [] call = "start_sweep" -> {"sweep"}
      [] call = "http_server" -> {"http"}
      [] OTHER                -> {}

\* The ticker a call asks to stop, and the channel it uses for that.
StopOf == [call \in {"stop_spam", "stop_sweep", "stop_http"} |->
              CASE call = "stop_spam"  -> "spam"
                [] call = "stop_sweep" -> "sweep"
                [] call = "stop_http"  -> "http"]
Made == {"spam", "sweep"}

Init ==
    /\ main = "db_init" /\ up = {}
    /\ loop = [t \in Tickers |-> "off"]
    /\ request = [r \in Requests |-> "idle"]
    /\ signalled = FALSE
    /\ restarts = 0

-----------------------------------------------------------------------------
\* A call that does not wait for another goroutine.
MainStep ==
    /\ main \notin DOMAIN StopOf \cup {"wait", "stopped"}
    /\ main' = After(main)
    /\ up' = (up \cup Brings(main)) \ Drops(main)
    /\ loop' = [t \in Tickers |-> IF t \in Starts(main) THEN "select" ELSE loop[t]]
    /\ UNCHANGED <<request, signalled, restarts>>

\* signal.Notify is reached last; an earlier signal kills the process.
Signal ==
    /\ main = "wait"
    /\ main' = "farewell"
    /\ signalled' = TRUE
    /\ UNCHANGED <<up, loop, request, restarts>>

\* Mutant: the request to stop is left behind, nobody waits for the ticker.
StopUnheard(call) ==
    /\ main = call
    /\ StopOf[call] \in Made
    /\ main' = After(call)
    /\ UNCHANGED <<up, loop, request, signalled, restarts>>

\* stop_ticker: main's send and the goroutine's receive.
StopTicker(call) ==
    /\ main = call
    /\ StopOf[call] \in Made
    /\ loop[StopOf[call]] = "select"
    /\ loop' = [loop EXCEPT ![StopOf[call]] = "off"]
    /\ main' = After(call)
    /\ UNCHANGED <<up, request, signalled, restarts>>

Tick(t) ==
    /\ loop[t] = "select"
    /\ loop' = [loop EXCEPT ![t] = "callback"]
    /\ UNCHANGED <<main, up, request, signalled, restarts>>

\* Mutant: update_roles retries a guild it may not read instead of giving up.
CallbackRetries(t) ==
    /\ loop[t] = "callback" /\ t # "sweep"
    /\ loop' = [loop EXCEPT ![t] = "select"]
    /\ UNCHANGED <<main, up, request, signalled, restarts>>

CallbackEnds(t) ==
    /\ loop[t] = "callback"
    /\ loop' = [loop EXCEPT ![t] = "select"]
    /\ UNCHANGED <<main, up, request, signalled, restarts>>

-----------------------------------------------------------------------------
RequestGoes(r, from, to) ==
    /\ request[r] = from
    /\ request' = [request EXCEPT ![r] = to]
    /\ UNCHANGED <<main, up, loop, signalled, restarts>>

Command(c) ==
    /\ {"session", "handlers"} \subseteq up
    /\ RequestGoes(c, "idle", "running")

Webhook(w) ==
    /\ "http" \in up
    /\ RequestGoes(w, "idle", "running")

\* A statement of it: db_template panics when the statements are gone.
Statement(r) ==
    \/ "templates" \in up /\ RequestGoes(r, "running", "ended")
    \/ "templates" \notin up /\ RequestGoes(r, "running", "panicked")

\* The process dies (a crash, logging_crash, a kill) and is started again;
\* requests that ran are gone.
Restart ==
    /\ restarts < MaxRestarts
    /\ restarts' = restarts + 1
    /\ main' = "db_init" /\ up' = {}
    /\ loop' = [t \in Tickers |-> "off"]
    /\ request' = [r \in Requests |-> IF request[r] = "running" THEN "ended" ELSE request[r]]
    /\ signalled' = FALSE

-----------------------------------------------------------------------------
Next ==
    \/ MainStep \/ Signal \/ Restart
    \/ \E call \in DOMAIN StopOf : StopTicker(call)
    \/ \E t \in Tickers : Tick(t) \/ CallbackEnds(t)
    \/ \E c \in Commands : Command(c)
    \/ \E w \in Webhooks : Webhook(w)
    \/ \E r \in Requests : Statement(r)

\* Calls and callbacks end; a select that finds a tick and a request to stop
\* ready over and over takes the request in the end (it chooses at random).
\* No signal, tick, request or restart has to come.
Fairness ==
    /\ WF_vars(MainStep)
    /\ \A call \in DOMAIN StopOf : SF_vars(StopTicker(call))
    /\ \A t \in Tickers : WF_vars(CallbackEnds(t))
    /\ \A r \in Requests : WF_vars(Statement(r))

Spec == Init /\ [][Next]_vars /\ Fairness

-----------------------------------------------------------------------------
(***************************************************************************)
(* Properties.                                                             *)
(***************************************************************************)

\* A command or webhook runs only once the maps it reads were loaded, and it
\* finds its statements prepared unless a signal came since.
ReadyWhenServed ==
    /\ (\E r \in Requests : request[r] = "running") => "maps" \in up
    /\ ~signalled /\ {"session", "handlers"} \subseteq up => "templates" \in up

\* When the session is closed on shutdown no sweep over the roles and no spam
\* tick runs, or will: Dclose has waited for both.
NoTickerOutlivesTheSession ==
    signalled /\ "session" \notin up => loop["spam"] = "off" /\ loop["sweep"] = "off"

\* A signal closes the session, or the process dies before, whatever the
\* tickers are doing.
SignalClosesDiscord == signalled ~> "session" \notin up

\* "graceful shutdown for web server", then "Stoped correctly"
\* (main.go:209-213): the signal brings the process there, or it dies before.
SignalStopsTheServer == signalled ~> (main = "stopped" \/ ~signalled)
=============================================================================
