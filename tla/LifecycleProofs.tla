--------------------------- MODULE LifecycleProofs ---------------------------
(***************************************************************************)
(* What is served finds its maps and statements, and shutdown leaves no    *)
(* ticker behind, for any requests, however often the process dies.        *)
(*                                                                         *)
(* All of it follows from where main is: Place says which phase the list   *)
(* of calls is in, and Inv what is up and who runs in each phase.          *)
(***************************************************************************)
EXTENDS Lifecycle, TLAPS

\* The phases of main, as far as the properties tell them apart.
Served == {"add_handlers", "update_roles", "start_sweep", "shell_repo_init", "http_server", "wait"}
Loading == {"db_init", "discord_init", "populate_servers", "server_embeds", "open_session",
            "populate_maps", "start_spam"}
Closing == {"farewell", "stop_spam", "stop_sweep", "close_session"}
Closed == {"db_deinit", "stop_http", "shutdown", "stopped"}

Types ==
    /\ main \in Calls
    /\ up \subseteq {"templates", "session", "maps", "handlers", "http"}
    /\ loop \in [Tickers -> {"off", "select", "callback"}]
    /\ request \in [Requests -> {"idle", "running", "ended", "panicked"}]
    /\ signalled \in BOOLEAN

\* Handlers and web server come up behind the maps, the statements before all.
Ups ==
    /\ "maps" \in up <=> main \notin Loading \/ main = "start_spam"
    /\ "handlers" \in up \/ "http" \in up => "maps" \in up
    /\ main # "db_init" /\ ~signalled => "templates" \in up
    /\ main = "db_init" => up = {}

\* Shutdown is the part of the list behind wait.
Signals == signalled <=> main \in Closing \cup Closed

\* The session is open from the call behind open_session to close_session.
Sessions ==
    main \in Served \cup Closing \cup {"populate_maps", "start_spam"} => "session" \in up

\* Each ticker is off from the moment main has made its send.
Stops ==
    /\ main \in Closed \cup {"stop_sweep", "close_session"} => loop["spam"] = "off"
    /\ main \in Closed \cup {"close_session"} => loop["sweep"] = "off"

Running == (\E r \in Requests : request[r] = "running") => "maps" \in up

Inv == Types /\ Ups /\ Signals /\ Sessions /\ Stops /\ Running

-----------------------------------------------------------------------------
(* The list of calls.                                                      *)

LEMMA CallsAre == Calls = Loading \cup Served \cup Closing \cup Closed
<1>1. DOMAIN Order = 1..21
  BY DEF Order
<1>2. Calls \subseteq Loading \cup Served \cup Closing \cup Closed
  BY <1>1 DEF Calls, Order, Loading, Served, Closing, Closed
<1>3. Loading \cup Served \cup Closing \cup Closed \subseteq Calls
  <2>1. "db_init" \in Calls
    BY <1>1, Order[1] = "db_init" DEF Calls, Order
  <2>2. "discord_init" \in Calls
    BY <1>1, Order[2] = "discord_init" DEF Calls, Order
  <2>3. "populate_servers" \in Calls
    BY <1>1, Order[3] = "populate_servers" DEF Calls, Order
  <2>4. "server_embeds" \in Calls
    BY <1>1, Order[4] = "server_embeds" DEF Calls, Order
  <2>5. "open_session" \in Calls
    BY <1>1, Order[5] = "open_session" DEF Calls, Order
  <2>6. "populate_maps" \in Calls
    BY <1>1, Order[6] = "populate_maps" DEF Calls, Order
  <2>7. "start_spam" \in Calls
    BY <1>1, Order[7] = "start_spam" DEF Calls, Order
  <2>8. "add_handlers" \in Calls
    BY <1>1, Order[8] = "add_handlers" DEF Calls, Order
  <2>9. "update_roles" \in Calls
    BY <1>1, Order[9] = "update_roles" DEF Calls, Order
  <2>10. "start_sweep" \in Calls
    BY <1>1, Order[10] = "start_sweep" DEF Calls, Order
  <2>11. "shell_repo_init" \in Calls
    BY <1>1, Order[11] = "shell_repo_init" DEF Calls, Order
  <2>12. "http_server" \in Calls
    BY <1>1, Order[12] = "http_server" DEF Calls, Order
  <2>13. "wait" \in Calls
    BY <1>1, Order[13] = "wait" DEF Calls, Order
  <2>14. "farewell" \in Calls
    BY <1>1, Order[14] = "farewell" DEF Calls, Order
  <2>15. "stop_spam" \in Calls
    BY <1>1, Order[15] = "stop_spam" DEF Calls, Order
  <2>16. "stop_sweep" \in Calls
    BY <1>1, Order[16] = "stop_sweep" DEF Calls, Order
  <2>17. "close_session" \in Calls
    BY <1>1, Order[17] = "close_session" DEF Calls, Order
  <2>18. "db_deinit" \in Calls
    BY <1>1, Order[18] = "db_deinit" DEF Calls, Order
  <2>19. "stop_http" \in Calls
    BY <1>1, Order[19] = "stop_http" DEF Calls, Order
  <2>20. "shutdown" \in Calls
    BY <1>1, Order[20] = "shutdown" DEF Calls, Order
  <2>21. "stopped" \in Calls
    BY <1>1, Order[21] = "stopped" DEF Calls, Order
  <2> QED
    BY <2>1, <2>2, <2>3, <2>4, <2>5, <2>6, <2>7, <2>8, <2>9, <2>10, <2>11, <2>12, <2>13, <2>14, <2>15, <2>16, <2>17, <2>18, <2>19, <2>20, <2>21 DEF Loading, Served, Closing, Closed
<1> QED
  BY <1>2, <1>3

\* No call is made twice, so it has one that follows.
LEMMA FollowerOf ==
    ASSUME NEW i \in 1..20
    PROVE  After(Order[i]) = Order[i + 1]
<1>1. /\ DOMAIN Order = 1..21
      /\ \A j, k \in 1..21 : Order[j] = Order[k] => j = k
  BY DEF Order
<1>2. (CHOOSE j \in DOMAIN Order : Order[j] = Order[i]) = i
  BY <1>1
<1>3. 1 + i = i + 1
  OBVIOUS
<1> QED
  BY <1>2, <1>3 DEF After, FollowerIn

LEMMA Followers ==
    /\ After("db_init") = "discord_init"
    /\ After("discord_init") = "populate_servers"
    /\ After("populate_servers") = "server_embeds"
    /\ After("server_embeds") = "open_session"
    /\ After("open_session") = "populate_maps"
    /\ After("populate_maps") = "start_spam"
    /\ After("start_spam") = "add_handlers"
    /\ After("add_handlers") = "update_roles"
    /\ After("update_roles") = "start_sweep"
    /\ After("start_sweep") = "shell_repo_init"
    /\ After("shell_repo_init") = "http_server"
    /\ After("http_server") = "wait"
    /\ After("wait") = "farewell"
    /\ After("farewell") = "stop_spam"
    /\ After("stop_spam") = "stop_sweep"
    /\ After("stop_sweep") = "close_session"
    /\ After("close_session") = "db_deinit"
    /\ After("db_deinit") = "stop_http"
    /\ After("stop_http") = "shutdown"
    /\ After("shutdown") = "stopped"
<1>1. After("db_init") = "discord_init"
  BY FollowerOf, 1 \in 1..20 DEF Order
<1>2. After("discord_init") = "populate_servers"
  BY FollowerOf, 2 \in 1..20 DEF Order
<1>3. After("populate_servers") = "server_embeds"
  BY FollowerOf, 3 \in 1..20 DEF Order
<1>4. After("server_embeds") = "open_session"
  BY FollowerOf, 4 \in 1..20 DEF Order
<1>5. After("open_session") = "populate_maps"
  BY FollowerOf, 5 \in 1..20 DEF Order
<1>6. After("populate_maps") = "start_spam"
  BY FollowerOf, 6 \in 1..20 DEF Order
<1>7. After("start_spam") = "add_handlers"
  BY FollowerOf, 7 \in 1..20 DEF Order
<1>8. After("add_handlers") = "update_roles"
  BY FollowerOf, 8 \in 1..20 DEF Order
<1>9. After("update_roles") = "start_sweep"
  BY FollowerOf, 9 \in 1..20 DEF Order
<1>10. After("start_sweep") = "shell_repo_init"
  BY FollowerOf, 10 \in 1..20 DEF Order
<1>11. After("shell_repo_init") = "http_server"
  BY FollowerOf, 11 \in 1..20 DEF Order
<1>12. After("http_server") = "wait"
  BY FollowerOf, 12 \in 1..20 DEF Order
<1>13. After("wait") = "farewell"
  BY FollowerOf, 13 \in 1..20 DEF Order
<1>14. After("farewell") = "stop_spam"
  BY FollowerOf, 14 \in 1..20 DEF Order
<1>15. After("stop_spam") = "stop_sweep"
  BY FollowerOf, 15 \in 1..20 DEF Order
<1>16. After("stop_sweep") = "close_session"
  BY FollowerOf, 16 \in 1..20 DEF Order
<1>17. After("close_session") = "db_deinit"
  BY FollowerOf, 17 \in 1..20 DEF Order
<1>18. After("db_deinit") = "stop_http"
  BY FollowerOf, 18 \in 1..20 DEF Order
<1>19. After("stop_http") = "shutdown"
  BY FollowerOf, 19 \in 1..20 DEF Order
<1>20. After("shutdown") = "stopped"
  BY FollowerOf, 20 \in 1..20 DEF Order
<1> QED
  BY <1>1, <1>2, <1>3, <1>4, <1>5, <1>6, <1>7, <1>8, <1>9, <1>10, <1>11, <1>12, <1>13, <1>14, <1>15, <1>16, <1>17, <1>18, <1>19, <1>20

-----------------------------------------------------------------------------
(* The invariant.                                                          *)

LEMMA InvInit == Init => Inv
BY CallsAre DEF Init, Inv, Types, Ups, Signals, Sessions, Stops, Running, Requests, Tickers,
     Loading, Served, Closing, Closed

\* One call of main at a time: what it brings, drops and starts.
LEMMA MainKeepsInv ==
    ASSUME Inv, MainStep
    PROVE  Inv'
<1> USE DEF Loading, Served, Closing, Closed
<1>1. main \in Calls /\ main \notin {"stop_spam", "stop_sweep", "stop_http", "wait", "stopped"}
  BY DEF Inv, Types, MainStep, StopOf
<1>2. /\ main' = After(main)
      /\ up' = (up \cup Brings(main)) \ Drops(main)
      /\ loop' = [t \in Tickers |-> IF t \in Starts(main) THEN "select" ELSE loop[t]]
      /\ UNCHANGED <<request, signalled>>
  BY DEF MainStep
<1>3. loop' \in [Tickers -> {"off", "select", "callback"}]
  BY <1>2 DEF Inv, Types
<1>4. main' \in Calls
  BY <1>1, <1>2, CallsAre, Followers
<1>5. up' \subseteq {"templates", "session", "maps", "handlers", "http"}
  BY <1>2 DEF Inv, Types, Brings, Drops
<1>6. Types'
  BY <1>2, <1>3, <1>4, <1>5 DEF Inv, Types
<1>7. Ups'
  BY <1>1, <1>2, CallsAre, Followers DEF Inv, Ups, Signals, Brings, Drops
<1>8. Signals'
  BY <1>1, <1>2, CallsAre, Followers DEF Inv, Signals
<1>9. Sessions'
  BY <1>1, <1>2, CallsAre, Followers DEF Inv, Sessions, Brings, Drops
<1>10. Stops'
  BY <1>1, <1>2, CallsAre, Followers DEF Inv, Stops, Starts, Tickers
<1>11. Running'
  BY <1>1, <1>2 DEF Inv, Running, Drops
<1> QED
  BY <1>6, <1>7, <1>8, <1>9, <1>10, <1>11 DEF Inv

LEMMA StopsAre ==
    StopOf["stop_spam"] = "spam" /\ StopOf["stop_sweep"] = "sweep" /\ StopOf["stop_http"] = "http"
BY DEF StopOf

LEMMA StopKeepsInv ==
    ASSUME Inv, NEW call \in DOMAIN StopOf, StopTicker(call)
    PROVE  Inv'
<1> USE DEF Loading, Served, Closing, Closed
<1>1. \/ call = "stop_spam" /\ StopOf[call] = "spam"
      \/ call = "stop_sweep" /\ StopOf[call] = "sweep"
  <2>1. call \in {"stop_spam", "stop_sweep", "stop_http"}
    BY DEF StopOf
  <2>2. StopOf[call] # "http"
    BY DEF StopTicker, Made
  <2> QED
    BY <2>1, <2>2, StopsAre
<1>2. /\ main = call /\ main' = After(call)
      /\ loop' = [loop EXCEPT ![StopOf[call]] = "off"]
      /\ UNCHANGED <<up, request, signalled>>
  BY DEF StopTicker
<1>3. Types'
  BY <1>1, <1>2, CallsAre, Followers DEF Inv, Types, Tickers
<1>4. Ups' /\ Signals' /\ Sessions' /\ Running'
  BY <1>1, <1>2, Followers DEF Inv, Ups, Signals, Sessions, Running
<1>5. Stops'
  BY <1>1, <1>2, Followers DEF Inv, Types, Stops, Tickers
<1> QED
  BY <1>3, <1>4, <1>5 DEF Inv

LEMMA OthersKeepInv ==
    ASSUME Inv,
           \/ Signal \/ Restart
           \/ \E t \in Tickers : Tick(t) \/ CallbackEnds(t)
           \/ \E r \in Requests : Command(r) \/ Webhook(r) \/ Statement(r)
    PROVE  Inv'
<1> USE DEF Loading, Served, Closing, Closed
<1>1. CASE Signal
  BY <1>1, CallsAre DEF Signal, Inv, Types, Ups, Signals, Sessions, Stops, Running
<1>2. CASE Restart
  BY <1>2, CallsAre DEF Restart, Inv, Types, Ups, Signals, Sessions, Stops, Running, Tickers
<1>3. ASSUME NEW t \in Tickers, Tick(t) \/ CallbackEnds(t)
      PROVE  Inv'
  <2>1. Types' /\ \A u \in Tickers : loop[u] = "off" => loop'[u] = "off"
    BY <1>3 DEF Tick, CallbackEnds, Inv, Types
  <2>2. Stops'
    BY <1>3, <2>1 DEF Tick, CallbackEnds, Inv, Stops, Tickers
  <2> QED
    BY <1>3, <2>1, <2>2 DEF Tick, CallbackEnds, Inv, Ups, Signals, Sessions, Running
<1>4. ASSUME NEW r \in Requests, Command(r) \/ Webhook(r) \/ Statement(r)
      PROVE  Inv'
  <2>1. /\ UNCHANGED <<main, up, loop, signalled>>
        /\ \/ request' = [request EXCEPT ![r] = "running"]
           \/ request' = [request EXCEPT ![r] = "ended"]
           \/ request' = [request EXCEPT ![r] = "panicked"]
        /\ request[r] = "running" \/ "handlers" \in up \/ "http" \in up
    BY <1>4 DEF Command, Webhook, Statement, RequestGoes
  <2>2. Types'
    BY <2>1 DEF Inv, Types
  <2>3. Running'
    BY <2>1 DEF Inv, Types, Ups, Running
  <2> QED
    BY <2>1, <2>2, <2>3 DEF Inv, Ups, Signals, Sessions, Stops
<1> QED
  BY <1>1, <1>2, <1>3, <1>4

LEMMA InvHolds == Spec => []Inv
<1>1. Inv /\ [Next]_vars => Inv'
  <2> SUFFICES ASSUME Inv, [Next]_vars PROVE Inv'
    OBVIOUS
  <2>1. CASE UNCHANGED vars
    BY <2>1 DEF vars, Inv, Types, Ups, Signals, Sessions, Stops, Running
  <2>2. CASE Next
    BY <2>2, MainKeepsInv, StopKeepsInv, OthersKeepInv DEF Next, Requests
  <2> QED
    BY <2>1, <2>2
<1> QED
  BY <1>1, InvInit, PTL DEF Spec

-----------------------------------------------------------------------------
\* Commands and webhooks run with their maps loaded and, until a signal comes,
\* their statements prepared, through any deaths and starts (main.go:184-207).
THEOREM ServedWhenReady == Spec => []ReadyWhenServed
<1>1. Inv => ReadyWhenServed
  BY DEF Inv, Ups, Running, ReadyWhenServed
<1> QED
  BY <1>1, InvHolds, PTL

\* Dclose waits for the spam ticker and the role sweep before it closes the
\* session, and neither starts again (main.go:204-206).
THEOREM TickersEndBeforeTheSession == Spec => []NoTickerOutlivesTheSession
<1>1. Inv => NoTickerOutlivesTheSession
  BY DEF Inv, Signals, Sessions, Stops, Closing, Closed, NoTickerOutlivesTheSession
<1> QED
  BY <1>1, InvHolds, PTL

-----------------------------------------------------------------------------
ServerStaysUp == main \notin {"shutdown", "stopped"}

\* The send on http_server_stop, a channel nobody makes (http_part.go:259),
\* never ends: main reaches neither srv.Shutdown nor its last line, whatever
\* requests and signals come (main.go:208-213).
THEOREM ServerIsNeverShutDown == Spec => []ServerStaysUp
<1>1. Init => ServerStaysUp
  BY DEF Init, ServerStaysUp
<1>2. Inv /\ ServerStaysUp /\ [Next]_vars => ServerStaysUp'
  <2> SUFFICES ASSUME Inv, ServerStaysUp, [Next]_vars PROVE ServerStaysUp'
    OBVIOUS
  <2>1. CASE UNCHANGED main
    BY <2>1 DEF ServerStaysUp
  <2>2. CASE MainStep
    <3>1. main \in Calls \ {"stop_spam", "stop_sweep", "stop_http", "wait", "stopped"}
      BY <2>2 DEF Inv, Types, MainStep, StopOf
    <3> QED
      BY <2>2, <3>1, CallsAre, Followers
         DEF MainStep, ServerStaysUp, Loading, Served, Closing, Closed
  <2>3. CASE \E call \in DOMAIN StopOf : StopTicker(call)
    BY <2>3, Followers DEF StopTicker, StopOf, Made, ServerStaysUp
  <2>4. CASE Signal \/ Restart
    BY <2>4 DEF Signal, Restart, ServerStaysUp
  <2> QED
    BY <2>1, <2>2, <2>3, <2>4
       DEF Next, vars, Tick, CallbackEnds, Command, Webhook, Statement, RequestGoes
<1> QED
  BY <1>1, <1>2, InvHolds, PTL DEF Spec
=============================================================================
