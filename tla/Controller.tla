----------------------------- MODULE Controller -----------------------------
(***************************************************************************)
(* The life of the process (cmd/main.go, internal/controller/controller.go,*)
(* internal/service/service.go): it empties Redis, starts the goroutines   *)
(* that fill it, and on a signal cancels the context and waits for them.   *)
(*                                                                         *)
(* Serve waits for the goroutines it has counted in a sync.WaitGroup: the  *)
(* HTTP server, the goroutine that starts the streams, one stream per      *)
(* client and the FOCIL service.  The polling loops are not counted.       *)
(* Redis outlives the process, and so does what a process has left there.  *)
(***************************************************************************)
EXTENDS Integers, FiniteSets

CONSTANTS
  Clients,       \* the configured endpoints
  Requests,      \* bound: API requests in flight
  FocilEnabled,  \* focil_enabled = "true" in the configuration
  MaxStarts,     \* bound: starts of the process
  MaxFaults      \* bound: failing calls, kills of the process

ASSUME ConstantsAssumption ==
  /\ IsFiniteSet(Clients)
  /\ FocilEnabled \in BOOLEAN
  /\ MaxStarts \in Nat
  /\ MaxFaults \in Nat

VARIABLES
  main,       \* where main and Serve are
  handler,    \* handleShutdown
  cancelled,  \* the context has been cancelled
  wg,         \* the counter of the wait group
  http,       \* the goroutine of the HTTP server
  requests,   \* the API requests in flight
  starter,    \* the goroutine of transactions.Stream
  stream,     \* streamEndpoint of each client
  loop,       \* processEndpointQueue of each client
  focil,      \* the goroutine of the FOCIL service
  start,      \* the number of the process that runs or ran last
  redis,      \* the starts of which Redis holds keys
  ended,      \* history: how the last process ended
  faults      \* number of faults so far

routines == <<handler, cancelled, wg, http, requests, starter, stream, loop, focil>>
vars == <<main, handler, cancelled, wg, http, requests, starter, stream, loop,
          focil, start, redis, ended, faults>>

Fault == faults < MaxFaults /\ faults' = faults + 1

Init ==
  /\ main = "down"
  /\ handler = "none"
  /\ cancelled = FALSE
  /\ wg = 0
  /\ http = "none"
  /\ requests = {}
  /\ starter = "none"
  /\ stream = [c \in Clients |-> "none"]
  /\ loop = [c \in Clients |-> "none"]
  /\ focil = "none"
  /\ start = 0
  /\ redis = {}
  /\ ended = [how |-> "none", signalled |-> FALSE]
  /\ faults = 0

\* The end of the process, on purpose or not, ends all its goroutines.
Die(how) ==
  /\ main' = "down"
  /\ ended' = [how |-> how, signalled |-> cancelled]
  /\ handler' = "none"
  /\ cancelled' = FALSE
  /\ wg' = 0
  /\ http' = "none"
  /\ requests' = {}
  /\ starter' = "none"
  /\ stream' = [c \in Clients |-> "none"]
  /\ loop' = [c \in Clients |-> "none"]
  /\ focil' = "none"
  /\ UNCHANGED <<start, redis>>

-----------------------------------------------------------------------------
(* main and Serve                                                          *)

Start ==
  /\ main = "down"
  /\ start < MaxStarts
  /\ start' = start + 1
  /\ main' = "load"
  /\ UNCHANGED <<routines, redis, ended, faults>>

\* NewService empties Redis; the result of FLUSHALL is not looked at.
Flush ==
  \/ redis' = {} /\ UNCHANGED faults
  \/ Fault /\ UNCHANGED redis

\* The services are set up twice: in main, and again in initialize.
Load ==
  /\ main = "load"
  /\ Flush
  /\ main' = "serve"
  /\ UNCHANGED <<routines, start, ended>>

Serve ==
  /\ main = "serve"
  /\ handler' = "starting"
  /\ main' = "init"
  /\ UNCHANGED <<cancelled, wg, http, requests, starter, stream, loop, focil,
                 start, redis, ended, faults>>

Initialize ==
  /\ main = "init"
  /\ Flush
  /\ main' = "http"
  /\ UNCHANGED <<routines, start, ended>>

\* log.Fatalf: the configuration or a URL in it is wrong.
LoadFails ==
  /\ main \in {"load", "init"}
  /\ Fault
  /\ Die("fatal")

StartHttp ==
  /\ main = "http"
  /\ wg' = wg + 1
  /\ http' = "started"
  /\ main' = "streams"
  /\ UNCHANGED <<handler, cancelled, requests, starter, stream, loop, focil,
                 start, redis, ended, faults>>

StartStreams ==
  /\ main = "streams"
  /\ wg' = wg + 1
  /\ starter' = "loops"
  /\ main' = "focil"
  /\ UNCHANGED <<handler, cancelled, http, requests, stream, loop, focil,
                 start, redis, ended, faults>>

\* Faulty variant: the FOCIL service sets up services of its own.
StartFocilAfresh ==
  /\ main = "focil"
  /\ wg' = IF FocilEnabled THEN wg + 1 ELSE wg
  /\ focil' = IF FocilEnabled THEN "waiting" ELSE "none"
  /\ redis' = {}
  /\ main' = "running"
  /\ UNCHANGED <<handler, cancelled, http, requests, starter, stream, loop,
                 start, ended, faults>>

StartFocil ==
  /\ main = "focil"
  /\ wg' = IF FocilEnabled THEN wg + 1 ELSE wg
  /\ focil' = IF FocilEnabled THEN "waiting" ELSE "none"
  /\ main' = "running"
  /\ UNCHANGED <<handler, cancelled, http, requests, starter, stream, loop,
                 start, redis, ended, faults>>

\* <-ctx.Done(), and Shutdown refuses new requests.
BeginShutdown ==
  /\ main = "running"
  /\ cancelled
  /\ main' = "shutdown"
  /\ UNCHANGED <<routines, start, redis, ended, faults>>

\* Faulty variant: Shutdown is called in a goroutine and not waited for.
EndShutdownAtOnce ==
  /\ main = "shutdown"
  /\ main' = "waiting"
  /\ UNCHANGED <<routines, start, redis, ended, faults>>

\* Shutdown returns when no request is in flight.
EndShutdown ==
  /\ main = "shutdown"
  /\ requests = {}
  /\ main' = "waiting"
  /\ UNCHANGED <<routines, start, redis, ended, faults>>

\* wg.Wait() returns, and the log says "All services shut down cleanly".
Wait ==
  /\ main = "waiting"
  /\ wg = 0
  /\ main' = "stopped"
  /\ UNCHANGED <<routines, start, redis, ended, faults>>

Exit ==
  /\ main = "stopped"
  /\ Die("clean")
  /\ UNCHANGED faults

MainStep ==
  \/ Load \/ Serve \/ Initialize \/ StartHttp \/ StartStreams \/ StartFocil
  \/ BeginShutdown \/ EndShutdown \/ Wait \/ Exit

-----------------------------------------------------------------------------
(* Signals                                                                 *)

Register ==
  /\ handler = "starting"
  /\ handler' = "waiting"
  /\ UNCHANGED <<main, cancelled, wg, http, requests, starter, stream, loop,
                 focil, start, redis, ended, faults>>

\* Only the first signal after signal.Notify is received; one that arrives
\* before kills the process.
Signal ==
  /\ main # "down"
  /\ IF handler = "waiting"
     THEN /\ handler' = "received"
          /\ UNCHANGED <<main, cancelled, wg, http, requests, starter, stream,
                         loop, focil, start, redis, ended, faults>>
     ELSE /\ handler \in {"none", "starting"}
          /\ Die("killed")
          /\ UNCHANGED faults

Cancel ==
  /\ handler = "received"
  /\ cancelled' = TRUE
  /\ handler' = "done"
  /\ UNCHANGED <<main, wg, http, requests, starter, stream, loop, focil, start,
                 redis, ended, faults>>

\* The process is killed, or the machine stops.
Crash ==
  /\ main # "down"
  /\ Fault
  /\ Die("killed")

-----------------------------------------------------------------------------
(* The HTTP server                                                         *)

Closing == main \in {"shutdown", "waiting", "stopped"}

\* ListenAndServe returns at once if Shutdown has been called before.
Listen ==
  /\ http = "started"
  /\ ~Closing
  /\ http' = "listening"
  /\ UNCHANGED <<main, handler, cancelled, wg, requests, starter, stream, loop,
                 focil, start, redis, ended, faults>>

\* Faulty variant: the error path has no wg.Done().
ListenFailsCounted ==
  /\ http = "started"
  /\ Fault
  /\ http' = "ended"
  /\ UNCHANGED <<main, handler, cancelled, wg, requests, starter, stream, loop,
                 focil, start, redis, ended>>

\* The port is taken: the error is logged, and the process goes on.
ListenFails ==
  /\ http = "started"
  /\ Fault
  /\ http' = "ended"
  /\ wg' = wg - 1
  /\ UNCHANGED <<main, handler, cancelled, requests, starter, stream, loop,
                 focil, start, redis, ended>>

ServerClosed ==
  /\ http \in {"started", "listening"}
  /\ Closing
  /\ http' = "ended"
  /\ wg' = wg - 1
  /\ UNCHANGED <<main, handler, cancelled, requests, starter, stream, loop,
                 focil, start, redis, ended, faults>>

Request(q) ==
  /\ http = "listening"
  /\ ~Closing
  /\ q \notin requests
  /\ requests' = requests \cup {q}
  /\ UNCHANGED <<main, handler, cancelled, wg, http, starter, stream, loop,
                 focil, start, redis, ended, faults>>

Respond(q) ==
  /\ q \in requests
  /\ requests' = requests \ {q}
  /\ UNCHANGED <<main, handler, cancelled, wg, http, starter, stream, loop,
                 focil, start, redis, ended, faults>>

-----------------------------------------------------------------------------
(* transactions.Stream                                                     *)

\* ProcessTransactions: the polling loops are started, and not counted.
StartLoops ==
  /\ starter = "loops"
  /\ loop' = [c \in Clients |-> "running"]
  /\ starter' = "streams"
  /\ UNCHANGED <<main, handler, cancelled, wg, http, requests, stream, focil,
                 start, redis, ended, faults>>

\* Faulty variant: the streams are not counted.
StartStreamUncounted(c) ==
  /\ starter = "streams"
  /\ stream[c] = "none"
  /\ stream' = [stream EXCEPT ![c] = "dial"]
  /\ UNCHANGED <<main, handler, cancelled, wg, http, requests, starter, loop,
                 focil, start, redis, ended, faults>>

StartStream(c) ==
  /\ starter = "streams"
  /\ stream[c] = "none"
  /\ wg' = wg + 1
  /\ stream' = [stream EXCEPT ![c] = "dial"]
  /\ UNCHANGED <<main, handler, cancelled, http, requests, starter, loop, focil,
                 start, redis, ended, faults>>

StarterEnds ==
  /\ starter = "streams"
  /\ \A c \in Clients : stream[c] # "none"
  /\ starter' = "ended"
  /\ wg' = wg - 1
  /\ UNCHANGED <<main, handler, cancelled, http, requests, stream, loop, focil,
                 start, redis, ended, faults>>

StreamEnds(c) ==
  /\ stream' = [stream EXCEPT ![c] = "ended"]
  /\ wg' = wg - 1
  /\ UNCHANGED <<main, handler, cancelled, http, requests, starter, loop, focil,
                 start, redis, ended>>

Dial(c) ==
  /\ stream[c] = "dial"
  /\ ~cancelled
  /\ stream' = [stream EXCEPT ![c] = "top"]
  /\ UNCHANGED <<main, handler, cancelled, wg, http, requests, starter, loop,
                 focil, start, redis, ended, faults>>

\* The error of dialWebSocket is logged, and the connection is nil: reading
\* from it, or closing it if the context is cancelled, panics.  With a
\* cancelled context every dial fails.
DialFails(c) ==
  /\ stream[c] = "dial"
  /\ \/ cancelled /\ UNCHANGED faults
     \/ Fault
  /\ Die("panic")

\* The head of the loop: the context is looked at before each read.
Top(c) ==
  /\ stream[c] = "top"
  /\ IF cancelled
     THEN StreamEnds(c) /\ UNCHANGED faults
     ELSE /\ stream' = [stream EXCEPT ![c] = "read"]
          /\ UNCHANGED <<main, handler, cancelled, wg, http, requests, starter,
                         loop, focil, start, redis, ended, faults>>

\* A message is read and stored.  If the context is cancelled meanwhile, the
\* Redis commands fail, their errors are ignored, and the loop goes on.
Message(c) ==
  /\ stream[c] = "read"
  /\ redis' = IF cancelled THEN redis ELSE redis \cup {start}
  /\ stream' = [stream EXCEPT ![c] = "top"]
  /\ UNCHANGED <<main, handler, cancelled, wg, http, requests, starter, loop,
                 focil, start, ended, faults>>

\* The read fails, or is interrupted by the cancellation.
ReadFails(c) ==
  /\ stream[c] = "read"
  /\ \/ cancelled /\ UNCHANGED faults
     \/ Fault
  /\ StreamEnds(c)

LoopEnds(c) ==
  /\ loop[c] = "running"
  /\ cancelled
  /\ loop' = [loop EXCEPT ![c] = "ended"]
  /\ UNCHANGED <<main, handler, cancelled, wg, http, requests, starter, stream,
                 focil, start, redis, ended, faults>>

\* Stream of the FOCIL service waits for the end of the context only.
FocilEnds ==
  /\ focil = "waiting"
  /\ cancelled
  /\ focil' = "ended"
  /\ wg' = wg - 1
  /\ UNCHANGED <<main, handler, cancelled, http, requests, starter, stream, loop,
                 start, redis, ended, faults>>

-----------------------------------------------------------------------------
HandlerStep == Register \/ Cancel
HttpStep    == Listen \/ ServerClosed
StarterStep == StartLoops \/ (\E c \in Clients : StartStream(c)) \/ StarterEnds
StreamStops(c) == (cancelled /\ (DialFails(c) \/ ReadFails(c))) \/ Top(c)

Next ==
  \/ Start \/ MainStep \/ LoadFails \/ Crash
  \/ HandlerStep \/ Signal
  \/ HttpStep \/ ListenFails \/ \E q \in Requests : Request(q) \/ Respond(q)
  \/ StarterStep \/ FocilEnds
  \/ \E c \in Clients :
       Dial(c) \/ DialFails(c) \/ Top(c) \/ Message(c) \/ ReadFails(c) \/ LoopEnds(c)

Spec == Init /\ [][Next]_vars

\* The goroutines are scheduled, cancelled calls return, requests are
\* answered; nothing else has to happen.
Fairness ==
  /\ WF_vars(MainStep) /\ WF_vars(HandlerStep) /\ WF_vars(HttpStep)
  /\ WF_vars(StarterStep) /\ WF_vars(FocilEnds)
  /\ \A q \in Requests : WF_vars(Respond(q))
  /\ \A c \in Clients : WF_vars(StreamStops(c))

FairSpec == Spec /\ Fairness

-----------------------------------------------------------------------------
(* Properties                                                              *)

MainPhases == {"down", "load", "serve", "init", "http", "streams", "focil",
               "running", "shutdown", "waiting", "stopped"}

TypeOK ==
  /\ main \in MainPhases
  /\ handler \in {"none", "starting", "waiting", "received", "done"}
  /\ cancelled \in BOOLEAN
  /\ wg \in Nat
  /\ http \in {"none", "started", "listening", "ended"}
  /\ requests \in SUBSET Requests
  /\ starter \in {"none", "loops", "streams", "ended"}
  /\ stream \in [Clients -> {"none", "dial", "top", "read", "ended"}]
  /\ loop \in [Clients -> {"none", "running", "ended"}]
  /\ focil \in {"none", "waiting", "ended"}
  /\ start \in 0 .. MaxStarts
  /\ redis \in SUBSET (1 .. MaxStarts)
  /\ ended \in [how : {"none", "clean", "fatal", "panic", "killed"}, signalled : BOOLEAN]
  /\ faults \in 0 .. MaxFaults

HttpRuns    == http \in {"started", "listening"}
StarterRuns == starter \in {"loops", "streams"}
StreamRuns(c) == stream[c] \in {"dial", "top", "read"}
FocilRuns   == focil = "waiting"

(* "All services shut down cleanly" is true of what Serve waits for: when   *)
(* the line is written, the server, the streams, the goroutine that starts  *)
(* streams and the FOCIL service have ended and no request is in flight.    *)
(* In particular Stream never calls wg.Add after wg.Wait has returned.      *)
CountedHaveEnded ==
  (main = "stopped") =>
    /\ ~HttpRuns /\ ~StarterRuns /\ ~FocilRuns
    /\ \A c \in Clients : ~StreamRuns(c)
    /\ requests = {}

(* The services are set up twice, and Redis is emptied each time; what the  *)
(* streams of a process have stored is never emptied by the same process.   *)
FlushSparesOwnData ==
  [][(start \in redis) => (start \in redis')]_vars

(* A signal that has been received ends the process, whatever it is doing:  *)
(* starting up, dialling, serving requests.                                 *)
SignalEndsProcess == handler \in {"received", "done"} ~> main = "down"

(* The inductive invariant: the counter of the wait group is the number of  *)
(* counted goroutines that have not ended, nothing runs before main starts  *)
(* it, and a process has stored nothing before its second FLUSHALL.         *)
Weight(running) == IF running THEN 1 ELSE 0
Running == {c \in Clients : StreamRuns(c)}
WaitGroupCounts ==
  wg = Weight(HttpRuns) + Weight(StarterRuns) + Weight(FocilRuns) + Cardinality(Running)

Early == {"down", "load", "serve", "init", "http"}
PhaseInv ==
  /\ main \in Early => http = "none"
  /\ main \in Early \cup {"streams"} => starter = "none"
  /\ main \in Early \cup {"streams", "focil"} => focil = "none"
  /\ starter \in {"none", "loops"} => \A c \in Clients : stream[c] = "none"
  /\ main \in Early => requests = {}
  /\ main \in {"waiting", "stopped"} => requests = {}
  /\ main = "stopped" => wg = 0
  /\ main \in {"shutdown", "waiting", "stopped"} => cancelled

DataInv ==
  /\ \A s \in redis : s <= start
  /\ main # "down" => start > 0
  /\ main \in {"load", "serve", "init"} => start \notin redis

IInv == TypeOK /\ WaitGroupCounts /\ PhaseInv /\ DataInv

(* What SignalEndsProcess owes to the wait group: Serve, in its wg.Wait, is *)
(* never left waiting for nobody.  Until the counter is zero some counted   *)
(* goroutine runs, and the context that makes it end is cancelled.          *)
WaitIsForSomebody ==
  main = "waiting" =>
    /\ cancelled
    /\ wg > 0 => HttpRuns \/ StarterRuns \/ FocilRuns \/ \E c \in Clients : StreamRuns(c)

-----------------------------------------------------------------------------
(* What the documentation says and the code does not do                    *)

(* controller.go:51 calls it a "Graceful shutdown signal handler": a        *)
(* process that has received the signal should not end with a panic.        *)
ShutdownIsGraceful == ~(ended.how = "panic" /\ ended.signalled)
=============================================================================
