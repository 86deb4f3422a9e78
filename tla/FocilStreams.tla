---------------------------- MODULE FocilStreams ----------------------------
(***************************************************************************)
(* The goroutines of internal/focil/processor.go and how they end.  Focil  *)
(* has what they do to Redis; here are the channels between them, the wait *)
(* group and the cancellation of the context.                              *)
(*                                                                         *)
(*   SubscribeRaw --events--> streamBeaconUrl      one pair per beacon     *)
(*        +---------errs--------->+                                        *)
(*   processClientInclusionList --go--> processBlock   one per header      *)
(*        +<--------wg-----------------+                                   *)
(***************************************************************************)
EXTENDS Integers

CONSTANTS
  Beacons,    \* the configured beacon nodes
  Endpoints,  \* the configured execution clients
  MaxEvents,  \* bound: events of one beacon node
  MaxHeads    \* bound: block headers of one client

ASSUME ConstantsAssumption == {MaxEvents, MaxHeads} \subseteq Nat

VARIABLES
  cancelled,  \* ctx has been cancelled
  service,    \* Stream
  sub,        \* the goroutine in SubscribeRaw, for each beacon node
  loop,       \* streamBeaconUrl
  errs,       \* how many results are in the channel errs, of capacity 1
  got,        \* number of events that the callback has been given
  handled,    \* number of events that handleInclusionListMessage is done with
  listener,   \* processClientInclusionList, for each client
  wg,         \* its wait group
  heads,      \* number of headers it has received
  blocks      \* number of its processBlock goroutines that have not returned

beaconVars == <<sub, loop, errs, got, handled>>
clientVars == <<listener, wg, heads, blocks>>
vars == <<cancelled, service, beaconVars, clientVars>>

Init ==
  /\ cancelled = FALSE
  /\ service = "waiting"
  /\ sub = [b \in Beacons |-> "subscribed"]
  /\ loop = [b \in Beacons |-> "select"]
  /\ errs = [b \in Beacons |-> 0]
  /\ got = [b \in Beacons |-> 0]
  /\ handled = [b \in Beacons |-> 0]
  /\ listener = [e \in Endpoints |-> "dialling"]
  /\ wg = [e \in Endpoints |-> 0]
  /\ heads = [e \in Endpoints |-> 0]
  /\ blocks = [e \in Endpoints |-> 0]

\* The controller shuts down; it waits for Stream, and for nothing else here.
Cancel ==
  /\ ~cancelled
  /\ cancelled' = TRUE
  /\ UNCHANGED <<service, beaconVars, clientVars>>

StreamReturns ==
  /\ service = "waiting"
  /\ cancelled
  /\ service' = "ended"
  /\ UNCHANGED <<cancelled, beaconVars, clientVars>>

-----------------------------------------------------------------------------
(* streamBeaconUrl and its subscription                                    *)

SubGoto(b, s)  == sub' = [sub EXCEPT ![b] = s]
LoopGoto(b, s) == loop' = [loop EXCEPT ![b] = s]

\* An event with data: the callback stands in its select.  Events without
\* data are dropped at once.
GetEvent(b) ==
  /\ sub[b] = "subscribed"
  /\ got[b] < MaxEvents
  /\ got' = [got EXCEPT ![b] = @ + 1]
  /\ SubGoto(b, "offering")
  /\ UNCHANGED <<cancelled, service, loop, errs, handled, clientVars>>

\* Faulty variant: a select with a default branch, that drops an event which
\* the loop is not ready for.
DeliverOrDrop(b) ==
  /\ sub[b] = "offering"
  /\ SubGoto(b, "subscribed")
  /\ loop' = IF loop[b] = "select" THEN [loop EXCEPT ![b] = "handling"] ELSE loop
  /\ UNCHANGED <<cancelled, service, errs, got, handled, clientVars>>

\* events is not buffered: callback and loop meet.
Deliver(b) ==
  /\ sub[b] = "offering"
  /\ loop[b] = "select"
  /\ SubGoto(b, "subscribed")
  /\ LoopGoto(b, "handling")
  /\ UNCHANGED <<cancelled, service, errs, got, handled, clientVars>>

\* The other branch of the callback.  Nothing else makes it give up: the
\* Unsubscribe of the loop knows only the channels of other subscriptions.
DropEvent(b) ==
  /\ sub[b] = "offering"
  /\ cancelled
  /\ SubGoto(b, "subscribed")
  /\ UNCHANGED <<cancelled, service, loop, errs, got, handled, clientVars>>

\* SubscribeRaw returns, with or without an error, between two callbacks.
SubscriptionEnds(b) ==
  /\ sub[b] = "subscribed"
  /\ SubGoto(b, "reporting")
  /\ UNCHANGED <<cancelled, service, loop, errs, got, handled, clientVars>>

\* Faulty variant: errs without a buffer.
ReportDirectly(b) ==
  /\ sub[b] = "reporting"
  /\ loop[b] = "select"
  /\ errs' = [errs EXCEPT ![b] = @ + 1]
  /\ SubGoto(b, "ended")
  /\ UNCHANGED <<cancelled, service, loop, got, handled, clientVars>>

\* Faulty variant: errs without a buffer, and a select with a default branch,
\* that drops the result when the loop is not ready for it.
ReportOrDrop(b) ==
  /\ sub[b] = "reporting"
  /\ errs' = IF loop[b] = "select" THEN [errs EXCEPT ![b] = 1] ELSE errs
  /\ SubGoto(b, "ended")
  /\ UNCHANGED <<cancelled, service, loop, got, handled, clientVars>>

\* errs <- err
Report(b) ==
  /\ sub[b] = "reporting"
  /\ errs[b] < 1
  /\ errs' = [errs EXCEPT ![b] = @ + 1]
  /\ SubGoto(b, "ended")
  /\ UNCHANGED <<cancelled, service, loop, got, handled, clientVars>>

\* handleInclusionListMessage returns; its errors are only logged.
Handle(b) ==
  /\ loop[b] = "handling"
  /\ handled' = [handled EXCEPT ![b] = @ + 1]
  /\ LoopGoto(b, "select")
  /\ UNCHANGED <<cancelled, service, sub, errs, got, clientVars>>

\* Faulty variant: a receive that does not wait for a result.
LoopPollsError(b) ==
  /\ loop[b] = "select"
  /\ errs' = [errs EXCEPT ![b] = @ - 1]
  /\ LoopGoto(b, "ended")
  /\ UNCHANGED <<cancelled, service, sub, got, handled, clientVars>>

LoopSeesError(b) ==
  /\ loop[b] = "select"
  /\ errs[b] > 0
  /\ errs' = [errs EXCEPT ![b] = @ - 1]
  /\ LoopGoto(b, "ended")
  /\ UNCHANGED <<cancelled, service, sub, got, handled, clientVars>>

LoopSeesCancel(b) ==
  /\ loop[b] = "select"
  /\ cancelled
  /\ LoopGoto(b, "ended")
  /\ UNCHANGED <<cancelled, service, sub, errs, got, handled, clientVars>>

-----------------------------------------------------------------------------
(* processClientInclusionList and processBlock                             *)

ListenerGoto(e, s) == listener' = [listener EXCEPT ![e] = s]

\* DialContext, then SubscribeNewHead: each may fail, and fails at the latest
\* when ctx is cancelled.
Connect(e) ==
  /\ \/ listener[e] = "dialling" /\ ListenerGoto(e, "subscribing")
     \/ listener[e] = "subscribing" /\ ListenerGoto(e, "select")
  /\ ~cancelled
  /\ UNCHANGED <<cancelled, service, beaconVars, wg, heads, blocks>>

ConnectFails(e) ==
  /\ listener[e] \in {"dialling", "subscribing"}
  /\ ListenerGoto(e, "ended")
  /\ UNCHANGED <<cancelled, service, beaconVars, wg, heads, blocks>>

\* wg.Add(1); go processBlock.  The select may take a header even when ctx is
\* cancelled already.
NewHead(e) ==
  /\ listener[e] = "select"
  /\ heads[e] < MaxHeads
  /\ heads' = [heads EXCEPT ![e] = @ + 1]
  /\ wg' = [wg EXCEPT ![e] = @ + 1]
  /\ blocks' = [blocks EXCEPT ![e] = @ + 1]
  /\ UNCHANGED <<cancelled, service, beaconVars, listener>>

\* processBlock returns on one of its paths.  None of them counts wg down.
BlockReturns(e) ==
  /\ blocks[e] > 0
  /\ blocks' = [blocks EXCEPT ![e] = @ - 1]
  /\ UNCHANGED <<cancelled, service, beaconVars, listener, wg, heads>>

\* Faulty variant: the listener does not look at ctx.
LeaveOnError(e) ==
  /\ listener[e] = "select"
  /\ ~cancelled
  /\ ListenerGoto(e, "waiting")
  /\ UNCHANGED <<cancelled, service, beaconVars, wg, heads, blocks>>

\* The loop is left, because the subscription has failed or ctx is cancelled.
\* Both ways lead to a wg.Wait, and only then to sub.Unsubscribe.
LeaveLoop(e) ==
  /\ listener[e] = "select"
  /\ ListenerGoto(e, "waiting")
  /\ UNCHANGED <<cancelled, service, beaconVars, wg, heads, blocks>>

ListenerEnds(e) ==
  /\ listener[e] = "waiting"
  /\ wg[e] = 0
  /\ ListenerGoto(e, "ended")
  /\ UNCHANGED <<cancelled, service, beaconVars, wg, heads, blocks>>

-----------------------------------------------------------------------------
Next ==
  \/ Cancel \/ StreamReturns
  \/ \E b \in Beacons :
       \/ GetEvent(b) \/ Deliver(b) \/ DropEvent(b) \/ Handle(b)
       \/ SubscriptionEnds(b) \/ Report(b) \/ LoopSeesError(b) \/ LoopSeesCancel(b)
  \/ \E e \in Endpoints :
       \/ Connect(e) \/ ConnectFails(e) \/ NewHead(e) \/ BlockReturns(e)
       \/ LeaveLoop(e) \/ ListenerEnds(e)

Spec == Init /\ [][Next]_vars

\* Goroutines that can go on do.  Nothing makes a shutdown happen, an event or
\* a header come, or a connection fail before ctx is cancelled.
Fairness ==
  /\ WF_vars(StreamReturns)
  /\ \A b \in Beacons :
       /\ WF_vars(Deliver(b)) /\ WF_vars(DropEvent(b)) /\ WF_vars(Handle(b))
       /\ WF_vars(Report(b)) /\ WF_vars(LoopSeesError(b)) /\ WF_vars(LoopSeesCancel(b))
  /\ \A e \in Endpoints :
       /\ WF_vars(cancelled /\ (ConnectFails(e) \/ LeaveLoop(e)))
       /\ WF_vars(BlockReturns(e)) /\ WF_vars(ListenerEnds(e))

FairSpec == Spec /\ Fairness

-----------------------------------------------------------------------------
(* Properties                                                              *)

Holds(p) == IF p THEN 1 ELSE 0

TypeOK ==
  /\ cancelled \in BOOLEAN
  /\ service \in {"waiting", "ended"}
  /\ sub \in [Beacons -> {"subscribed", "offering", "reporting", "ended"}]
  /\ loop \in [Beacons -> {"select", "handling", "ended"}]
  /\ errs \in [Beacons -> 0 .. 1]
  /\ got \in [Beacons -> Nat]
  /\ handled \in [Beacons -> Nat]
  /\ listener \in [Endpoints -> {"dialling", "subscribing", "select", "waiting", "ended"}]
  /\ wg \in [Endpoints -> Nat]
  /\ heads \in [Endpoints -> Nat]
  /\ blocks \in [Endpoints -> Nat]

(* Before a shutdown no event is lost between the callback and the handler, *)
(* not even when the subscription ends right behind it: what the callback   *)
(* has been given is handled, or one of the two holds it.                   *)
NoEventLost ==
  \A b \in Beacons : ~cancelled =>
    got[b] = handled[b] + Holds(sub[b] = "offering") + Holds(loop[b] = "handling")

(* The invariants behind them.  wg counts every header and none out, and    *)
(* there are at most as many goroutines as it has counted.  What SubscribeRaw *)
(* returns with is in errs, or the loop has taken it or gone before.        *)
WaitInv ==
  \A e \in Endpoints :
    /\ wg[e] = heads[e]
    /\ blocks[e] <= wg[e]
    /\ listener[e] \notin {"select", "waiting"} => wg[e] = 0

ResultInv ==
  \A b \in Beacons :
    /\ sub[b] # "ended" => errs[b] = 0
    /\ sub[b] = "ended" => errs[b] = 1 \/ loop[b] = "ended"
    /\ loop[b] = "ended" => cancelled \/ sub[b] = "ended"

IInv == TypeOK /\ NoEventLost /\ WaitInv /\ ResultInv

(* What the liveness below rests on, without the scheduling: wherever a     *)
(* goroutine of a beacon node waits, what it waits for is there or somebody *)
(* is left to bring it.  A callback has the loop or the cancelled context,  *)
(* a result has room in errs, and a loop has a subscription or its result.  *)
NobodyIsAbandoned ==
  \A b \in Beacons :
    /\ sub[b] = "offering" => loop[b] # "ended" \/ cancelled
    /\ sub[b] = "reporting" => errs[b] = 0
    /\ loop[b] = "select" => sub[b] # "ended" \/ errs[b] > 0

(* The wg.Wait of a listener lets nobody through who has received a header: *)
(* a listener that returns has had none, and one that waits and has had one *)
(* waits for ever, whatever its goroutines do.                              *)
HeaderKeepsListener ==
  \A e \in Endpoints :
    heads[e] > 0 => listener[e] \in {"select", "waiting"} /\ wg[e] > 0

(* The goroutine in SubscribeRaw is never stuck: neither in its callback     *)
(* when the loop has ended, nor when it reports to a loop that is gone.      *)
SubscriberIsNeverStuck ==
  \A b \in Beacons : []<>(sub[b] \in {"subscribed", "ended"})

(* After a shutdown Stream and the stream loops end; a listener ends, or has *)
(* received a header and waits for ever.                                     *)
ShutdownEndsGoroutines ==
  cancelled ~>
    /\ service = "ended"
    /\ \A b \in Beacons : loop[b] = "ended"
    /\ \A e \in Endpoints :
         listener[e] = "ended" \/ (listener[e] = "waiting" /\ heads[e] > 0)

=============================================================================
