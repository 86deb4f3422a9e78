------------------------ MODULE FocilStreams_proofs ------------------------
(***************************************************************************)
(* Proofs about FocilStreams, for any number of beacon nodes, clients,     *)
(* events and headers.                                                     *)
(***************************************************************************)
EXTENDS FocilStreams, TLAPS

(* The steps of one beacon node and of one client.                         *)
BeaconStep(b) ==
  \/ GetEvent(b) \/ Deliver(b) \/ DropEvent(b) \/ Handle(b)
  \/ SubscriptionEnds(b) \/ Report(b) \/ LoopSeesError(b) \/ LoopSeesCancel(b)

ClientStep(e) ==
  \/ Connect(e) \/ ConnectFails(e) \/ NewHead(e) \/ BlockReturns(e)
  \/ LeaveLoop(e) \/ ListenerEnds(e)

(* Every step is of the process, of a beacon node or of a client.          *)
LEMMA StepCases ==
  ASSUME Next
  PROVE  \/ Cancel \/ StreamReturns
         \/ \E b \in Beacons : BeaconStep(b)
         \/ \E e \in Endpoints : ClientStep(e)
BY DEF Next, BeaconStep, ClientStep

(* Beacon nodes do not touch what belongs to the clients, nor the reverse. *)
LEMMA BeaconStepKeepsClients ==
  ASSUME NEW b \in Beacons, BeaconStep(b)
  PROVE  UNCHANGED <<cancelled, service, clientVars>>
BY DEF BeaconStep, GetEvent, Deliver, DropEvent, Handle, SubscriptionEnds, Report,
  LoopSeesError, LoopSeesCancel, clientVars

LEMMA ClientStepKeepsBeacons ==
  ASSUME NEW e \in Endpoints, ClientStep(e)
  PROVE  UNCHANGED <<cancelled, service, beaconVars>>
BY DEF ClientStep, Connect, ConnectFails, NewHead, BlockReturns, LeaveLoop, ListenerEnds,
  beaconVars

-----------------------------------------------------------------------------
(* The type invariant                                                      *)

LEMMA BeaconStepTyped ==
  ASSUME TypeOK, NEW b \in Beacons, BeaconStep(b)
  PROVE  TypeOK'
<1> USE DEF TypeOK
<1>1. UNCHANGED <<cancelled, service, clientVars>>
  BY BeaconStepKeepsClients
<1> USE <1>1 DEF clientVars, SubGoto, LoopGoto
<1>2. CASE GetEvent(b) BY <1>2 DEF GetEvent
<1>3. CASE Deliver(b) BY <1>3 DEF Deliver
<1>4. CASE DropEvent(b) BY <1>4 DEF DropEvent
<1>5. CASE Handle(b) BY <1>5 DEF Handle
<1>6. CASE SubscriptionEnds(b) BY <1>6 DEF SubscriptionEnds
<1>7. CASE Report(b) BY <1>7 DEF Report
<1>8. CASE LoopSeesError(b) BY <1>8 DEF LoopSeesError
<1>9. CASE LoopSeesCancel(b) BY <1>9 DEF LoopSeesCancel
<1> QED
  BY <1>2, <1>3, <1>4, <1>5, <1>6, <1>7, <1>8, <1>9 DEF BeaconStep

LEMMA ClientStepTyped ==
  ASSUME TypeOK, NEW e \in Endpoints, ClientStep(e)
  PROVE  TypeOK'
<1> USE DEF TypeOK
<1>1. UNCHANGED <<cancelled, service, beaconVars>>
  BY ClientStepKeepsBeacons
<1> USE <1>1 DEF beaconVars, ListenerGoto
<1>2. CASE Connect(e) BY <1>2 DEF Connect
<1>3. CASE ConnectFails(e) BY <1>3 DEF ConnectFails
<1>4. CASE NewHead(e) BY <1>4 DEF NewHead
<1>5. CASE BlockReturns(e) BY <1>5 DEF BlockReturns
<1>6. CASE LeaveLoop(e) BY <1>6 DEF LeaveLoop
<1>7. CASE ListenerEnds(e) BY <1>7 DEF ListenerEnds
<1> QED
  BY <1>2, <1>3, <1>4, <1>5, <1>6, <1>7 DEF ClientStep

(* Types, and with them that the channel errs never holds more than one    *)
(* result (processor.go:59).                                               *)
THEOREM TypeCorrect == Spec => []TypeOK
<1>1. Init => TypeOK
  <2> SUFFICES ASSUME Init PROVE TypeOK
    OBVIOUS
  <2>1. sub \in [Beacons -> {"subscribed", "offering", "reporting", "ended"}]
    BY DEF Init
  <2>2. loop \in [Beacons -> {"select", "handling", "ended"}]
    BY DEF Init
  <2>3. errs \in [Beacons -> 0 .. 1] /\ got \in [Beacons -> Nat] /\ handled \in [Beacons -> Nat]
    BY DEF Init
  <2>4. listener \in [Endpoints -> {"dialling", "subscribing", "select", "waiting", "ended"}]
    BY DEF Init
  <2>5. wg \in [Endpoints -> Nat] /\ heads \in [Endpoints -> Nat] /\ blocks \in [Endpoints -> Nat]
    BY DEF Init
  <2> QED
    BY <2>1, <2>2, <2>3, <2>4, <2>5 DEF Init, TypeOK
<1>2. TypeOK /\ [Next]_vars => TypeOK'
  <2> SUFFICES ASSUME TypeOK, [Next]_vars PROVE TypeOK'
    OBVIOUS
  <2>1. CASE Cancel \/ StreamReturns
    BY <2>1 DEF Cancel, StreamReturns, beaconVars, clientVars, TypeOK
  <2>2. CASE \E b \in Beacons : BeaconStep(b)
    BY <2>2, BeaconStepTyped
  <2>3. CASE \E e \in Endpoints : ClientStep(e)
    BY <2>3, ClientStepTyped
  <2>4. CASE UNCHANGED vars
    BY <2>4 DEF vars, beaconVars, clientVars, TypeOK
  <2> QED
    BY <2>1, <2>2, <2>3, <2>4, StepCases
<1> QED
  BY <1>1, <1>2, PTL DEF Spec

-----------------------------------------------------------------------------
(* Events                                                                  *)

LEMMA BeaconStepLosesNone ==
  ASSUME TypeOK, NoEventLost, NEW b \in Beacons, BeaconStep(b)
  PROVE  NoEventLost'
<1> USE DEF TypeOK, NoEventLost, Holds
<1>1. UNCHANGED <<cancelled, service, clientVars>>
  BY BeaconStepKeepsClients
<1> USE <1>1 DEF clientVars, SubGoto, LoopGoto
<1>2. CASE GetEvent(b) BY <1>2 DEF GetEvent
<1>3. CASE Deliver(b) BY <1>3 DEF Deliver
<1>4. CASE DropEvent(b) BY <1>4 DEF DropEvent
<1>5. CASE Handle(b) BY <1>5 DEF Handle
<1>6. CASE SubscriptionEnds(b) BY <1>6 DEF SubscriptionEnds
<1>7. CASE Report(b) BY <1>7 DEF Report
<1>8. CASE LoopSeesError(b) BY <1>8 DEF LoopSeesError
<1>9. CASE LoopSeesCancel(b) BY <1>9 DEF LoopSeesCancel
<1> QED
  BY <1>2, <1>3, <1>4, <1>5, <1>6, <1>7, <1>8, <1>9 DEF BeaconStep

(* Before a shutdown every event reaches the handler (processor.go:62-92). *)
THEOREM EventsAreKept == Spec => []NoEventLost
<1>1. Init => NoEventLost
  BY DEF Init, NoEventLost, Holds
<1>2. TypeOK /\ NoEventLost /\ [Next]_vars => NoEventLost'
  <2> SUFFICES ASSUME TypeOK, NoEventLost, [Next]_vars PROVE NoEventLost'
    OBVIOUS
  <2>1. CASE Cancel
    BY <2>1 DEF Cancel, NoEventLost
  <2>2. CASE StreamReturns
    BY <2>2 DEF StreamReturns, beaconVars, NoEventLost
  <2>3. CASE \E b \in Beacons : BeaconStep(b)
    BY <2>3, BeaconStepLosesNone
  <2>4. CASE \E e \in Endpoints : ClientStep(e)
    BY <2>4, ClientStepKeepsBeacons DEF beaconVars, NoEventLost
  <2>5. CASE UNCHANGED vars
    BY <2>5 DEF vars, beaconVars, NoEventLost
  <2> QED
    BY <2>1, <2>2, <2>3, <2>4, <2>5, StepCases
<1> QED
  BY <1>1, <1>2, TypeCorrect, PTL DEF Spec

-----------------------------------------------------------------------------
(* The wait group                                                          *)

LEMMA ClientStepCounts ==
  ASSUME TypeOK, WaitInv, NEW e \in Endpoints, ClientStep(e)
  PROVE  WaitInv'
<1> USE DEF TypeOK, WaitInv, ListenerGoto
<1>1. CASE Connect(e) BY <1>1 DEF Connect
<1>2. CASE ConnectFails(e) BY <1>2 DEF ConnectFails
<1>3. CASE NewHead(e) BY <1>3 DEF NewHead
<1>4. CASE BlockReturns(e) BY <1>4 DEF BlockReturns
<1>5. CASE LeaveLoop(e) BY <1>5 DEF LeaveLoop
<1>6. CASE ListenerEnds(e) BY <1>6 DEF ListenerEnds
<1> QED
  BY <1>1, <1>2, <1>3, <1>4, <1>5, <1>6 DEF ClientStep

(* The invariant of the wait group, for every step.                        *)
LEMMA WaitStep == TypeOK /\ WaitInv /\ [Next]_vars => WaitInv'
<1> SUFFICES ASSUME TypeOK, WaitInv, [Next]_vars PROVE WaitInv'
  OBVIOUS
<1>1. CASE UNCHANGED clientVars
  BY <1>1 DEF clientVars, WaitInv
<1>2. CASE \E e \in Endpoints : ClientStep(e)
  BY <1>2, ClientStepCounts
<1>3. CASE \E b \in Beacons : BeaconStep(b)
  BY <1>1, <1>3, BeaconStepKeepsClients
<1> QED
  BY <1>1, <1>2, <1>3, StepCases DEF Cancel, StreamReturns, vars

-----------------------------------------------------------------------------
(* Results of subscriptions                                                *)

LEMMA BeaconStepResults ==
  ASSUME TypeOK, ResultInv, NEW b \in Beacons, BeaconStep(b)
  PROVE  ResultInv'
<1> USE DEF TypeOK, ResultInv
<1>1. UNCHANGED <<cancelled, service, clientVars>>
  BY BeaconStepKeepsClients
<1> USE <1>1 DEF SubGoto, LoopGoto
<1>2. CASE GetEvent(b) BY <1>2 DEF GetEvent
<1>3. CASE Deliver(b) BY <1>3 DEF Deliver
<1>4. CASE DropEvent(b) BY <1>4 DEF DropEvent
<1>5. CASE Handle(b) BY <1>5 DEF Handle
<1>6. CASE SubscriptionEnds(b) BY <1>6 DEF SubscriptionEnds
<1>7. CASE Report(b) BY <1>7 DEF Report
<1>8. CASE LoopSeesError(b) BY <1>8 DEF LoopSeesError
<1>9. CASE LoopSeesCancel(b) BY <1>9 DEF LoopSeesCancel
<1> QED
  BY <1>2, <1>3, <1>4, <1>5, <1>6, <1>7, <1>8, <1>9 DEF BeaconStep

LEMMA ResultStep == TypeOK /\ ResultInv /\ [Next]_vars => ResultInv'
<1> SUFFICES ASSUME TypeOK, ResultInv, [Next]_vars PROVE ResultInv'
  OBVIOUS
<1>1. CASE Cancel
  BY <1>1 DEF Cancel, beaconVars, ResultInv
<1>2. CASE UNCHANGED <<cancelled, beaconVars>>
  BY <1>2 DEF beaconVars, ResultInv
<1>3. CASE \E b \in Beacons : BeaconStep(b)
  BY <1>3, BeaconStepResults
<1>4. CASE \E e \in Endpoints : ClientStep(e)
  BY <1>2, <1>4, ClientStepKeepsBeacons
<1> QED
  BY <1>1, <1>2, <1>3, <1>4, StepCases DEF StreamReturns, vars

-----------------------------------------------------------------------------
(* The theorems                                                            *)

(* IInv is an invariant of the goroutines of the FOCIL service.            *)
THEOREM Inductive == Spec => []IInv
<1>1. Init => WaitInv
  BY DEF Init, WaitInv
<1>2. Init => ResultInv
  BY DEF Init, ResultInv
<1> QED
  BY <1>1, <1>2, WaitStep, ResultStep, TypeCorrect, EventsAreKept, PTL DEF Spec, IInv

(* No goroutine of a beacon node waits for one that is gone (processor.go: *)
(* 58-92): the channel of results takes every result at once, the callback *)
(* has the loop or the context.                                            *)
THEOREM BeaconsGoOn == Spec => []NobodyIsAbandoned
<1>1. ASSUME IInv, NEW b \in Beacons
      PROVE  /\ sub[b] = "offering" => loop[b] # "ended" \/ cancelled
             /\ sub[b] = "reporting" => errs[b] = 0
             /\ loop[b] = "select" => sub[b] # "ended" \/ errs[b] > 0
  BY <1>1 DEF IInv, ResultInv
<1>2. IInv => NobodyIsAbandoned
  BY <1>1 DEF NobodyIsAbandoned
<1> QED
  BY <1>2, Inductive, PTL

(* A listener that has received a header never returns (processor.go:231). *)
THEOREM ListenersAreKept == Spec => []HeaderKeepsListener
<1>1. IInv => HeaderKeepsListener
  BY DEF IInv, TypeOK, WaitInv, HeaderKeepsListener
<1> QED
  BY <1>1, Inductive, PTL

=============================================================================
