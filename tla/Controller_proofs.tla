------------------------- MODULE Controller_proofs -------------------------
(***************************************************************************)
(* Proofs about Controller, for any set of clients and any bounds: the     *)
(* wait group counts what it should, so that nothing counted is running    *)
(* when Serve says that all services have been shut down, and no process   *)
(* empties Redis of what it has stored itself.                             *)
(***************************************************************************)
EXTENDS Controller, FiniteSetTheorems, TLAPS

-----------------------------------------------------------------------------
(* The set of streams that run, and its cardinality.                       *)

(* Running is a finite set of clients.                                     *)
LEMMA RunningFinite == /\ IsFiniteSet(Running)
                       /\ Cardinality(Running) \in Nat
<1>1. Running \subseteq Clients  BY DEF Running
<1>2. IsFiniteSet(Clients)  BY ConstantsAssumption
<1>3. IsFiniteSet(Running)  BY <1>1, <1>2, FS_Subset
<1> QED  BY <1>3, FS_CardinalityType

(* A stream that starts adds one to the streams that run.                  *)
LEMMA OneMoreRuns ==
  ASSUME NEW c \in Clients,
         stream \in [Clients -> {"none", "dial", "top", "read", "ended"}],
         ~StreamRuns(c),
         stream' = [stream EXCEPT ![c] = "dial"]
  PROVE  Cardinality(Running)' = Cardinality(Running) + 1
<1>1. Running' = Running \cup {c}  BY DEF Running, StreamRuns
<1>2. c \notin Running  BY DEF Running
<1>3. Cardinality(Running \cup {c}) = Cardinality(Running) + 1
  BY <1>2, RunningFinite, FS_AddElement
<1> QED  BY <1>1, <1>3

(* A stream that ends takes one away.                                      *)
LEMMA OneLessRuns ==
  ASSUME NEW c \in Clients,
         stream \in [Clients -> {"none", "dial", "top", "read", "ended"}],
         StreamRuns(c),
         stream' = [stream EXCEPT ![c] = "ended"]
  PROVE  /\ Cardinality(Running)' = Cardinality(Running) - 1
         /\ Cardinality(Running) > 0
<1>1. Running' = Running \ {c}  BY DEF Running, StreamRuns
<1>2. c \in Running  BY DEF Running
<1>3. Cardinality(Running \ {c}) = Cardinality(Running) - 1
  BY <1>2, RunningFinite, FS_RemoveElement
<1>4. Cardinality(Running) # 0  BY <1>2, RunningFinite, FS_EmptySet
<1> QED  BY <1>1, <1>3, <1>4, RunningFinite

(* A set of streams that is not counted as empty has a stream.              *)
LEMMA SomeRuns ==
  ASSUME Cardinality(Running) # 0
  PROVE  \E c \in Clients : StreamRuns(c)
<1>1. Running # {}  BY RunningFinite, FS_EmptySet
<1> QED  BY <1>1 DEF Running

(* No stream runs if and only if all streams are counted out.              *)
LEMMA NoneRuns ==
  ASSUME Cardinality(Running) = 0
  PROVE  \A c \in Clients : ~StreamRuns(c)
<1>1. Running = {}  BY RunningFinite, FS_EmptySet
<1> QED  BY <1>1 DEF Running

-----------------------------------------------------------------------------
(* The invariant.                                                          *)

LEMMA InitIInv == Init => IInv
<1> SUFFICES ASSUME Init PROVE IInv  OBVIOUS
<1>1. TypeOK
  <2>1. ended \in [how : {"none", "clean", "fatal", "panic", "killed"}, signalled : BOOLEAN]
    BY DEF Init
  <2>2. 0 \in 0 .. MaxStarts /\ 0 \in 0 .. MaxFaults  BY ConstantsAssumption
  <2> QED  BY <2>1, <2>2 DEF Init, TypeOK, MainPhases
<1>2. Running = {}  BY DEF Init, Running, StreamRuns
<1>3. Cardinality(Running) = 0  BY <1>2, FS_EmptySet
<1>4. WaitGroupCounts
  BY <1>3 DEF Init, WaitGroupCounts, Weight, HttpRuns, StarterRuns, FocilRuns
<1>5. PhaseInv /\ DataInv  BY DEF Init, PhaseInv, DataInv, Early
<1> QED  BY <1>1, <1>4, <1>5 DEF IInv

(* The end of the process puts everything back to where it was before.     *)
LEMMA DieKeepsIInv ==
  ASSUME IInv, NEW how \in {"clean", "fatal", "panic", "killed"}, Die(how),
         faults' \in 0 .. MaxFaults
  PROVE  IInv'
<1>1. TypeOK'  BY DEF IInv, TypeOK, Die, MainPhases
<1>2. Running' = {}  BY DEF Die, Running, StreamRuns
<1>3. Cardinality(Running)' = 0  BY <1>2, FS_EmptySet
<1>4. WaitGroupCounts'
  BY <1>3 DEF Die, WaitGroupCounts, Weight, HttpRuns, StarterRuns, FocilRuns
<1>5. PhaseInv' /\ DataInv'  BY DEF IInv, Die, PhaseInv, DataInv, Early
<1> QED  BY <1>1, <1>4, <1>5 DEF IInv

(* The budget of faults stays in its bounds.                               *)
LEMMA FaultType ==
  ASSUME faults \in 0 .. MaxFaults
  PROVE  /\ Fault => faults' \in 0 .. MaxFaults
         /\ UNCHANGED faults => faults' \in 0 .. MaxFaults
BY ConstantsAssumption DEF Fault

(* Every step keeps the invariant: one step of the proof per action.       *)
LEMMA IInvStep == IInv /\ [Next]_vars => IInv'
<1> SUFFICES ASSUME IInv, [Next]_vars PROVE IInv'  OBVIOUS
<1> USE DEF IInv
<1>card. Cardinality(Running) \in Nat  BY RunningFinite
<1>flt. /\ Fault => faults' \in 0 .. MaxFaults
        /\ UNCHANGED faults => faults' \in 0 .. MaxFaults
  BY FaultType DEF TypeOK
<1>same. ASSUME UNCHANGED stream PROVE Cardinality(Running)' = Cardinality(Running)
  <2>1. Running' = Running  BY <1>same DEF Running, StreamRuns
  <2> QED  BY <2>1
<1>1. CASE Start
  <2>1. TypeOK'  BY <1>1, ConstantsAssumption DEF Start, TypeOK, routines, MainPhases
  <2>2. WaitGroupCounts'
    BY <1>1, <1>same DEF Start, routines, WaitGroupCounts, HttpRuns, StarterRuns, FocilRuns
  <2>3. PhaseInv' /\ DataInv'
    BY <1>1 DEF Start, routines, TypeOK, PhaseInv, DataInv, Early
  <2> QED  BY <2>1, <2>2, <2>3
<1>2. CASE Load \/ Initialize
  <2>1. TypeOK'  BY <1>2, <1>flt DEF Load, Initialize, Flush, TypeOK, routines, MainPhases
  <2>2. WaitGroupCounts'
    BY <1>2, <1>same DEF Load, Initialize, routines, WaitGroupCounts, HttpRuns, StarterRuns, FocilRuns
  <2>3. PhaseInv' /\ DataInv'
    BY <1>2 DEF Load, Initialize, Flush, routines, TypeOK, PhaseInv, DataInv, Early
  <2> QED  BY <2>1, <2>2, <2>3
<1>3. CASE Serve
  <2>1. TypeOK'  BY <1>3 DEF Serve, TypeOK, MainPhases
  <2>2. WaitGroupCounts'
    BY <1>3, <1>same DEF Serve, WaitGroupCounts, HttpRuns, StarterRuns, FocilRuns
  <2>3. PhaseInv' /\ DataInv'  BY <1>3 DEF Serve, TypeOK, PhaseInv, DataInv, Early
  <2> QED  BY <2>1, <2>2, <2>3
<1>4. CASE StartHttp
  <2>1. TypeOK'  BY <1>4 DEF StartHttp, TypeOK, MainPhases
  <2>2. WaitGroupCounts'
    BY <1>4, <1>same, <1>card
    DEF StartHttp, TypeOK, PhaseInv, Early, WaitGroupCounts, Weight, HttpRuns, StarterRuns, FocilRuns
  <2>3. PhaseInv' /\ DataInv'  BY <1>4 DEF StartHttp, TypeOK, PhaseInv, DataInv, Early
  <2> QED  BY <2>1, <2>2, <2>3
<1>5. CASE StartStreams
  <2>1. TypeOK'  BY <1>5 DEF StartStreams, TypeOK, MainPhases
  <2>2. WaitGroupCounts'
    BY <1>5, <1>same, <1>card
    DEF StartStreams, TypeOK, PhaseInv, Early, WaitGroupCounts, Weight, HttpRuns, StarterRuns, FocilRuns
  <2>3. PhaseInv' /\ DataInv'  BY <1>5 DEF StartStreams, TypeOK, PhaseInv, DataInv, Early
  <2> QED  BY <2>1, <2>2, <2>3
<1>6. CASE StartFocil
  <2>1. TypeOK'  BY <1>6, ConstantsAssumption DEF StartFocil, TypeOK, MainPhases
  <2>2. WaitGroupCounts'
    BY <1>6, <1>same, <1>card, ConstantsAssumption
    DEF StartFocil, TypeOK, PhaseInv, Early, WaitGroupCounts, Weight, HttpRuns, StarterRuns, FocilRuns
  <2>3. PhaseInv' /\ DataInv'  BY <1>6 DEF StartFocil, TypeOK, PhaseInv, DataInv, Early
  <2> QED  BY <2>1, <2>2, <2>3
<1>7. CASE BeginShutdown \/ EndShutdown \/ Wait
  <2>1. TypeOK'  BY <1>7 DEF BeginShutdown, EndShutdown, Wait, TypeOK, routines, MainPhases
  <2>2. WaitGroupCounts'
    BY <1>7, <1>same
    DEF BeginShutdown, EndShutdown, Wait, routines, WaitGroupCounts, HttpRuns, StarterRuns, FocilRuns
  <2>3. PhaseInv' /\ DataInv'
    BY <1>7 DEF BeginShutdown, EndShutdown, Wait, routines, TypeOK, PhaseInv, DataInv, Early
  <2> QED  BY <2>1, <2>2, <2>3
<1>8. CASE Exit
  BY <1>8, <1>flt, DieKeepsIInv DEF Exit
<1>9. CASE LoadFails
  BY <1>9, <1>flt, DieKeepsIInv DEF LoadFails
<1>10. CASE Crash
  BY <1>10, <1>flt, DieKeepsIInv DEF Crash
<1>11. CASE Register \/ Cancel
  <2>1. TypeOK'  BY <1>11 DEF Register, Cancel, TypeOK, MainPhases
  <2>2. WaitGroupCounts'
    BY <1>11, <1>same DEF Register, Cancel, WaitGroupCounts, HttpRuns, StarterRuns, FocilRuns
  <2>3. PhaseInv' /\ DataInv'
    BY <1>11 DEF Register, Cancel, TypeOK, PhaseInv, DataInv, Early
  <2> QED  BY <2>1, <2>2, <2>3
<1>12. CASE Signal
  <2>1. CASE handler = "waiting"
    <3>1. TypeOK'  BY <1>12, <2>1 DEF Signal, TypeOK
    <3>2. WaitGroupCounts'
      BY <1>12, <2>1, <1>same DEF Signal, WaitGroupCounts, HttpRuns, StarterRuns, FocilRuns
    <3>3. PhaseInv' /\ DataInv'
      BY <1>12, <2>1 DEF Signal, PhaseInv, DataInv
    <3> QED  BY <3>1, <3>2, <3>3
  <2>2. CASE handler # "waiting"
    BY <1>12, <2>2, <1>flt, DieKeepsIInv DEF Signal
  <2> QED  BY <2>1, <2>2
<1>13. CASE Listen
  <2>1. TypeOK'  BY <1>13 DEF Listen, TypeOK, MainPhases
  <2>2. WaitGroupCounts'
    BY <1>13, <1>same DEF Listen, WaitGroupCounts, HttpRuns, StarterRuns, FocilRuns
  <2>3. PhaseInv' /\ DataInv'  BY <1>13 DEF Listen, TypeOK, PhaseInv, DataInv, Early
  <2> QED  BY <2>1, <2>2, <2>3
<1>14. ASSUME HttpRuns, http' = "ended", wg' = wg - 1, faults' \in 0 .. MaxFaults,
              UNCHANGED <<main, handler, cancelled, requests, starter, stream, loop,
                          focil, start, redis, ended>>
       PROVE  IInv'
  <2>1. wg > 0
    BY <1>14, <1>card DEF WaitGroupCounts, Weight, HttpRuns, StarterRuns, FocilRuns
  <2>2. wg' \in Nat  BY <1>14, <2>1 DEF TypeOK
  <2>3. TypeOK'  BY <1>14, <2>2 DEF TypeOK
  <2>4. WaitGroupCounts'
    BY <1>14, <1>same, <1>card
    DEF TypeOK, WaitGroupCounts, Weight, HttpRuns, StarterRuns, FocilRuns
  <2>5. main \notin Early  BY <1>14 DEF HttpRuns, PhaseInv
  <2>6. main # "stopped"  BY <2>1 DEF PhaseInv
  <2>7. PhaseInv'  BY <1>14, <2>5, <2>6 DEF PhaseInv, Early
  <2>8. DataInv'  BY <1>14 DEF DataInv
  <2> QED  BY <2>3, <2>4, <2>7, <2>8
<1>27. CASE ListenFails \/ ServerClosed
  <2>1. CASE ListenFails  BY <1>14, <1>flt, <2>1 DEF ListenFails, HttpRuns
  <2>2. CASE ServerClosed  BY <1>14, <1>flt, <2>2 DEF ServerClosed, HttpRuns
  <2> QED  BY <1>27, <2>1, <2>2
<1>15. ASSUME NEW q \in Requests, Request(q) \/ Respond(q) PROVE IInv'
  <2>1. requests' \in SUBSET Requests  BY <1>15 DEF Request, Respond, TypeOK
  <2>2. UNCHANGED <<main, handler, cancelled, wg, http, starter, stream, loop,
                    focil, start, redis, ended, faults>>
    BY <1>15 DEF Request, Respond
  <2>3. TypeOK'  BY <2>1, <2>2 DEF TypeOK
  <2>4. WaitGroupCounts'
    BY <2>2, <1>same DEF WaitGroupCounts, HttpRuns, StarterRuns, FocilRuns
  <2>5. requests' # {} => main \notin Early /\ main \notin {"waiting", "stopped"}
    BY <1>15 DEF Request, Respond, Closing, PhaseInv
  <2>6. PhaseInv'  BY <2>2, <2>5 DEF PhaseInv
  <2>7. DataInv'  BY <2>2 DEF DataInv
  <2> QED  BY <2>3, <2>4, <2>6, <2>7
<1>16. CASE StartLoops
  <2>1. TypeOK'  BY <1>16 DEF StartLoops, TypeOK, MainPhases
  <2>2. WaitGroupCounts'
    BY <1>16, <1>same, <1>card DEF StartLoops, TypeOK, WaitGroupCounts, Weight, HttpRuns, StarterRuns, FocilRuns
  <2>3. PhaseInv' /\ DataInv'  BY <1>16 DEF StartLoops, TypeOK, PhaseInv, DataInv, Early
  <2> QED  BY <2>1, <2>2, <2>3
<1>17. ASSUME NEW c \in Clients, StartStream(c) PROVE IInv'
  <2>1. TypeOK'  BY <1>17 DEF StartStream, TypeOK, MainPhases
  <2>2. Cardinality(Running)' = Cardinality(Running) + 1
    <3>1. ~StreamRuns(c)  BY <1>17 DEF StartStream, StreamRuns
    <3> QED  BY <1>17, <3>1, OneMoreRuns DEF StartStream, TypeOK
  <2>3. WaitGroupCounts'
    BY <1>17, <2>2, <1>card
    DEF StartStream, TypeOK, WaitGroupCounts, Weight, HttpRuns, StarterRuns, FocilRuns
  <2>4. wg > 0
    BY <1>17, <1>card DEF StartStream, WaitGroupCounts, Weight, StarterRuns
  <2>5. PhaseInv' /\ DataInv'
    BY <1>17, <2>4 DEF StartStream, TypeOK, PhaseInv, DataInv, Early
  <2> QED  BY <2>1, <2>3, <2>5
<1>18. CASE StarterEnds
  <2>1. wg > 0
    BY <1>18, <1>card DEF StarterEnds, WaitGroupCounts, Weight, StarterRuns
  <2>2. TypeOK'  BY <1>18, <2>1 DEF StarterEnds, TypeOK, MainPhases
  <2>3. WaitGroupCounts'
    BY <1>18, <1>same, <1>card
    DEF StarterEnds, TypeOK, WaitGroupCounts, Weight, HttpRuns, StarterRuns, FocilRuns
  <2>4. PhaseInv' /\ DataInv'
    BY <1>18, <2>1 DEF StarterEnds, TypeOK, PhaseInv, DataInv, Early
  <2> QED  BY <2>2, <2>3, <2>4
<1>19. CASE FocilEnds
  <2>1. wg > 0
    BY <1>19, <1>card DEF FocilEnds, WaitGroupCounts, Weight, FocilRuns
  <2>2. TypeOK'  BY <1>19, <2>1 DEF FocilEnds, TypeOK, MainPhases
  <2>3. WaitGroupCounts'
    BY <1>19, <1>same, <1>card
    DEF FocilEnds, TypeOK, WaitGroupCounts, Weight, HttpRuns, StarterRuns, FocilRuns
  <2>4. PhaseInv' /\ DataInv'
    BY <1>19, <2>1 DEF FocilEnds, TypeOK, PhaseInv, DataInv, Early
  <2> QED  BY <2>2, <2>3, <2>4
<1>20. ASSUME NEW c \in Clients, DialFails(c) PROVE IInv'
  BY <1>20, <1>flt, DieKeepsIInv DEF DialFails
<1>21. ASSUME NEW c \in Clients, StreamEnds(c), StreamRuns(c), faults' \in 0 .. MaxFaults
       PROVE IInv'
  <2>1. /\ Cardinality(Running)' = Cardinality(Running) - 1
        /\ Cardinality(Running) > 0
    BY <1>21, OneLessRuns DEF StreamEnds, TypeOK
  <2>2. wg > 0
    BY <2>1, <1>card DEF WaitGroupCounts, Weight, HttpRuns, StarterRuns, FocilRuns
  <2>3. TypeOK'  BY <1>21, <2>2 DEF StreamEnds, TypeOK, MainPhases
  <2>4. WaitGroupCounts'
    BY <1>21, <2>1, <1>card
    DEF StreamEnds, TypeOK, WaitGroupCounts, Weight, HttpRuns, StarterRuns, FocilRuns
  <2>5. PhaseInv' /\ DataInv'
    BY <1>21, <2>2 DEF StreamEnds, StreamRuns, TypeOK, PhaseInv, DataInv, Early
  <2> QED  BY <2>3, <2>4, <2>5
<1>22. ASSUME NEW c \in Clients, ReadFails(c) PROVE IInv'
  BY <1>22, <1>flt, <1>21 DEF ReadFails, StreamRuns
<1>23. ASSUME NEW c \in Clients, NEW s \in {"top", "read"}, StreamRuns(c),
              stream' = [stream EXCEPT ![c] = s],
              redis' \in {redis, redis \cup {start}},
              UNCHANGED <<main, handler, cancelled, wg, http, requests, starter,
                          loop, focil, start, ended, faults>>
       PROVE  IInv'
  <2>1. starter \notin {"none", "loops"}
    BY <1>23 DEF StreamRuns, PhaseInv
  <2>2. main \notin Early  BY <2>1 DEF PhaseInv
  <2>3. start \in 1 .. MaxStarts  BY <2>2 DEF TypeOK, DataInv, Early
  <2>4. TypeOK'  BY <1>23, <2>3 DEF TypeOK
  <2>5. Running' = Running  BY <1>23 DEF Running, StreamRuns, TypeOK
  <2>6. WaitGroupCounts'
    BY <1>23, <2>5 DEF WaitGroupCounts, HttpRuns, StarterRuns, FocilRuns
  <2>7. PhaseInv'  BY <1>23, <2>1 DEF PhaseInv
  <2>8. DataInv'  BY <1>23, <2>2 DEF TypeOK, DataInv, Early
  <2> QED  BY <2>4, <2>6, <2>7, <2>8
<1>24. ASSUME NEW c \in Clients, Dial(c) \/ Top(c) \/ Message(c) PROVE IInv'
  <2>1. CASE Dial(c)  BY <1>23, <2>1 DEF Dial, StreamRuns
  <2>2. CASE Top(c)
    <3>1. CASE cancelled  BY <1>21, <1>flt, <2>2, <3>1 DEF Top, StreamRuns
    <3>2. CASE ~cancelled  BY <1>23, <2>2, <3>2 DEF Top, StreamRuns
    <3> QED  BY <3>1, <3>2
  <2>3. CASE Message(c)
    <3>1. redis' \in {redis, redis \cup {start}}  BY <2>3 DEF Message
    <3> QED  BY <1>23, <2>3, <3>1 DEF Message, StreamRuns
  <2> QED  BY <1>24, <2>1, <2>2, <2>3
<1>25. ASSUME NEW c \in Clients, LoopEnds(c) PROVE IInv'
  <2>1. TypeOK'  BY <1>25 DEF LoopEnds, TypeOK, MainPhases
  <2>2. WaitGroupCounts'
    BY <1>25, <1>same DEF LoopEnds, WaitGroupCounts, HttpRuns, StarterRuns, FocilRuns
  <2>3. PhaseInv' /\ DataInv'  BY <1>25 DEF LoopEnds, TypeOK, PhaseInv, DataInv, Early
  <2> QED  BY <2>1, <2>2, <2>3
<1>26. CASE UNCHANGED vars
  <2>1. TypeOK'  BY <1>26 DEF vars, TypeOK, MainPhases
  <2>2. WaitGroupCounts'
    BY <1>26, <1>same DEF vars, WaitGroupCounts, HttpRuns, StarterRuns, FocilRuns
  <2>3. PhaseInv' /\ DataInv'  BY <1>26 DEF vars, PhaseInv, DataInv, Early
  <2> QED  BY <2>1, <2>2, <2>3
<1> QED
  BY <1>1, <1>2, <1>3, <1>4, <1>5, <1>6, <1>7, <1>8, <1>9, <1>10, <1>11, <1>12,
     <1>13, <1>27, <1>15, <1>16, <1>17, <1>18, <1>19, <1>20, <1>22, <1>24, <1>25, <1>26
  DEF Next, MainStep, HandlerStep, HttpStep, StarterStep

-----------------------------------------------------------------------------
(* The theorems.                                                           *)

(* IInv is an invariant of the process.                                    *)
THEOREM Inductive == Spec => []IInv
BY InitIInv, IInvStep, PTL DEF Spec

(* When Serve logs "All services shut down cleanly" (controller.go:99),    *)
(* everything it has counted has ended.                                    *)
THEOREM CountedGoroutinesEnd == Spec => []CountedHaveEnded
<1>1. IInv => CountedHaveEnded
  <2> SUFFICES ASSUME IInv, main = "stopped"
               PROVE  /\ ~HttpRuns /\ ~StarterRuns /\ ~FocilRuns
                      /\ \A c \in Clients : ~StreamRuns(c)
                      /\ requests = {}
    BY DEF CountedHaveEnded
  <2>1. wg = 0 /\ requests = {}  BY DEF IInv, PhaseInv
  <2>2. /\ Cardinality(Running) \in Nat
        /\ wg = Weight(HttpRuns) + Weight(StarterRuns) + Weight(FocilRuns) + Cardinality(Running)
    BY RunningFinite DEF IInv, WaitGroupCounts
  <2>3. /\ ~HttpRuns /\ ~StarterRuns /\ ~FocilRuns
        /\ Cardinality(Running) = 0
    BY <2>1, <2>2 DEF Weight, HttpRuns, StarterRuns, FocilRuns
  <2> QED  BY <2>1, <2>3, NoneRuns
<1> QED  BY <1>1, Inductive, PTL

(* wg.Wait (controller.go:98) returns, or somebody it waits for is running *)
(* with a cancelled context: no path loses or doubles a wg.Done.           *)
THEOREM NobodyIsMissed == Spec => []WaitIsForSomebody
<1>1. IInv => WaitIsForSomebody
  <2> SUFFICES ASSUME IInv, main = "waiting"
               PROVE  /\ cancelled
                      /\ wg > 0 => \/ HttpRuns \/ StarterRuns \/ FocilRuns
                                   \/ \E c \in Clients : StreamRuns(c)
    BY DEF WaitIsForSomebody
  <2>1. cancelled  BY DEF IInv, PhaseInv
  <2>2. wg = Weight(HttpRuns) + Weight(StarterRuns) + Weight(FocilRuns) + Cardinality(Running)
    BY DEF IInv, WaitGroupCounts
  <2>3. CASE Cardinality(Running) # 0
    BY <2>1, <2>3, SomeRuns
  <2>4. CASE Cardinality(Running) = 0
    BY <2>1, <2>2, <2>4 DEF Weight, HttpRuns, StarterRuns, FocilRuns
  <2> QED  BY <2>3, <2>4
<1> QED  BY <1>1, Inductive, PTL

(* The two FLUSHALLs of a process (service.go:36) never remove what the    *)
(* same process has stored.                                                *)
THEOREM OwnDataSurvives == Spec => FlushSparesOwnData
<1>1. IInv /\ [Next]_vars => [(start \in redis) => (start \in redis')]_vars
  <2> SUFFICES ASSUME IInv, Next, start \in redis PROVE start \in redis'
    OBVIOUS
  <2>1. main \notin {"load", "init"}  BY DEF IInv, DataInv
  <2>2. ASSUME NEW how, Die(how) PROVE redis' = redis  BY <2>2 DEF Die
  <2>3. CASE UNCHANGED redis  BY <2>3
  <2>4. ASSUME NEW c \in Clients, Message(c) PROVE start \in redis'
    BY <2>4 DEF Message
  <2>5. CASE LoadFails \/ Crash \/ Exit  BY <2>2, <2>5 DEF LoadFails, Crash, Exit
  <2>6. CASE Signal  BY <2>2, <2>6 DEF Signal
  <2>7. ASSUME NEW c \in Clients, DialFails(c) PROVE start \in redis'
    BY <2>2, <2>7 DEF DialFails
  <2> QED
    BY <2>1, <2>3, <2>4, <2>5, <2>6, <2>7
    DEF Next, Start, MainStep, Load, Serve, Initialize, StartHttp, StartStreams, StartFocil,
        BeginShutdown, EndShutdown, Wait, HandlerStep, Register, Cancel, HttpStep, Listen,
        ServerClosed, ListenFails, Request, Respond, StarterStep, StartLoops, StartStream,
        StarterEnds, FocilEnds, Dial, Top, StreamEnds, ReadFails, LoopEnds
<1> QED  BY <1>1, Inductive, PTL DEF Spec, FlushSparesOwnData

=============================================================================
