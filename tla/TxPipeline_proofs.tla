-------------------------- MODULE TxPipeline_proofs --------------------------
(***************************************************************************)
(* Proofs about TxPipeline, for any number of clients, hashes and          *)
(* goroutines and any bounds.  IInv is shown to be inductive, one step per *)
(* action, and each invariant follows from it.                             *)
(***************************************************************************)
EXTENDS TxPipeline, TLAPS

USE ConstantsAssumption

-----------------------------------------------------------------------------
(* Queues.                                                                 *)

\* RPUSH adds its element to those of the list.
LEMMA ToSetAppend ==
  ASSUME NEW S, NEW s \in Seq(S), NEW e \in S
  PROVE  ToSet(Append(s, e)) = ToSet(s) \cup {e}
<1> DEFINE t == Append(s, e)
<1>1. /\ Len(s) \in Nat
      /\ DOMAIN s = 1 .. Len(s)
      /\ DOMAIN t = 1 .. Len(s) + 1
      /\ \A i \in 1 .. Len(s) : t[i] = s[i]
      /\ t[Len(s) + 1] = e
  OBVIOUS
<1>2. ToSet(t) \subseteq ToSet(s) \cup {e}
  BY <1>1 DEF ToSet
<1>3. ToSet(s) \cup {e} \subseteq ToSet(t)
  BY <1>1 DEF ToSet
<1> QED
  BY <1>2, <1>3

\* LPOP splits a list into its head and the rest.
LEMMA ToSetPop ==
  ASSUME NEW S, NEW s \in Seq(S), s # <<>>
  PROVE  /\ Head(s) \in S
         /\ Tail(s) \in Seq(S)
         /\ ToSet(s) = {Head(s)} \cup ToSet(Tail(s))
<1>1. Head(s) \in S /\ Tail(s) \in Seq(S) /\ Len(s) \in Nat \ {0}
  OBVIOUS
<1>2. /\ Len(Tail(s)) = Len(s) - 1
      /\ \A i \in 1 .. Len(s) - 1 : Tail(s)[i] = s[i + 1]
      /\ Head(s) = s[1]
  OBVIOUS
<1>3. ToSet(s) \subseteq {Head(s)} \cup ToSet(Tail(s))
  <2> SUFFICES ASSUME NEW i \in 1 .. Len(s), i # 1
               PROVE  s[i] \in ToSet(Tail(s))
    BY <1>2 DEF ToSet
  <2>1. i - 1 \in DOMAIN Tail(s) /\ Tail(s)[i - 1] = s[i]
    BY <1>1, <1>2
  <2> QED
    BY <2>1 DEF ToSet
<1>4. {Head(s)} \cup ToSet(Tail(s)) \subseteq ToSet(s)
  BY <1>1, <1>2 DEF ToSet
<1> QED
  BY <1>1, <1>3, <1>4

-----------------------------------------------------------------------------
(* Goroutines.  A step of a goroutine replaces one slot.                   *)

LEMMA SlotStep ==
  ASSUME TypeOK, NEW c \in Clients, NEW w \in Workers, NEW s \in Slot, Become(c, w, s)
  PROVE  /\ worker' \in [Clients -> [Workers -> Slot]]
         /\ worker'[c][w] = s
         /\ \A d \in Clients, v \in Workers :
              (d # c \/ v # w) => worker'[d][v] = worker[d][v]
BY DEF TypeOK, Become

\* The slots the operators of the module build are slots.
LEMMA SlotTypes ==
  ASSUME NEW s \in Slot
  PROVE  /\ Idle \in Slot
         /\ NoRecord \in Record
         /\ \A p \in Phases : [s EXCEPT !.phase = p] \in Slot
         /\ \A v \in Verdicts : [s EXCEPT !.phase = "load", !.verdict = v] \in Slot
         /\ \A b \in Record : [s EXCEPT !.phase = "save", !.buf = b] \in Slot
         /\ \A h \in Hashes : [Idle EXCEPT !.phase = "receipt", !.hash = h] \in Slot
<1> USE DEF Slot, Phases, RpcPhases, Verdicts, Terminal
<1>1. NoRecord \in Record
  BY DEF NoRecord, Record, NoTime, Open
<1>2. Idle \in Slot
  BY <1>1 DEF Idle
<1>3. \A h \in Hashes : [Idle EXCEPT !.phase = "receipt", !.hash = h] \in Slot
  BY <1>1 DEF Idle
<1> QED
  BY <1>1, <1>2, <1>3

\* What has been given up on stays in lost.
LossesKept ==
  \A d \in Clients : /\ lost[d]["entry"] \subseteq lost'[d]["entry"]
                     /\ lost[d]["record"] \subseteq lost'[d]["record"]
                     /\ lost[d]["listing"] \subseteq lost'[d]["listing"]
                     /\ lost[d]["index"] \subseteq lost'[d]["index"]

\* What a goroutine's step may not do: take up another hash, or let go of
\* one that is still open or not indexed without a trace.
GoodSlot(c, w, s) ==
  LET old == worker[c][w] IN
    /\ SlotInv(c, s)
    /\ s.phase # "idle" => s.hash = old.hash /\ old.phase # "idle"
    /\ \/ s.phase \notin {"idle", "index"}
       \/ old.phase = "index" /\ old.verdict \in Terminal
       \/ recs[c][old.hash].status \notin Open
       \/ old.hash \in lost'[c]["entry"]
    /\ \/ old.phase # "index"
       \/ ~old.buf.tx
       \/ old.hash \in gasIndex'[c] \cup lost'[c]["index"]

\* Most steps of a goroutine replace its slot by a good one and write to
\* nothing but the indexes; they keep every part of IInv.
LEMMA SlotKeepsIInv ==
  ASSUME IInv, NEW c \in Clients, NEW w \in Workers, NEW s \in Slot, Become(c, w, s),
         UNCHANGED <<broker, universal, queue, held, recs>>,
         LossesKept, \A d \in Clients : gasIndex[d] \subseteq gasIndex'[d],
         GoodSlot(c, w, s), TypeOK'
  PROVE  IInv'
<1>1. /\ worker'[c][w] = s
      /\ \A d \in Clients, v \in Workers :
           (d # c \/ v # w) => worker'[d][v] = worker[d][v]
  BY SlotStep DEF IInv
<1>2. BrokerInv'
  BY DEF IInv, TypeOK, BrokerInv, Listed, Holds, LossesKept
<1>3. WorkerInv'
  BY <1>1 DEF IInv, WorkerInv, SlotInv, GoodSlot
<1>4. TrackedInv'
  BY <1>1 DEF IInv, LossesKept, TrackedInv, WillRequeue, WorkerHas, BrokerHas, At, GoodSlot
<1>5. GasIndexInv'
  BY <1>1 DEF IInv, LossesKept, GasIndexInv, WorkerHas, At, GoodSlot
<1>6. RecordBeforePolling'
  BY <1>1 DEF IInv, LossesKept, RecordBeforePolling, Polled, WorkerHas, GoodSlot
<1>7. RecordsAreListed'
  BY DEF IInv, LossesKept, RecordsAreListed
<1> QED
  BY <1>2, <1>3, <1>4, <1>5, <1>6, <1>7 DEF IInv

\* Giving up on something is remembered, and nothing is forgotten by it.
LEMMA LoseGrows ==
  ASSUME TypeOK, NEW c \in Clients, NEW kind \in LossKinds, NEW h \in Hashes,
         Lose(c, kind, h)
  PROVE  /\ lost' \in [Clients -> [LossKinds -> SUBSET Hashes]]
         /\ h \in lost'[c][kind]
         /\ LossesKept
BY DEF TypeOK, Lose, LossKinds, LossesKept

\* A goroutine that is not idle works on a hash, in a slot that satisfies
\* its part of WorkerInv.
LEMMA BusySlot ==
  ASSUME IInv, NEW c \in Clients, NEW w \in Workers, worker[c][w].phase # "idle"
  PROVE  /\ TypeOK
         /\ worker[c][w] \in Slot
         /\ worker[c][w].hash \in Hashes
         /\ SlotInv(c, worker[c][w])
BY DEF IInv, TypeOK, WorkerInv, SlotInv

\* Only a mined transaction has a receipt.
LEMMA AskReceiptStep ==
  ASSUME IInv, NEW c \in Clients, NEW w \in Workers, AskReceipt(c, w)
  PROVE  IInv'
<1> DEFINE old == worker[c][w]
           s == [old EXCEPT !.phase = IF node[c][old.hash] = "mined" THEN "fetch" ELSE "lookup"]
<1> USE DEF At, nodeVars
<1>1. TypeOK /\ old \in Slot /\ old.hash \in Hashes /\ SlotInv(c, old)
  BY BusySlot DEF AskReceipt
<1>2. s \in Slot /\ Become(c, w, s)
  BY <1>1, SlotTypes DEF AskReceipt, Goto, Phases, RpcPhases, Verdicts, Terminal
<1>3. worker' \in [Clients -> [Workers -> Slot]]
  BY <1>1, <1>2, SlotStep
<1>5. GoodSlot(c, w, s)
  BY <1>1 DEF AskReceipt, GoodSlot, SlotInv, Slot, Record, Phases, RpcPhases, Verdicts, Terminal, Open, Idle, TypeOK
<1>6. TypeOK'
  BY <1>1, <1>3 DEF AskReceipt, TypeOK
<1> HIDE DEF s
<1> QED
  BY <1>1, <1>2, <1>5, <1>6, SlotKeepsIInv DEF AskReceipt, TypeOK, LossesKept

\* The early return goes straight to the requeueing.
LEMMA ReceiptNotIndexedStep ==
  ASSUME IInv, NEW c \in Clients, NEW w \in Workers, ReceiptNotIndexed(c, w)
  PROVE  IInv'
<1> DEFINE old == worker[c][w]
           s == [old EXCEPT !.phase = "requeue"]
<1> USE DEF At, nodeVars
<1>1. TypeOK /\ old \in Slot /\ old.hash \in Hashes /\ SlotInv(c, old)
  BY BusySlot DEF ReceiptNotIndexed
<1>2. s \in Slot /\ Become(c, w, s)
  BY <1>1, SlotTypes DEF ReceiptNotIndexed, Goto, Phases, RpcPhases, Verdicts, Terminal
<1>3. worker' \in [Clients -> [Workers -> Slot]]
  BY <1>1, <1>2, SlotStep
<1>5. GoodSlot(c, w, s)
  BY <1>1 DEF ReceiptNotIndexed, GoodSlot, SlotInv, Slot, Record, Phases, RpcPhases, Verdicts, Terminal, Open, Idle, TypeOK
<1>6. TypeOK'
  BY <1>1, <1>3 DEF ReceiptNotIndexed, TypeOK, Fault
<1> HIDE DEF s
<1> QED
  BY <1>1, <1>2, <1>5, <1>6, SlotKeepsIInv DEF ReceiptNotIndexed, TypeOK, LossesKept

\* A failing receipt RPC counts as the absence of a receipt.
LEMMA ReceiptFailsStep ==
  ASSUME IInv, NEW c \in Clients, NEW w \in Workers, ReceiptFails(c, w)
  PROVE  IInv'
<1> DEFINE old == worker[c][w]
           s == [old EXCEPT !.phase = "lookup"]
<1> USE DEF At, nodeVars
<1>1. TypeOK /\ old \in Slot /\ old.hash \in Hashes /\ SlotInv(c, old)
  BY BusySlot DEF ReceiptFails
<1>2. s \in Slot /\ Become(c, w, s)
  BY <1>1, SlotTypes DEF ReceiptFails, Goto, Phases, RpcPhases, Verdicts, Terminal
<1>3. worker' \in [Clients -> [Workers -> Slot]]
  BY <1>1, <1>2, SlotStep
<1>5. GoodSlot(c, w, s)
  BY <1>1 DEF ReceiptFails, GoodSlot, SlotInv, Slot, Record, Phases, RpcPhases, Verdicts, Terminal, Open, Idle, TypeOK
<1>6. TypeOK'
  BY <1>1, <1>3 DEF ReceiptFails, TypeOK, Fault
<1> HIDE DEF s
<1> QED
  BY <1>1, <1>2, <1>5, <1>6, SlotKeepsIInv DEF ReceiptFails, TypeOK, LossesKept

\* The verdict "mined" is given only after a receipt.
LEMMA FetchMinedStep ==
  ASSUME IInv, NEW c \in Clients, NEW w \in Workers, FetchMined(c, w)
  PROVE  IInv'
<1> DEFINE old == worker[c][w]
           s == [old EXCEPT !.phase = "load", !.verdict = "mined"]
<1> USE DEF At, nodeVars
<1>1. TypeOK /\ old \in Slot /\ old.hash \in Hashes /\ SlotInv(c, old)
  BY BusySlot DEF FetchMined
<1>2. s \in Slot /\ Become(c, w, s)
  BY <1>1, SlotTypes DEF FetchMined, Decide, Phases, RpcPhases, Verdicts, Terminal
<1>3. worker' \in [Clients -> [Workers -> Slot]]
  BY <1>1, <1>2, SlotStep
<1>5. GoodSlot(c, w, s)
  BY <1>1 DEF FetchMined, GoodSlot, SlotInv, Slot, Record, Phases, RpcPhases, Verdicts, Terminal, Open, Idle, TypeOK
<1>6. TypeOK'
  BY <1>1, <1>3 DEF FetchMined, TypeOK
<1> HIDE DEF s
<1> QED
  BY <1>1, <1>2, <1>5, <1>6, SlotKeepsIInv DEF FetchMined, TypeOK, LossesKept

\* The entry that is given up on is in lost.
LEMMA FetchFailsStep ==
  ASSUME IInv, NEW c \in Clients, NEW w \in Workers, FetchFails(c, w)
  PROVE  IInv'
<1> DEFINE old == worker[c][w]
           s == Idle
<1> USE DEF At, nodeVars
<1>1. TypeOK /\ old \in Slot /\ old.hash \in Hashes /\ SlotInv(c, old)
  BY BusySlot DEF FetchFails
<1>2. s \in Slot /\ Become(c, w, s)
  BY <1>1, SlotTypes DEF FetchFails, Finish, Phases, RpcPhases, Verdicts, Terminal
<1>3. worker' \in [Clients -> [Workers -> Slot]]
  BY <1>1, <1>2, SlotStep
<1>4. /\ lost' \in [Clients -> [LossKinds -> SUBSET Hashes]]
      /\ old.hash \in lost'[c]["entry"]
      /\ LossesKept
  BY <1>1, LoseGrows DEF FetchFails, LossKinds
<1>5. GoodSlot(c, w, s)
  BY <1>1, <1>4 DEF FetchFails, GoodSlot, SlotInv, Slot, Record, Phases, RpcPhases, Verdicts, Terminal, Open, Idle, TypeOK
<1>6. TypeOK'
  BY <1>1, <1>3, <1>4 DEF FetchFails, TypeOK, Fault
<1> HIDE DEF s
<1> QED
  BY <1>1, <1>2, <1>4, <1>5, <1>6, SlotKeepsIInv DEF FetchFails, TypeOK, LossesKept

\* The same when the block has gone.
LEMMA FetchGoneStep ==
  ASSUME IInv, NEW c \in Clients, NEW w \in Workers, FetchGone(c, w)
  PROVE  IInv'
<1> DEFINE old == worker[c][w]
           s == Idle
<1> USE DEF At, nodeVars
<1>1. TypeOK /\ old \in Slot /\ old.hash \in Hashes /\ SlotInv(c, old)
  BY BusySlot DEF FetchGone
<1>2. s \in Slot /\ Become(c, w, s)
  BY <1>1, SlotTypes DEF FetchGone, Finish, Phases, RpcPhases, Verdicts, Terminal
<1>3. worker' \in [Clients -> [Workers -> Slot]]
  BY <1>1, <1>2, SlotStep
<1>4. /\ lost' \in [Clients -> [LossKinds -> SUBSET Hashes]]
      /\ old.hash \in lost'[c]["entry"]
      /\ LossesKept
  BY <1>1, LoseGrows DEF FetchGone, LossKinds
<1>5. GoodSlot(c, w, s)
  BY <1>1, <1>4 DEF FetchGone, GoodSlot, SlotInv, Slot, Record, Phases, RpcPhases, Verdicts, Terminal, Open, Idle, TypeOK
<1>6. TypeOK'
  BY <1>1, <1>3, <1>4 DEF FetchGone, TypeOK
<1> HIDE DEF s
<1> QED
  BY <1>1, <1>2, <1>4, <1>5, <1>6, SlotKeepsIInv DEF FetchGone, TypeOK, LossesKept

\* The same for a lookup that fails.
LEMMA LookupFailsStep ==
  ASSUME IInv, NEW c \in Clients, NEW w \in Workers, LookupFails(c, w)
  PROVE  IInv'
<1> DEFINE old == worker[c][w]
           s == Idle
<1> USE DEF At, nodeVars
<1>1. TypeOK /\ old \in Slot /\ old.hash \in Hashes /\ SlotInv(c, old)
  BY BusySlot DEF LookupFails
<1>2. s \in Slot /\ Become(c, w, s)
  BY <1>1, SlotTypes DEF LookupFails, Finish, Phases, RpcPhases, Verdicts, Terminal
<1>3. worker' \in [Clients -> [Workers -> Slot]]
  BY <1>1, <1>2, SlotStep
<1>4. /\ lost' \in [Clients -> [LossKinds -> SUBSET Hashes]]
      /\ old.hash \in lost'[c]["entry"]
      /\ LossesKept
  BY <1>1, LoseGrows DEF LookupFails, LossKinds
<1>5. GoodSlot(c, w, s)
  BY <1>1, <1>4 DEF LookupFails, GoodSlot, SlotInv, Slot, Record, Phases, RpcPhases, Verdicts, Terminal, Open, Idle, TypeOK
<1>6. TypeOK'
  BY <1>1, <1>3, <1>4 DEF LookupFails, TypeOK, Fault
<1> HIDE DEF s
<1> QED
  BY <1>1, <1>2, <1>4, <1>5, <1>6, SlotKeepsIInv DEF LookupFails, TypeOK, LossesKept

\* A goroutine that hangs keeps its hash.
LEMMA HangStep ==
  ASSUME IInv, NEW c \in Clients, NEW w \in Workers, Hang(c, w)
  PROVE  IInv'
<1> DEFINE old == worker[c][w]
           s == [old EXCEPT !.phase = "hung"]
<1> USE DEF At, nodeVars
<1>1. TypeOK /\ old \in Slot /\ old.hash \in Hashes /\ SlotInv(c, old)
  BY BusySlot DEF Hang, RpcPhases
<1>2. s \in Slot /\ Become(c, w, s)
  BY <1>1, SlotTypes DEF Hang, Goto, Phases, RpcPhases, Verdicts, Terminal
<1>3. worker' \in [Clients -> [Workers -> Slot]]
  BY <1>1, <1>2, SlotStep
<1>5. GoodSlot(c, w, s)
  BY <1>1 DEF Hang, GoodSlot, SlotInv, Slot, Record, Phases, RpcPhases, Verdicts, Terminal, Open, Idle, TypeOK
<1>6. TypeOK'
  BY <1>1, <1>3 DEF Hang, TypeOK, Fault
<1> HIDE DEF s
<1> QED
  BY <1>1, <1>2, <1>5, <1>6, SlotKeepsIInv DEF Hang, TypeOK, LossesKept

\* Leaving the indexing phase with details means being in the gas index;
\* leaving it for good means the record is final.
LEMMA IndexStep ==
  ASSUME IInv, NEW c \in Clients, NEW w \in Workers, Index(c, w)
  PROVE  IInv'
<1> DEFINE old == worker[c][w]
           s == IF old.verdict \in {"pending", "queued"}
                THEN [old EXCEPT !.phase = "requeue"] ELSE Idle
<1> USE DEF At, nodeVars
<1>1. TypeOK /\ old \in Slot /\ old.hash \in Hashes /\ SlotInv(c, old)
  BY BusySlot DEF Index
<1>2. s \in Slot /\ Become(c, w, s)
  BY <1>1, SlotTypes DEF Index, AfterUpdate, Goto, Finish, Phases, RpcPhases, Verdicts, Terminal
<1>3. worker' \in [Clients -> [Workers -> Slot]]
  BY <1>1, <1>2, SlotStep
<1>5. GoodSlot(c, w, s)
  BY <1>1 DEF Index, GoodSlot, SlotInv, Slot, Record, Phases, RpcPhases, Verdicts, Terminal, Open, Idle, TypeOK
<1>6. TypeOK'
  BY <1>1, <1>3 DEF Index, TypeOK
<1> HIDE DEF s
<1> QED
  BY <1>1, <1>2, <1>5, <1>6, SlotKeepsIInv DEF Index, TypeOK, LossesKept

\* The index entry that is given up on is in lost.
LEMMA IndexFailsStep ==
  ASSUME IInv, NEW c \in Clients, NEW w \in Workers, IndexFails(c, w)
  PROVE  IInv'
<1> DEFINE old == worker[c][w]
           s == IF old.verdict \in {"pending", "queued"}
                THEN [old EXCEPT !.phase = "requeue"] ELSE Idle
<1> USE DEF At, nodeVars
<1>1. TypeOK /\ old \in Slot /\ old.hash \in Hashes /\ SlotInv(c, old)
  BY BusySlot DEF IndexFails
<1>2. s \in Slot /\ Become(c, w, s)
  BY <1>1, SlotTypes DEF IndexFails, AfterUpdate, Goto, Finish, Phases, RpcPhases, Verdicts, Terminal
<1>3. worker' \in [Clients -> [Workers -> Slot]]
  BY <1>1, <1>2, SlotStep
<1>4. /\ lost' \in [Clients -> [LossKinds -> SUBSET Hashes]]
      /\ old.hash \in lost'[c]["index"]
      /\ LossesKept
  BY <1>1, LoseGrows DEF IndexFails, LossKinds
<1>5. GoodSlot(c, w, s)
  BY <1>1, <1>4 DEF IndexFails, GoodSlot, SlotInv, Slot, Record, Phases, RpcPhases, Verdicts, Terminal, Open, Idle, TypeOK
<1>6. TypeOK'
  BY <1>1, <1>3, <1>4 DEF IndexFails, TypeOK, Fault
<1> HIDE DEF s
<1> QED
  BY <1>1, <1>2, <1>4, <1>5, <1>6, SlotKeepsIInv DEF IndexFails, TypeOK, LossesKept

\* The entry that is given up on is in lost.
LEMMA RequeueFailsStep ==
  ASSUME IInv, NEW c \in Clients, NEW w \in Workers, RequeueFails(c, w)
  PROVE  IInv'
<1> DEFINE old == worker[c][w]
           s == Idle
<1> USE DEF At, nodeVars
<1>1. TypeOK /\ old \in Slot /\ old.hash \in Hashes /\ SlotInv(c, old)
  BY BusySlot DEF RequeueFails
<1>2. s \in Slot /\ Become(c, w, s)
  BY <1>1, SlotTypes DEF RequeueFails, Finish, Phases, RpcPhases, Verdicts, Terminal
<1>3. worker' \in [Clients -> [Workers -> Slot]]
  BY <1>1, <1>2, SlotStep
<1>4. /\ lost' \in [Clients -> [LossKinds -> SUBSET Hashes]]
      /\ old.hash \in lost'[c]["entry"]
      /\ LossesKept
  BY <1>1, LoseGrows DEF RequeueFails, LossKinds
<1>5. GoodSlot(c, w, s)
  BY <1>1, <1>4 DEF RequeueFails, GoodSlot, SlotInv, Slot, Record, Phases, RpcPhases, Verdicts, Terminal, Open, Idle, TypeOK
<1>6. TypeOK'
  BY <1>1, <1>3, <1>4 DEF RequeueFails, TypeOK, Fault
<1> HIDE DEF s
<1> QED
  BY <1>1, <1>2, <1>4, <1>5, <1>6, SlotKeepsIInv DEF RequeueFails, TypeOK, LossesKept

\* A failing update loses the entry of a mined or dropped transaction only;
\* the others go on to be requeued.
LEMMA UpdateFailsStep ==
  ASSUME IInv, NEW c \in Clients, NEW w \in Workers, UpdateFails(c, w)
  PROVE  IInv'
<1> DEFINE old == worker[c][w]
           s == IF old.verdict \in {"pending", "queued"}
                THEN [old EXCEPT !.phase = "requeue"] ELSE Idle
<1> USE DEF At, nodeVars
<1>1. TypeOK /\ old \in Slot /\ old.hash \in Hashes /\ SlotInv(c, old)
  BY BusySlot DEF UpdateFails
<1>2. s \in Slot /\ Become(c, w, s)
  BY <1>1, SlotTypes DEF UpdateFails, AfterUpdate, Goto, Finish, Phases, RpcPhases
<1>3. worker' \in [Clients -> [Workers -> Slot]]
  BY <1>1, <1>2, SlotStep
<1>4. /\ lost' \in [Clients -> [LossKinds -> SUBSET Hashes]]
      /\ old.verdict \in Terminal => old.hash \in lost'[c]["entry"]
      /\ LossesKept
  <2>1. CASE old.verdict \in Terminal
    BY <1>1, <2>1, LoseGrows DEF UpdateFails, LossKinds
  <2>2. CASE old.verdict \notin Terminal
    BY <1>1, <2>2 DEF UpdateFails, TypeOK, LossesKept
  <2> QED
    BY <2>1, <2>2
<1>5. GoodSlot(c, w, s)
  BY <1>1, <1>4 DEF UpdateFails, GoodSlot, SlotInv, Slot, Record, Phases, RpcPhases, Verdicts, Terminal, Open, Idle, TypeOK
<1>6. TypeOK'
  <2>1. UNCHANGED <<now, node, past, wire, announced, broker, universal, queue, held,
                    recs, gasIndex>> /\ Fault
    BY DEF UpdateFails
  <2> QED
    BY <1>1, <1>3, <1>4, <2>1 DEF TypeOK, Fault
<1> HIDE DEF s
<1> QED
  BY <1>1, <1>2, <1>4, <1>5, <1>6, SlotKeepsIInv DEF UpdateFails, TypeOK, LossesKept

\* Any verdict of TransactionByHash leaves the goroutine with its hash.
LEMMA LookupStep ==
  ASSUME IInv, NEW c \in Clients, NEW w \in Workers, Lookup(c, w)
  PROVE  IInv'
<1> DEFINE old == worker[c][w]
<1> USE DEF At, nodeVars
<1>1. TypeOK /\ old \in Slot /\ old.hash \in Hashes /\ SlotInv(c, old)
  BY BusySlot DEF Lookup
<1>2. PICK v \in {"pending", "queued", "dropped"} : Decide(c, w, v)
  BY DEF Lookup, LookupVerdicts
<1> DEFINE s == [old EXCEPT !.phase = "load", !.verdict = v]
<1>3. s \in Slot /\ Become(c, w, s)
  BY <1>1, <1>2, SlotTypes DEF Decide, Verdicts, Terminal
<1>4. worker' \in [Clients -> [Workers -> Slot]]
  BY <1>1, <1>3, SlotStep
<1>5. GoodSlot(c, w, s)
  BY <1>1 DEF Lookup, GoodSlot, SlotInv, Slot, Record, Phases, RpcPhases, Verdicts, Terminal, Open, Idle, TypeOK
<1>6. TypeOK'
  BY <1>1, <1>4 DEF Lookup, TypeOK
<1> HIDE DEF s
<1> QED
  BY <1>1, <1>3, <1>5, <1>6, SlotKeepsIInv DEF Lookup, TypeOK, LossesKept

\* Either there is a record, and the goroutine remembers its new value, or
\* there is none, and then none is open either.
LEMMA LoadStep ==
  ASSUME IInv, NEW c \in Clients, NEW w \in Workers, Load(c, w)
  PROVE  IInv'
<1> DEFINE old == worker[c][w]
           rec == recs[c][old.hash]
           s == IF rec.status = "none"
                THEN IF old.verdict \in {"pending", "queued"}
                     THEN [old EXCEPT !.phase = "requeue"] ELSE Idle
                ELSE [old EXCEPT !.phase = "save", !.buf = Updated(rec, old.verdict)]
<1> USE DEF At, nodeVars
<1>1. TypeOK /\ old \in Slot /\ old.hash \in Hashes /\ SlotInv(c, old)
  BY BusySlot DEF Load
<1>2. rec \in Record /\ old.verdict # "none" /\ old.phase = "load"
  BY <1>1 DEF TypeOK, SlotInv, Load
<1>3. Updated(rec, old.verdict) \in Record /\ Updated(rec, old.verdict).status = old.verdict
  BY <1>1, <1>2 DEF Updated, Record, Slot, Verdicts, Open, Terminal
<1>4. s \in Slot /\ Become(c, w, s)
  <2>1. s \in Slot
    BY <1>1, <1>3, SlotTypes DEF Phases, RpcPhases
  <2>2. Become(c, w, s)
    BY DEF Load, AfterUpdate, Goto, Finish
  <2> QED
    BY <2>1, <2>2
<1>5. worker' \in [Clients -> [Workers -> Slot]]
  BY <1>1, <1>4, SlotStep
<1>6. GoodSlot(c, w, s)
  <2>1. CASE rec.status = "none"
    BY <1>1, <1>2, <2>1 DEF GoodSlot, SlotInv, Slot, Idle, Open
  <2>2. CASE rec.status # "none"
    BY <1>1, <1>2, <1>3, <2>2 DEF GoodSlot, SlotInv, Slot
  <2> QED
    BY <2>1, <2>2
<1>7. TypeOK'
  BY <1>1, <1>5 DEF Load, TypeOK
<1> HIDE DEF s
<1> QED
  BY <1>1, <1>4, <1>6, <1>7, SlotKeepsIInv DEF Load, TypeOK, LossesKept

\* HSET writes the record of the hash that the goroutine keeps, or of which it
\* has nothing left to do but to index it; that is still due or given up on.
LEMMA SavedStep ==
  ASSUME IInv, NEW c \in Clients, NEW w \in Workers, NEW s \in Slot, Become(c, w, s),
         At(c, w, "save"),
         recs' = [recs EXCEPT ![c][worker[c][w].hash] = worker[c][w].buf],
         UNCHANGED <<broker, universal, queue, held, gasIndex>>,
         LossesKept, TypeOK',
         s.phase # "idle" => s.hash = worker[c][w].hash,
         s.phase \in {"idle", "index", "requeue"},
         s.phase = "idle" => worker[c][w].verdict \in Terminal,
         s.phase = "index" => /\ s.buf = worker[c][w].buf
                              /\ s.verdict = worker[c][w].verdict,
         s.phase # "index" => worker[c][w].hash \in lost'[c]["index"]
  PROVE  IInv'
<1> DEFINE old == worker[c][w]
<1> USE DEF At
<1>1. TypeOK /\ old \in Slot /\ old.hash \in Hashes /\ SlotInv(c, old)
  BY BusySlot
<1>3. /\ worker' \in [Clients -> [Workers -> Slot]]
      /\ worker'[c][w] = s
      /\ \A d \in Clients, v \in Workers :
           (d # c \/ v # w) => worker'[d][v] = worker[d][v]
  BY <1>1, SlotStep
<1>4. /\ recs'[c][old.hash] = old.buf
      /\ \A d \in Clients, h \in Hashes :
           (d # c \/ h # old.hash) => recs'[d][h] = recs[d][h]
  BY <1>1 DEF TypeOK
<1>5. /\ old.buf.status = old.verdict
      /\ old.verdict \in {"pending", "queued", "mined", "dropped"}
      /\ recs[c][old.hash].status # "none"
  BY <1>1 DEF SlotInv, Slot, Verdicts, Terminal
<1>9. \A d \in Clients, h \in Hashes :
        recs[d][h].status # "none" => recs'[d][h].status # "none"
  BY <1>4, <1>5
<1>10. BrokerInv'
  BY <1>1, <1>9 DEF IInv, TypeOK, BrokerInv, Listed, Holds, LossesKept
<1>11. WorkerInv'
  <2> SUFFICES ASSUME NEW d \in Clients, NEW v \in Workers
               PROVE  SlotInv(d, worker[d][v])'
    BY DEF WorkerInv
  <2>1. CASE d = c /\ v = w
    BY <1>1, <1>3, <1>5, <1>9, <2>1 DEF SlotInv
  <2>2. CASE d # c \/ v # w
    BY <1>3, <1>9, <2>2 DEF IInv, WorkerInv, SlotInv
  <2> QED
    BY <2>1, <2>2
<1>12. TrackedInv'
  <2> SUFFICES ASSUME NEW d \in Clients, NEW h \in Hashes, recs'[d][h].status \in Open
               PROVE  \/ BrokerHas(d, h)'
                      \/ h \in ToSet(queue[d])
                      \/ held[d] = h
                      \/ \E v \in Workers : WillRequeue(d, v, h)'
                      \/ h \in lost'[d]["entry"]
    BY DEF TrackedInv
  <2>1. CASE d = c /\ h = old.hash
    <3>1. old.verdict \notin Terminal
      BY <1>4, <1>5, <2>1 DEF Open, Terminal
    <3>2. WillRequeue(c, w, h)'
      BY <1>3, <2>1, <3>1 DEF WillRequeue, WorkerHas
    <3> QED
      BY <2>1, <3>2
  <2>2. CASE d # c \/ h # old.hash
    <3>1. recs[d][h].status \in Open
      BY <1>4, <2>2
    <3>2. BrokerHas(d, h)' <=> BrokerHas(d, h)
      BY DEF BrokerHas
    <3>3. \A v \in Workers : WillRequeue(d, v, h) => WillRequeue(d, v, h)'
      BY <1>3, <2>2 DEF WillRequeue, WorkerHas
    <3> QED
      BY <3>1, <3>2, <3>3 DEF IInv, TrackedInv, LossesKept
  <2> QED
    BY <2>1, <2>2
<1>13. GasIndexInv'
  <2> SUFFICES ASSUME NEW d \in Clients, NEW h \in Hashes, recs'[d][h].tx
               PROVE  \/ h \in gasIndex[d]
                      \/ h \in lost'[d]["index"]
                      \/ \E v \in Workers :
                           (WorkerHas(d, v, h) /\ At(d, v, "index") /\ worker[d][v].buf.tx)'
    BY DEF GasIndexInv
  <2>1. CASE d = c /\ h = old.hash
    BY <1>3, <1>4, <2>1 DEF WorkerHas
  <2>2. CASE d # c \/ h # old.hash
    <3>1. recs[d][h].tx
      BY <1>4, <2>2
    <3> QED
      BY <1>3, <2>2, <3>1 DEF IInv, GasIndexInv, WorkerHas, LossesKept
  <2> QED
    BY <2>1, <2>2
<1>14. RecordBeforePolling'
  <2>1. \A d \in Clients, h \in Hashes : Polled(d, h)' => Polled(d, h)
    BY <1>3 DEF Polled, WorkerHas
  <2> QED
    BY <1>9, <2>1 DEF IInv, RecordBeforePolling, LossesKept
<1>15. RecordsAreListed'
  BY <1>4, <1>5 DEF IInv, RecordsAreListed, LossesKept
<1> QED
  BY <1>10, <1>11, <1>12, <1>13, <1>14, <1>15 DEF IInv

LEMMA SaveStep ==
  ASSUME IInv, NEW c \in Clients, NEW w \in Workers, Save(c, w)
  PROVE  IInv'
<1> DEFINE old == worker[c][w]
           s == [old EXCEPT !.phase = "index"]
<1> USE DEF At, nodeVars
<1>1. TypeOK /\ old \in Slot /\ old.hash \in Hashes /\ SlotInv(c, old)
  BY BusySlot DEF Save
<1>2. s \in Slot /\ Become(c, w, s)
  BY <1>1, SlotTypes DEF Save, Goto, Phases
<1>3. worker' \in [Clients -> [Workers -> Slot]]
  BY <1>1, <1>2, SlotStep
<1>4. recs' \in [Clients -> [Hashes -> Record]]
  BY <1>1 DEF Save, TypeOK, Slot
<1>5. s.hash = old.hash /\ s.buf = old.buf /\ s.verdict = old.verdict /\ s.phase = "index"
  BY <1>1 DEF Slot
<1>6. TypeOK'
  BY <1>1, <1>3, <1>4 DEF Save, TypeOK
<1> HIDE DEF s
<1> QED
  BY <1>1, <1>2, <1>5, <1>6, SavedStep DEF Save, TypeOK, LossesKept

\* A record that is not going to be indexed is in lost.
LEMMA SaveLostStep ==
  ASSUME IInv, NEW c \in Clients, NEW w \in Workers, SaveLost(c, w)
  PROVE  IInv'
<1> DEFINE old == worker[c][w]
           s == IF old.verdict \in {"pending", "queued"}
                THEN [old EXCEPT !.phase = "requeue"] ELSE Idle
<1> USE DEF At, nodeVars
<1>1. TypeOK /\ old \in Slot /\ old.hash \in Hashes /\ SlotInv(c, old)
  BY BusySlot DEF SaveLost
<1>2. s \in Slot /\ Become(c, w, s)
  BY <1>1, SlotTypes DEF SaveLost, AfterUpdate, Goto, Finish, Phases, RpcPhases
<1>3. worker' \in [Clients -> [Workers -> Slot]]
  BY <1>1, <1>2, SlotStep
<1>4. recs' \in [Clients -> [Hashes -> Record]]
  BY <1>1 DEF SaveLost, TypeOK, Slot
<1>5. /\ lost' \in [Clients -> [LossKinds -> SUBSET Hashes]]
      /\ old.hash \in lost'[c]["index"]
      /\ LossesKept
  BY <1>1, LoseGrows DEF SaveLost, LossKinds
<1>6. /\ s.phase # "idle" => s.hash = old.hash
      /\ s.phase \in {"idle", "requeue"}
      /\ s.phase = "idle" => old.verdict \in Terminal
  BY <1>1 DEF SaveLost, Slot, Idle, SlotInv, Verdicts
<1>7. TypeOK'
  BY <1>1, <1>3, <1>4, <1>5 DEF SaveLost, TypeOK, Fault
<1> HIDE DEF s
<1> QED
  BY <1>1, <1>2, <1>5, <1>6, <1>7, SavedStep DEF SaveLost

\* Spawning hands the popped hash from the loop to a goroutine.
LEMMA SpawnStep ==
  ASSUME IInv, NEW c \in Clients, NEW w \in Workers, Spawn(c, w)
  PROVE  IInv'
<1> DEFINE s == [Idle EXCEPT !.phase = "receipt", !.hash = held[c]]
<1> USE DEF At, nodeVars
<1>1. TypeOK /\ held[c] \in Hashes /\ worker[c][w] \in Slot
  BY DEF IInv, TypeOK, Spawn
<1>2. s \in Slot /\ Become(c, w, s)
  BY <1>1, SlotTypes DEF Spawn
<1>3. /\ worker' \in [Clients -> [Workers -> Slot]]
      /\ worker'[c][w] = s
      /\ \A d \in Clients, v \in Workers :
           (d # c \/ v # w) => worker'[d][v] = worker[d][v]
  BY <1>1, <1>2, SlotStep
<1>4. s.hash = held[c] /\ s.phase = "receipt" /\ worker[c][w].phase = "idle"
  BY DEF Idle, Spawn
<1>5. /\ UNCHANGED <<now, node, past, wire, announced, broker, universal, queue, recs,
                     gasIndex, lost, faults>>
      /\ held' = [held EXCEPT ![c] = NoHash]
  BY DEF Spawn
<1> HIDE DEF s
<1>6. TypeOK'
  BY <1>1, <1>3, <1>5 DEF TypeOK
<1>7. BrokerInv' /\ RecordsAreListed'
  BY <1>5 DEF IInv, BrokerInv, Listed, Holds, RecordsAreListed
<1>8. WorkerInv'
  BY <1>1, <1>3, <1>4, <1>5 DEF IInv, WorkerInv, SlotInv
<1>9. TrackedInv'
  <2>1. \A h \in Hashes : held[c] = h => WillRequeue(c, w, h)'
    BY <1>1, <1>3, <1>4 DEF WillRequeue, WorkerHas
  <2>2. \A d \in Clients, h \in Hashes, v \in Workers :
          WillRequeue(d, v, h) => WillRequeue(d, v, h)'
    BY <1>3, <1>4 DEF WillRequeue, WorkerHas
  <2>3. \A d \in Clients : d # c => held'[d] = held[d]
    BY <1>1, <1>5 DEF TypeOK
  <2> QED
    BY <1>5, <2>1, <2>2, <2>3 DEF IInv, TrackedInv, BrokerHas
<1>10. GasIndexInv'
  BY <1>1, <1>3, <1>4, <1>5 DEF IInv, GasIndexInv, WorkerHas
<1>11. RecordBeforePolling'
  BY <1>1, <1>3, <1>4, <1>5 DEF IInv, TypeOK, RecordBeforePolling, Polled, WorkerHas
<1> QED
  BY <1>6, <1>7, <1>8, <1>9, <1>10, <1>11 DEF IInv

\* Requeueing hands the hash from a goroutine to the queue.
LEMMA RequeueStep ==
  ASSUME IInv, NEW c \in Clients, NEW w \in Workers, Requeue(c, w)
  PROVE  IInv'
<1> DEFINE old == worker[c][w]
           s == Idle
<1> USE DEF At, nodeVars
<1>1. TypeOK /\ old \in Slot /\ old.hash \in Hashes /\ SlotInv(c, old)
  BY BusySlot DEF Requeue
<1>2. s \in Slot /\ Become(c, w, s)
  BY <1>1, SlotTypes DEF Requeue, Finish
<1>3. /\ worker' \in [Clients -> [Workers -> Slot]]
      /\ worker'[c][w] = s
      /\ \A d \in Clients, v \in Workers :
           (d # c \/ v # w) => worker'[d][v] = worker[d][v]
  BY <1>1, <1>2, SlotStep
<1>4. s.phase = "idle" /\ s.hash = NoHash /\ old.phase = "requeue"
  BY DEF Idle, Requeue
<1>5. UNCHANGED <<now, node, past, wire, announced, broker, universal, held, recs,
                  gasIndex, lost, faults>>
  BY DEF Requeue
<1>6. /\ queue' \in [Clients -> Seq(Hashes)]
      /\ ToSet(queue'[c]) = ToSet(queue[c]) \cup {old.hash}
      /\ \A d \in Clients : d # c => queue'[d] = queue[d]
  <2>1. queue' = [queue EXCEPT ![c] = Append(queue[c], old.hash)]
    BY DEF Requeue
  <2>2. queue[c] \in Seq(Hashes)
    BY <1>1 DEF TypeOK
  <2> QED
    BY <1>1, <2>1, <2>2, ToSetAppend DEF TypeOK
<1> HIDE DEF s
<1>7. TypeOK'
  BY <1>1, <1>3, <1>5, <1>6 DEF TypeOK
<1>8. BrokerInv' /\ RecordsAreListed'
  BY <1>5 DEF IInv, BrokerInv, Listed, Holds, RecordsAreListed
<1>9. WorkerInv'
  BY <1>1, <1>3, <1>4, <1>5 DEF IInv, WorkerInv, SlotInv
<1>10. TrackedInv'
  <2>1. \A d \in Clients, h \in Hashes, v \in Workers :
          WillRequeue(d, v, h) => WillRequeue(d, v, h)' \/ h \in ToSet(queue'[d])
    BY <1>3, <1>6 DEF WillRequeue, WorkerHas
  <2>2. \A d \in Clients, h \in Hashes :
          h \in ToSet(queue[d]) => h \in ToSet(queue'[d])
    BY <1>6
  <2> QED
    BY <1>5, <2>1, <2>2 DEF IInv, TrackedInv, BrokerHas
<1>11. GasIndexInv'
  BY <1>3, <1>4, <1>5 DEF IInv, GasIndexInv, WorkerHas
<1>12. RecordBeforePolling'
  <2>1. WorkerHas(c, w, old.hash)
    BY <1>4 DEF WorkerHas
  <2>2. \A d \in Clients, h \in Hashes, v \in Workers :
          WorkerHas(d, v, h)' => WorkerHas(d, v, h)
    BY <1>3, <1>4 DEF WorkerHas
  <2>3. \A d \in Clients, h \in Hashes :
          h \in ToSet(queue'[d]) => h \in ToSet(queue[d]) \/ (d = c /\ h = old.hash)
    BY <1>6
  <2>4. \A d \in Clients, h \in Hashes : Polled(d, h)' => Polled(d, h)
    BY <1>5, <2>1, <2>2, <2>3 DEF Polled
  <2> QED
    BY <1>5, <2>4 DEF IInv, RecordBeforePolling
<1> QED
  BY <1>7, <1>8, <1>9, <1>10, <1>11, <1>12 DEF IInv

-----------------------------------------------------------------------------
(* The environment, the broker and the loop.  None of them touches a slot. *)

\* The broker of a client goes to another phase with the hash it has.
LEMMA BrokerStepTypes ==
  ASSUME TypeOK, NEW c \in Clients,
         NEW p \in {"top", "reading", "list", "store", "push", "ended"}, BrokerGoto(c, p)
  PROVE  /\ broker' \in [Clients -> BrokerState]
         /\ broker'[c].phase = p
         /\ broker'[c].hash = broker[c].hash
         /\ broker'[c].stamp = broker[c].stamp
         /\ \A d \in Clients : d # c => broker'[d] = broker[d]
<1> DEFINE b == [broker[c] EXCEPT !.phase = p]
<1>1. /\ b \in BrokerState
      /\ b.phase = p
      /\ b.hash = broker[c].hash
      /\ b.stamp = broker[c].stamp
  <2>1. broker[c] \in BrokerState
    BY DEF TypeOK
  <2> QED
    BY <2>1 DEF BrokerState
<1>2. broker' = [broker EXCEPT ![c] = b]
  BY DEF BrokerGoto
<1> HIDE DEF b
<1> QED
  BY <1>1, <1>2 DEF TypeOK

\* Between reading a message and queueing its hash the broker has a hash.
LEMMA BrokerBusy ==
  ASSUME IInv, NEW c \in Clients, broker[c].phase \in {"list", "store", "push"}
  PROVE  broker[c].hash \in Hashes
BY DEF IInv, BrokerInv

\* Nothing but the type of the environment depends on the environment.
LEMMA NodeKeepsIInv ==
  ASSUME IInv, TypeOK',
         UNCHANGED <<broker, universal, queue, held, worker, recs, gasIndex, lost>>
  PROVE  IInv'
<1>1. BrokerInv' /\ WorkerInv'
  BY DEF IInv, BrokerInv, Listed, Holds, WorkerInv, SlotInv
<1>2. TrackedInv' /\ GasIndexInv'
  BY DEF IInv, TrackedInv, WillRequeue, WorkerHas, BrokerHas, GasIndexInv, At
<1>3. RecordBeforePolling' /\ RecordsAreListed'
  BY DEF IInv, RecordBeforePolling, Polled, WorkerHas, RecordsAreListed
<1> QED
  BY <1>1, <1>2, <1>3 DEF IInv

LEMMA ClockType ==
  ASSUME TypeOK, NEW t \in now .. MaxTime
  PROVE  t \in 0 .. MaxTime /\ t \in Nat
BY DEF TypeOK

LEMMA AnnounceStep ==
  ASSUME IInv, NEW c \in Clients, NEW h \in Hashes, Announce(c, h)
  PROVE  IInv'
<1>1. TypeOK
  BY DEF IInv
<1>2. PICK t \in now .. MaxTime :
        now' = t /\ announced' = [announced EXCEPT ![c][h] = Append(@, t)]
  BY DEF Announce
<1>3. t \in 0 .. MaxTime /\ t \in Nat
  BY <1>1, ClockType
<1>4. /\ node' \in [Clients -> [Hashes -> NodeStates]]
      /\ wire' \in [Clients -> Seq(Hashes \cup {Garbage})]
  BY <1>1 DEF TypeOK, Announce, NodeStates
<1>5. announced' \in [Clients -> [Hashes -> Seq(Nat)]]
  BY <1>1, <1>2, <1>3 DEF TypeOK
<1>6. TypeOK'
  BY <1>1, <1>2, <1>3, <1>4, <1>5 DEF TypeOK, Announce
<1> QED
  BY <1>6, NodeKeepsIInv DEF Announce

LEMMA MoveStep ==
  ASSUME IInv, NEW c \in Clients, NEW h \in Hashes, NEW s \in NodeStates, Move(c, h, s)
  PROVE  IInv'
<1>1. TypeOK
  BY DEF IInv
<1>2. /\ node' \in [Clients -> [Hashes -> NodeStates]]
      /\ past' \in [Clients -> [Hashes -> SUBSET NodeStates]]
  <2>1. (IF announced[c][h] = <<>> THEN past[c][h] ELSE past[c][h] \cup {s}) \in SUBSET NodeStates
    BY <1>1 DEF TypeOK
  <2>2. PICK p \in SUBSET NodeStates : past' = [past EXCEPT ![c][h] = p]
    BY <2>1 DEF Move
  <2> QED
    BY <1>1, <2>2 DEF TypeOK, Move
<1>3. TypeOK'
  BY <1>1, <1>2 DEF TypeOK, Move
<1> QED
  BY <1>3, NodeKeepsIInv DEF Move

LEMMA NodeStep ==
  ASSUME IInv, NEW c \in Clients, NEW h \in Hashes, Mine(c, h) \/ Evict(c, h) \/ Reorg(c, h)
  PROVE  IInv'
BY MoveStep DEF Mine, Evict, Reorg, NodeStates

\* Nobody has seen the message yet.
LEMMA SendGarbageStep ==
  ASSUME IInv, NEW c \in Clients, SendGarbage(c)
  PROVE  IInv'
<1>1. /\ wire' \in [Clients -> Seq(Hashes \cup {Garbage})]
      /\ faults' \in 0 .. MaxFaults
  BY DEF IInv, TypeOK, SendGarbage, Fault
<1>2. TypeOK'
  BY <1>1 DEF IInv, TypeOK, SendGarbage
<1> QED
  BY <1>2, NodeKeepsIInv DEF SendGarbage

\* The broker has nothing in hand.
LEMMA ListenStep ==
  ASSUME IInv, NEW c \in Clients, Listen(c)
  PROVE  IInv'
<1> USE DEF IInv, nodeVars
<1>0. PICK t \in now .. MaxTime :
        /\ now' = t
        /\ broker' = [broker EXCEPT ![c] = [phase |-> "reading", hash |-> NoHash, stamp |-> t]]
  BY DEF Listen
<1>1. /\ broker' \in [Clients -> BrokerState]
      /\ broker'[c].phase = "reading"
      /\ broker[c].phase = "top"
      /\ \A d \in Clients : d # c => broker'[d] = broker[d]
      /\ now' \in 0 .. MaxTime
  BY <1>0, ClockType DEF TypeOK, Listen, BrokerAt, BrokerState
<1>2. UNCHANGED <<node, past, wire, announced, universal, queue, held,
                     worker, recs, gasIndex, lost, faults>>
  BY DEF Listen
<1>3. TypeOK'
  BY <1>1, <1>2 DEF TypeOK
<1>4. WorkerInv' /\ GasIndexInv' /\ RecordBeforePolling' /\ RecordsAreListed'
  BY <1>2 DEF WorkerInv, SlotInv, GasIndexInv, WorkerHas, At, RecordBeforePolling, Polled, RecordsAreListed
<1>5. BrokerInv'
  BY <1>1, <1>2 DEF BrokerInv, Listed, Holds
<1>6. TrackedInv'
  BY <1>1, <1>2 DEF TrackedInv, WillRequeue, WorkerHas, BrokerHas, At
<1> QED
  BY <1>3, <1>4, <1>5, <1>6

\* The broker has nothing in hand.
LEMMA StreamEndsStep ==
  ASSUME IInv, NEW c \in Clients, StreamEnds(c)
  PROVE  IInv'
<1> USE DEF IInv, nodeVars
<1>1. /\ broker' \in [Clients -> BrokerState]
      /\ broker'[c].phase = "ended"
      /\ broker'[c].hash = broker[c].hash
      /\ \A d \in Clients : d # c => broker'[d] = broker[d]
  BY BrokerStepTypes DEF StreamEnds
<1>2. broker[c].phase = "reading"
  BY DEF StreamEnds, BrokerAt
<1>3. faults' \in 0 .. MaxFaults
  BY DEF StreamEnds, TypeOK, Fault
<1>4. UNCHANGED <<now, node, past, wire, announced, universal, queue, held,
                     worker, recs, gasIndex, lost>>
  BY DEF StreamEnds
<1>5. TypeOK'
  BY <1>1, <1>2, <1>3, <1>4 DEF TypeOK
<1>6. WorkerInv' /\ GasIndexInv' /\ RecordBeforePolling' /\ RecordsAreListed'
  BY <1>4 DEF WorkerInv, SlotInv, GasIndexInv, WorkerHas, At, RecordBeforePolling, Polled, RecordsAreListed
<1>7. BrokerInv'
  BY <1>1, <1>2, <1>3, <1>4 DEF BrokerInv, Listed, Holds
<1>8. TrackedInv'
  BY <1>1, <1>2, <1>3, <1>4 DEF TrackedInv, WillRequeue, WorkerHas, BrokerHas, At
<1> QED
  BY <1>5, <1>6, <1>7, <1>8

\* The broker takes up a hash and will do all that is due for it.
LEMMA ReceiveStep ==
  ASSUME IInv, NEW c \in Clients, Receive(c)
  PROVE  IInv'
<1> USE DEF IInv, nodeVars
<1>1. wire[c] \in Seq(Hashes \cup {Garbage}) /\ broker[c] \in BrokerState
  BY DEF TypeOK
<1>2. /\ Head(wire[c]) \in Hashes \cup {Garbage}
      /\ Tail(wire[c]) \in Seq(Hashes \cup {Garbage})
  BY <1>1, ToSetPop DEF Receive
<1>3. wire' \in [Clients -> Seq(Hashes \cup {Garbage})]
  BY <1>2 DEF Receive, TypeOK
<1>4. /\ broker' \in [Clients -> BrokerState]
      /\ broker'[c].phase \in {"top", "list"}
      /\ broker'[c].phase = "list" => broker'[c].hash \in Hashes
      /\ \A d \in Clients : d # c => broker'[d] = broker[d]
  <2>1. CASE Head(wire[c]) = Garbage
    BY <2>1, BrokerStepTypes DEF Receive
  <2>2. CASE Head(wire[c]) # Garbage
    <3> DEFINE b == [broker[c] EXCEPT !.phase = "list", !.hash = Head(wire[c])]
    <3>1. b \in BrokerState /\ b.phase = "list" /\ b.hash \in Hashes
      BY <1>1, <1>2, <2>2 DEF BrokerState
    <3>2. broker' = [broker EXCEPT ![c] = b]
      BY <2>2 DEF Receive
    <3> HIDE DEF b
    <3> QED
      BY <3>1, <3>2 DEF TypeOK
  <2> QED
    BY <2>1, <2>2
<1>5. broker[c].phase = "reading"
  BY DEF Receive, BrokerAt
<1>6. UNCHANGED <<now, node, past, announced, universal, queue, held, worker,
                     recs, gasIndex, lost, faults>>
  BY DEF Receive
<1>7. TypeOK'
  BY <1>1, <1>2, <1>3, <1>4, <1>5, <1>6 DEF TypeOK
<1>8. WorkerInv' /\ GasIndexInv' /\ RecordBeforePolling' /\ RecordsAreListed'
  BY <1>6 DEF WorkerInv, SlotInv, GasIndexInv, WorkerHas, At, RecordBeforePolling, Polled, RecordsAreListed
<1>9. BrokerInv'
  BY <1>1, <1>2, <1>3, <1>4, <1>5, <1>6 DEF BrokerInv, Listed, Holds
<1>10. TrackedInv'
  BY <1>1, <1>2, <1>3, <1>4, <1>5, <1>6 DEF TrackedInv, WillRequeue, WorkerHas, BrokerHas, At
<1> QED
  BY <1>7, <1>8, <1>9, <1>10

\* The hash is listed before its record is stored.
LEMMA ListStep ==
  ASSUME IInv, NEW c \in Clients, List(c)
  PROVE  IInv'
<1> USE DEF IInv, nodeVars
<1>1. broker[c].phase = "list" /\ broker[c].hash \in Hashes
  BY BrokerBusy DEF List, BrokerAt
<1>2. /\ broker' \in [Clients -> BrokerState]
      /\ broker'[c].phase = "store"
      /\ broker'[c].hash = broker[c].hash
      /\ \A d \in Clients : d # c => broker'[d] = broker[d]
  BY BrokerStepTypes DEF List
<1>3. /\ universal' \in [Hashes -> Nat \cup {NoTime}]
      /\ universal'[broker[c].hash] # NoTime
      /\ \A g \in Hashes : universal[g] # NoTime => universal'[g] # NoTime
  BY <1>1 DEF List, TypeOK, BrokerState, NoTime
<1>4. UNCHANGED <<now, node, past, wire, announced, queue, held, worker, recs,
                     gasIndex, lost, faults>>
  BY DEF List
<1>5. TypeOK'
  BY <1>1, <1>2, <1>3, <1>4 DEF TypeOK
<1>6. WorkerInv' /\ GasIndexInv' /\ RecordBeforePolling'
  BY <1>4 DEF WorkerInv, SlotInv, GasIndexInv, WorkerHas, At, RecordBeforePolling, Polled
<1>7. BrokerInv'
  BY <1>1, <1>2, <1>3, <1>4 DEF BrokerInv, Listed, Holds
<1>8. TrackedInv'
  BY <1>1, <1>2, <1>3, <1>4 DEF TrackedInv, WillRequeue, WorkerHas, BrokerHas, At
<1>9. RecordsAreListed'
  BY <1>1, <1>2, <1>3, <1>4 DEF RecordsAreListed
<1> QED
  BY <1>5, <1>6, <1>7, <1>8, <1>9

\* A hash that is not listed is in lost.
LEMMA ListFailsStep ==
  ASSUME IInv, NEW c \in Clients, ListFails(c)
  PROVE  IInv'
<1> USE DEF IInv, nodeVars
<1>1. broker[c].phase = "list" /\ broker[c].hash \in Hashes
  BY BrokerBusy DEF ListFails, BrokerAt
<1>2. /\ broker' \in [Clients -> BrokerState]
      /\ broker'[c].phase = "store"
      /\ broker'[c].hash = broker[c].hash
      /\ \A d \in Clients : d # c => broker'[d] = broker[d]
  BY BrokerStepTypes DEF ListFails
<1>3. /\ lost' \in [Clients -> [LossKinds -> SUBSET Hashes]]
      /\ broker[c].hash \in lost'[c]["listing"]
      /\ LossesKept
  BY <1>1, LoseGrows DEF ListFails, LossKinds
<1>4. faults' \in 0 .. MaxFaults
  BY DEF ListFails, TypeOK, Fault
<1>5. UNCHANGED <<now, node, past, wire, announced, universal, queue, held,
                     worker, recs, gasIndex>>
  BY DEF ListFails
<1>6. TypeOK'
  BY <1>1, <1>2, <1>3, <1>4, <1>5 DEF TypeOK
<1>7. WorkerInv'
  BY <1>5 DEF WorkerInv, SlotInv
<1>8. BrokerInv'
  BY <1>1, <1>2, <1>3, <1>4, <1>5 DEF BrokerInv, Listed, Holds, LossesKept
<1>9. TrackedInv'
  BY <1>1, <1>2, <1>3, <1>4, <1>5 DEF TrackedInv, WillRequeue, WorkerHas, BrokerHas, At, LossesKept
<1>10. GasIndexInv'
  BY <1>1, <1>2, <1>3, <1>4, <1>5 DEF GasIndexInv, WorkerHas, At, LossesKept
<1>11. RecordBeforePolling'
  BY <1>1, <1>2, <1>3, <1>4, <1>5 DEF RecordBeforePolling, Polled, WorkerHas, LossesKept
<1>12. RecordsAreListed'
  BY <1>1, <1>2, <1>3, <1>4, <1>5 DEF RecordsAreListed, LossesKept
<1> QED
  BY <1>6, <1>7, <1>8, <1>9, <1>10, <1>11, <1>12

\* The record that is overwritten becomes open, and its hash is about to
\* be queued.
LEMMA StoreStep ==
  ASSUME IInv, NEW c \in Clients, Store(c)
  PROVE  IInv'
<1> USE DEF IInv, nodeVars
<1>1. broker[c].phase = "store" /\ broker[c].hash \in Hashes
  BY BrokerBusy DEF Store, BrokerAt
<1>2. /\ broker' \in [Clients -> BrokerState]
      /\ broker'[c].phase = "push"
      /\ broker'[c].hash = broker[c].hash
      /\ \A d \in Clients : d # c => broker'[d] = broker[d]
  BY BrokerStepTypes DEF Store
<1>3. /\ recs' \in [Clients -> [Hashes -> Record]]
      /\ recs'[c][broker[c].hash].status = "received"
      /\ ~recs'[c][broker[c].hash].tx
      /\ \A d \in Clients, g \in Hashes :
           (d # c \/ g # broker[c].hash) => recs'[d][g] = recs[d][g]
  BY <1>1 DEF Store, TypeOK, BrokerState, Received, Record, Open
<1>4. Listed(c, broker[c].hash)
  BY <1>1 DEF BrokerInv
<1>5. UNCHANGED <<now, node, past, wire, announced, universal, queue, held,
                     worker, gasIndex, lost, faults>>
  BY DEF Store
<1>6. TypeOK'
  BY <1>1, <1>2, <1>3, <1>4, <1>5 DEF TypeOK
<1>7. BrokerInv'
  BY <1>1, <1>2, <1>3, <1>4, <1>5 DEF BrokerInv, Listed, Holds
<1>8. WorkerInv'
  BY <1>1, <1>2, <1>3, <1>4, <1>5 DEF WorkerInv, SlotInv
<1>9. TrackedInv'
  BY <1>1, <1>2, <1>3, <1>4, <1>5 DEF TrackedInv, WillRequeue, WorkerHas, BrokerHas, At
<1>10. GasIndexInv'
  BY <1>1, <1>2, <1>3, <1>4, <1>5 DEF GasIndexInv, WorkerHas, At
<1>11. RecordBeforePolling'
  BY <1>1, <1>2, <1>3, <1>4, <1>5 DEF RecordBeforePolling, Polled, WorkerHas
<1>12. RecordsAreListed'
  BY <1>1, <1>3, <1>4, <1>5 DEF RecordsAreListed, Listed
<1> QED
  BY <1>6, <1>7, <1>8, <1>9, <1>10, <1>11, <1>12

\* A record that is not stored is in lost.
LEMMA StoreFailsStep ==
  ASSUME IInv, NEW c \in Clients, StoreFails(c)
  PROVE  IInv'
<1> USE DEF IInv, nodeVars
<1>1. broker[c].phase = "store" /\ broker[c].hash \in Hashes
  BY BrokerBusy DEF StoreFails, BrokerAt
<1>2. /\ broker' \in [Clients -> BrokerState]
      /\ broker'[c].phase = "push"
      /\ broker'[c].hash = broker[c].hash
      /\ \A d \in Clients : d # c => broker'[d] = broker[d]
  BY BrokerStepTypes DEF StoreFails
<1>3. /\ lost' \in [Clients -> [LossKinds -> SUBSET Hashes]]
      /\ broker[c].hash \in lost'[c]["record"]
      /\ LossesKept
  BY <1>1, LoseGrows DEF StoreFails, LossKinds
<1>4. faults' \in 0 .. MaxFaults
  BY DEF StoreFails, TypeOK, Fault
<1>5. UNCHANGED <<now, node, past, wire, announced, universal, queue, held,
                     worker, recs, gasIndex>>
  BY DEF StoreFails
<1>6. TypeOK'
  BY <1>1, <1>2, <1>3, <1>4, <1>5 DEF TypeOK
<1>7. WorkerInv'
  BY <1>5 DEF WorkerInv, SlotInv
<1>8. BrokerInv'
  BY <1>1, <1>2, <1>3, <1>4, <1>5 DEF BrokerInv, Listed, Holds, LossesKept
<1>9. TrackedInv'
  BY <1>1, <1>2, <1>3, <1>4, <1>5 DEF TrackedInv, WillRequeue, WorkerHas, BrokerHas, At, LossesKept
<1>10. GasIndexInv'
  BY <1>1, <1>2, <1>3, <1>4, <1>5 DEF GasIndexInv, WorkerHas, At, LossesKept
<1>11. RecordBeforePolling'
  BY <1>1, <1>2, <1>3, <1>4, <1>5 DEF RecordBeforePolling, Polled, WorkerHas, LossesKept
<1>12. RecordsAreListed'
  BY <1>1, <1>2, <1>3, <1>4, <1>5 DEF RecordsAreListed, LossesKept
<1> QED
  BY <1>6, <1>7, <1>8, <1>9, <1>10, <1>11, <1>12

\* The queue takes over from the broker; the record is there.
LEMMA PushStep ==
  ASSUME IInv, NEW c \in Clients, Push(c)
  PROVE  IInv'
<1> USE DEF IInv, nodeVars
<1>1. broker[c].phase = "push" /\ broker[c].hash \in Hashes
  BY BrokerBusy DEF Push, BrokerAt
<1>2. /\ broker' \in [Clients -> BrokerState]
      /\ broker'[c].phase = "top"
      /\ broker'[c].hash = broker[c].hash
      /\ \A d \in Clients : d # c => broker'[d] = broker[d]
  BY BrokerStepTypes DEF Push
<1>3. /\ queue' \in [Clients -> Seq(Hashes)]
      /\ ToSet(queue'[c]) = ToSet(queue[c]) \cup {broker[c].hash}
      /\ \A d \in Clients : d # c => queue'[d] = queue[d]
  BY <1>1, ToSetAppend DEF Push, TypeOK
<1>4. Holds(c, broker[c].hash)
  BY <1>1 DEF BrokerInv
<1>5. UNCHANGED <<now, node, past, wire, announced, universal, held, worker,
                     recs, gasIndex, lost, faults>>
  BY DEF Push
<1>6. TypeOK'
  BY <1>1, <1>2, <1>3, <1>4, <1>5 DEF TypeOK
<1>7. WorkerInv' /\ GasIndexInv' /\ RecordsAreListed'
  BY <1>5 DEF WorkerInv, SlotInv, GasIndexInv, WorkerHas, At, RecordsAreListed
<1>8. BrokerInv'
  BY <1>1, <1>2, <1>3, <1>4, <1>5 DEF BrokerInv, Listed, Holds
<1>9. TrackedInv'
  BY <1>1, <1>2, <1>3, <1>4, <1>5 DEF TrackedInv, WillRequeue, WorkerHas, BrokerHas, At
<1>10. RecordBeforePolling'
  <2>1. \A d \in Clients, g \in Hashes :
          Polled(d, g)' => Polled(d, g) \/ (d = c /\ g = broker[c].hash)
    BY <1>3, <1>5 DEF Polled, WorkerHas
  <2> QED
    BY <1>4, <1>5, <2>1 DEF RecordBeforePolling, Holds
<1> QED
  BY <1>6, <1>7, <1>8, <1>9, <1>10

\* An entry that is not queued is in lost.
LEMMA PushFailsStep ==
  ASSUME IInv, NEW c \in Clients, PushFails(c)
  PROVE  IInv'
<1> USE DEF IInv, nodeVars
<1>1. broker[c].phase = "push" /\ broker[c].hash \in Hashes
  BY BrokerBusy DEF PushFails, BrokerAt
<1>2. /\ broker' \in [Clients -> BrokerState]
      /\ broker'[c].phase = "top"
      /\ broker'[c].hash = broker[c].hash
      /\ \A d \in Clients : d # c => broker'[d] = broker[d]
  BY BrokerStepTypes DEF PushFails
<1>3. /\ lost' \in [Clients -> [LossKinds -> SUBSET Hashes]]
      /\ broker[c].hash \in lost'[c]["entry"]
      /\ LossesKept
  BY <1>1, LoseGrows DEF PushFails, LossKinds
<1>4. faults' \in 0 .. MaxFaults
  BY DEF PushFails, TypeOK, Fault
<1>5. UNCHANGED <<now, node, past, wire, announced, universal, queue, held,
                     worker, recs, gasIndex>>
  BY DEF PushFails
<1>6. TypeOK'
  BY <1>1, <1>2, <1>3, <1>4, <1>5 DEF TypeOK
<1>7. WorkerInv'
  BY <1>5 DEF WorkerInv, SlotInv
<1>8. BrokerInv'
  BY <1>1, <1>2, <1>3, <1>4, <1>5 DEF BrokerInv, Listed, Holds, LossesKept
<1>9. TrackedInv'
  BY <1>1, <1>2, <1>3, <1>4, <1>5 DEF TrackedInv, WillRequeue, WorkerHas, BrokerHas, At, LossesKept
<1>10. GasIndexInv'
  BY <1>1, <1>2, <1>3, <1>4, <1>5 DEF GasIndexInv, WorkerHas, At, LossesKept
<1>11. RecordBeforePolling'
  BY <1>1, <1>2, <1>3, <1>4, <1>5 DEF RecordBeforePolling, Polled, WorkerHas, LossesKept
<1>12. RecordsAreListed'
  BY <1>1, <1>2, <1>3, <1>4, <1>5 DEF RecordsAreListed, LossesKept
<1> QED
  BY <1>6, <1>7, <1>8, <1>9, <1>10, <1>11, <1>12

\* The loop takes over from the queue.
LEMMA PopStep ==
  ASSUME IInv, NEW c \in Clients, Pop(c)
  PROVE  IInv'
<1> USE DEF IInv, nodeVars
<1>1. /\ Head(queue[c]) \in Hashes
      /\ queue' \in [Clients -> Seq(Hashes)]
      /\ ToSet(queue[c]) = {Head(queue[c])} \cup ToSet(queue'[c])
      /\ \A d \in Clients : d # c => queue'[d] = queue[d]
  BY ToSetPop DEF Pop, TypeOK
<1>2. /\ held' \in [Clients -> Hashes \cup {NoHash}]
      /\ held[c] = NoHash
      /\ held'[c] = Head(queue[c])
      /\ \A d \in Clients : d # c => held'[d] = held[d]
  BY <1>1 DEF Pop, TypeOK
<1>3. UNCHANGED <<now, node, past, wire, announced, broker, universal, worker,
                     recs, gasIndex, lost, faults>>
  BY DEF Pop
<1>4. TypeOK'
  BY <1>1, <1>2, <1>3 DEF TypeOK
<1>5. BrokerInv' /\ WorkerInv' /\ GasIndexInv' /\ RecordsAreListed'
  BY <1>3 DEF BrokerInv, Listed, Holds, WorkerInv, SlotInv, GasIndexInv, WorkerHas, At, RecordsAreListed
<1>6. TrackedInv'
  BY <1>1, <1>2, <1>3 DEF TrackedInv, WillRequeue, WorkerHas, BrokerHas, At
<1>7. RecordBeforePolling'
  BY <1>1, <1>2, <1>3 DEF RecordBeforePolling, Polled, WorkerHas
<1> QED
  BY <1>4, <1>5, <1>6, <1>7

\* The entry that is gone is in lost.
LEMMA PopLostStep ==
  ASSUME IInv, NEW c \in Clients, PopLost(c)
  PROVE  IInv'
<1> USE DEF IInv, nodeVars
<1>1. /\ Head(queue[c]) \in Hashes
      /\ queue' \in [Clients -> Seq(Hashes)]
      /\ ToSet(queue[c]) = {Head(queue[c])} \cup ToSet(queue'[c])
      /\ \A d \in Clients : d # c => queue'[d] = queue[d]
  BY ToSetPop DEF PopLost, TypeOK
<1>2. /\ lost' \in [Clients -> [LossKinds -> SUBSET Hashes]]
      /\ Head(queue[c]) \in lost'[c]["entry"]
      /\ LossesKept
  BY <1>1, LoseGrows DEF PopLost, LossKinds
<1>3. faults' \in 0 .. MaxFaults
  BY DEF PopLost, TypeOK, Fault
<1>4. UNCHANGED <<now, node, past, wire, announced, broker, universal, held,
                     worker, recs, gasIndex>>
  BY DEF PopLost
<1>5. TypeOK'
  BY <1>1, <1>2, <1>3, <1>4 DEF TypeOK
<1>6. WorkerInv'
  BY <1>4 DEF WorkerInv, SlotInv
<1>7. BrokerInv'
  BY <1>1, <1>2, <1>3, <1>4 DEF BrokerInv, Listed, Holds, LossesKept
<1>8. TrackedInv'
  BY <1>1, <1>2, <1>3, <1>4 DEF TrackedInv, WillRequeue, WorkerHas, BrokerHas, At, LossesKept
<1>9. GasIndexInv'
  BY <1>1, <1>2, <1>3, <1>4 DEF GasIndexInv, WorkerHas, At, LossesKept
<1>10. RecordBeforePolling'
  BY <1>1, <1>2, <1>3, <1>4 DEF RecordBeforePolling, Polled, WorkerHas, LossesKept
<1>11. RecordsAreListed'
  BY <1>1, <1>2, <1>3, <1>4 DEF RecordsAreListed, LossesKept
<1> QED
  BY <1>5, <1>6, <1>7, <1>8, <1>9, <1>10, <1>11

-----------------------------------------------------------------------------
(* IInv is an inductive invariant.                                         *)

LEMMA InitIInv == Init => IInv
<1> SUFFICES ASSUME Init PROVE IInv
  OBVIOUS
<1> USE DEF Init
<1>1. TypeOK
  <2>1. Idle \in Slot /\ NoRecord \in Record
    BY DEF Idle, Slot, NoRecord, Record, Phases, Verdicts, NoTime
  <2>2. /\ node \in [Clients -> [Hashes -> NodeStates]]
        /\ past \in [Clients -> [Hashes -> SUBSET NodeStates]]
        /\ wire \in [Clients -> Seq(Hashes \cup {Garbage})]
        /\ announced \in [Clients -> [Hashes -> Seq(Nat)]]
        /\ broker \in [Clients -> BrokerState]
    BY DEF BrokerState, NodeStates
  <2>3. /\ queue \in [Clients -> Seq(Hashes)]
        /\ lost \in [Clients -> [LossKinds -> SUBSET Hashes]]
        /\ worker \in [Clients -> [Workers -> Slot]]
        /\ recs \in [Clients -> [Hashes -> Record]]
    BY <2>1
  <2> QED
    BY <2>2, <2>3 DEF TypeOK
<1>2. BrokerInv /\ WorkerInv
  BY DEF BrokerInv, WorkerInv, SlotInv, Idle
<1>3. \A c \in Clients, h \in Hashes :
        ~recs[c][h].tx /\ recs[c][h].status = "none" /\ ~Polled(c, h)
  BY DEF NoRecord, Polled, ToSet, WorkerHas, Idle
<1>4. TrackedInv /\ GasIndexInv
  BY <1>3 DEF TrackedInv, GasIndexInv, Open
<1>5. RecordBeforePolling /\ RecordsAreListed
  BY <1>3 DEF RecordBeforePolling, RecordsAreListed
<1> QED
  BY <1>1, <1>2, <1>4, <1>5 DEF IInv

LEMMA StutterStep == IInv /\ UNCHANGED vars => IInv'
<1> SUFFICES ASSUME IInv, UNCHANGED vars PROVE IInv'
  OBVIOUS
<1>1. TypeOK'
  BY DEF vars, IInv, TypeOK
<1> QED
  BY <1>1, NodeKeepsIInv DEF vars

LEMMA IInvStep == IInv /\ [Next]_vars => IInv'
<1> SUFFICES ASSUME IInv, [Next]_vars PROVE IInv'
  OBVIOUS
<1>2. ASSUME NEW c \in Clients, Environment(c) PROVE IInv'
  BY <1>2, AnnounceStep, NodeStep, SendGarbageStep DEF Environment
<1>3. ASSUME NEW c \in Clients, BrokerStep(c) PROVE IInv'
  BY <1>3, ListenStep, ReceiveStep, ListStep, StoreStep, PushStep DEF BrokerStep
<1>4. ASSUME NEW c \in Clients, BrokerFault(c) PROVE IInv'
  BY <1>4, StreamEndsStep, ListFailsStep, StoreFailsStep, PushFailsStep DEF BrokerFault
<1>5. ASSUME NEW c \in Clients, Pop(c) \/ PopLost(c) PROVE IInv'
  BY <1>5, PopStep, PopLostStep
<1>6. ASSUME NEW c \in Clients, NEW w \in Workers, Spawn(c, w) PROVE IInv'
  BY <1>6, SpawnStep
<1>7. ASSUME NEW c \in Clients, NEW w \in Workers, WorkerStep(c, w) PROVE IInv'
  BY <1>7, AskReceiptStep, FetchMinedStep, FetchGoneStep, LookupStep, LoadStep, SaveStep,
     IndexStep, RequeueStep DEF WorkerStep
<1>8. ASSUME NEW c \in Clients, NEW w \in Workers, WorkerFault(c, w) PROVE IInv'
  BY <1>8, ReceiptNotIndexedStep, ReceiptFailsStep, FetchFailsStep, LookupFailsStep,
     UpdateFailsStep, SaveLostStep, IndexFailsStep, RequeueFailsStep, HangStep DEF WorkerFault
<1>9. CASE UNCHANGED vars
  BY <1>9, StutterStep
<1> QED
  BY <1>2, <1>3, <1>4, <1>5, <1>6, <1>7, <1>8, <1>9 DEF Next

\* The conjunction of all the invariants below, and of what they rest on,
\* holds in every state of the pipeline.
THEOREM Inductive == Spec => []IInv
<1> QED
  BY InitIInv, IInvStep, PTL DEF Spec

-----------------------------------------------------------------------------
(* The invariants.                                                         *)

\* Every variable keeps its type: in particular no goroutine, queue entry or
\* loop ever holds the garbage a node may send.
THEOREM TypeCorrect == Spec => []TypeOK
<1>1. IInv => TypeOK
  BY DEF IInv
<1> QED
  BY <1>1, Inductive, PTL

\* No transaction is forgotten while its record says it is undecided, for
\* any number of clients, hashes, goroutines, announcements and faults.
THEOREM NothingForgotten == Spec => []TrackedUntilSettled
<1>1. IInv => TrackedUntilSettled
  BY DEF IInv, TrackedInv, TrackedUntilSettled, Carried, Polled, WillRequeue
<1> QED
  BY <1>1, Inductive, PTL

\* Whatever is polled has a record, unless storing it failed.
THEOREM StoredBeforePolled == Spec => []RecordBeforePolling
<1>1. IInv => RecordBeforePolling
  BY DEF IInv
<1> QED
  BY <1>1, Inductive, PTL

\* Records with details are in the gas index, or on their way into it.
THEOREM GasIndexComplete == Spec => []GasIndexCoversRecords
<1>1. IInv => GasIndexCoversRecords
  BY DEF IInv, GasIndexInv, GasIndexCoversRecords
<1> QED
  BY <1>1, Inductive, PTL

\* Every record can be reached from the universal set.
THEOREM EveryRecordListed == Spec => []RecordsAreListed
<1>1. IInv => RecordsAreListed
  BY DEF IInv
<1> QED
  BY <1>1, Inductive, PTL

-----------------------------------------------------------------------------
(* What the readers may count on: RecordStore.                             *)

\* What a goroutine is about to save has the details, unless it says dropped.
BufInv ==
  \A c \in Clients, w \in Workers :
    (At(c, w, "save") /\ worker[c][w].verdict # "dropped") => worker[c][w].buf.tx

LEMMA BufKept ==
  ASSUME TypeOK, BufInv, NEW c \in Clients, NEW w \in Workers, NEW s, Become(c, w, s),
         s.phase # "save" \/ s.verdict = "dropped" \/ s.buf.tx
  PROVE  BufInv'
BY DEF TypeOK, BufInv, At, Become

LEMMA GotoKeepsBuf ==
  ASSUME TypeOK, BufInv, NEW c \in Clients, NEW w \in Workers
  PROVE  /\ \A p : Goto(c, w, p) /\ p # "save" => BufInv'
         /\ \A v : Decide(c, w, v) => BufInv'
         /\ Finish(c, w) => BufInv'
         /\ AfterUpdate(c, w) => BufInv'
<1>1. worker[c][w] \in Slot  BY DEF TypeOK
<1>2. ASSUME NEW p, p # "save", Goto(c, w, p) PROVE BufInv'
  BY <1>1, <1>2, BufKept DEF Goto, Slot
<1>3. ASSUME NEW v, Decide(c, w, v) PROVE BufInv'
  BY <1>1, <1>3, BufKept DEF Decide, Slot
<1>4. Finish(c, w) => BufInv'
  BY BufKept DEF Finish, Idle
<1>5. AfterUpdate(c, w) => BufInv'
  BY <1>2, <1>4 DEF AfterUpdate
<1> QED  BY <1>2, <1>3, <1>4, <1>5

LEMMA LoadKeepsBuf ==
  ASSUME IInv, BufInv, NEW c \in Clients, NEW w \in Workers, Load(c, w)
  PROVE  BufInv'
<1> DEFINE old == worker[c][w]
           rec == recs[c][old.hash]
           s == [old EXCEPT !.phase = "save", !.buf = Updated(rec, old.verdict)]
<1>1. TypeOK /\ old \in Slot /\ rec \in Record
  BY BusySlot DEF Load, At, TypeOK
<1>2. CASE AfterUpdate(c, w)  BY <1>1, <1>2, GotoKeepsBuf
<1>3. CASE Become(c, w, s)
  <2>1. s.verdict = old.verdict /\ s.buf = Updated(rec, old.verdict)
    BY <1>1 DEF Slot
  <2>2. s.verdict = "dropped" \/ s.buf.tx
    BY <1>1, <2>1 DEF Updated, Record
  <2> HIDE DEF s
  <2> QED  BY <1>1, <1>3, <2>2, BufKept
<1> QED  BY <1>2, <1>3 DEF Load

LEMMA BufStep == IInv /\ BufInv /\ [Next]_vars => BufInv'
<1> SUFFICES ASSUME IInv, BufInv, [Next]_vars PROVE BufInv'
  OBVIOUS
<1>1. TypeOK  BY DEF IInv
<1>2. ASSUME UNCHANGED worker PROVE BufInv'
  BY <1>2 DEF BufInv, At
<1>3. ASSUME NEW c \in Clients, NEW w \in Workers, Spawn(c, w) PROVE BufInv'
  <2> DEFINE s == [Idle EXCEPT !.phase = "receipt", !.hash = held[c]]
  <2>1. s.phase # "save"  BY DEF Idle
  <2>2. Become(c, w, s)  BY <1>3 DEF Spawn
  <2> HIDE DEF s
  <2> QED  BY <1>1, <2>1, <2>2, BufKept
<1>4. ASSUME NEW c \in Clients, NEW w \in Workers, WorkerStep(c, w) PROVE BufInv'
  BY <1>1, <1>4, GotoKeepsBuf, LoadKeepsBuf
  DEF WorkerStep, AskReceipt, FetchMined, FetchGone, Lookup, Save, Index, Requeue
<1>5. ASSUME NEW c \in Clients, NEW w \in Workers, WorkerFault(c, w) PROVE BufInv'
  BY <1>1, <1>5, GotoKeepsBuf
  DEF WorkerFault, ReceiptNotIndexed, ReceiptFails, FetchFails, LookupFails, UpdateFails,
      SaveLost, IndexFails, RequeueFails, Hang
<1>6. ASSUME NEW c \in Clients, \/ Environment(c) \/ BrokerStep(c) \/ BrokerFault(c)
                                \/ Pop(c) \/ PopLost(c)
      PROVE  UNCHANGED worker
  BY <1>6 DEF Environment, Announce, Mine, Evict, Reorg, Move, SendGarbage, BrokerStep, Listen, Receive,
              List, Store, Push, BrokerFault, StreamEnds, ListFails, StoreFails, PushFails,
              Pop, PopLost
<1> QED
  BY <1>2, <1>3, <1>4, <1>5, <1>6 DEF Next, vars

\* What the readers see of the records.
Seen == [c \in Clients |-> [h \in Hashes |->
          [status |-> recs[c][h].status, tx |-> recs[c][h].tx]]]

LEMMA SeenPut ==
  ASSUME TypeOK, NEW c \in Clients, NEW h \in Hashes, NEW rec,
         recs' = [recs EXCEPT ![c][h] = rec]
  PROVE  Seen' = [Seen EXCEPT ![c][h] = [status |-> rec.status, tx |-> rec.tx]]
BY DEF TypeOK, Seen

LEMMA ReadersStep == IInv /\ BufInv /\ [Next]_vars => [Shared!Next]_(Shared!storeVars)
<1> SUFFICES ASSUME IInv, BufInv, [Next]_vars
             PROVE  Shared!Next \/ UNCHANGED Shared!storeVars
  OBVIOUS
<1>1. TypeOK  BY DEF IInv
<1>2. UNCHANGED <<universal, recs>> => UNCHANGED Shared!storeVars
  BY DEF Shared!storeVars
<1>3. ASSUME NEW c \in Clients, List(c) PROVE Shared!Next \/ UNCHANGED Shared!storeVars
  <2> DEFINE h == broker[c].hash
  <2>1. h \in Hashes /\ broker[c].stamp \in Nat
    BY <1>1, <1>3 DEF IInv, BrokerInv, List, BrokerAt, TypeOK, BrokerState
  <2>2. CASE universal[h] = NoTime
    <3>1. /\ universal' = [universal EXCEPT ![h] = broker[c].stamp]
          /\ universal'[h] = broker[c].stamp
          /\ Seen' = Seen
      BY <1>1, <1>3, <2>1, <2>2 DEF List, TypeOK, Seen
    <3>2. Shared!List(h, universal'[h])
      BY <2>1, <2>2, <3>1 DEF Shared!List, Shared!NoTime, NoTime, Seen
    <3> QED  BY <2>1, <3>2 DEF Shared!Next
  <2>3. CASE universal[h] # NoTime
    BY <1>1, <1>2, <1>3, <2>1, <2>3 DEF List, TypeOK
  <2> QED  BY <2>2, <2>3
<1>4. ASSUME NEW c \in Clients, Store(c) PROVE Shared!Next
  <2>1. PICK h \in Hashes : h = broker[c].hash
    BY <1>4 DEF IInv, BrokerInv, Store, BrokerAt
  <2>2. Seen' = [Seen EXCEPT ![c][h] = [status |-> "received", tx |-> FALSE]]
    BY <1>1, <1>4, <2>1, SeenPut DEF Store, Received
  <2>3. Shared!Store(c, h)
    BY <1>4, <2>2 DEF Store, Shared!Store, Shared!Put, Seen
  <2> QED  BY <2>3 DEF Shared!Next
<1>5. ASSUME NEW c \in Clients, NEW w \in Workers, Save(c, w) \/ SaveLost(c, w)
      PROVE  Shared!Next
  <2> DEFINE slot == worker[c][w]
  <2>1. slot \in Slot /\ slot.hash \in Hashes /\ SlotInv(c, slot) /\ slot.phase = "save"
    BY <1>5, BusySlot DEF Save, SaveLost, At
  <2>2. PICK h \in Hashes, s \in Shared!Statuses \ {"received"}, tx \in BOOLEAN :
          h = slot.hash /\ s = slot.buf.status /\ tx = slot.buf.tx
    BY <2>1 DEF SlotInv, Slot, Record, Verdicts, Terminal, Shared!Statuses
  <2>3. recs[c][h].status # "none" /\ (s # "dropped" => tx)
    BY <1>5, <2>1, <2>2 DEF SlotInv, BufInv, Save, SaveLost
  <2>4. Seen' = [Seen EXCEPT ![c][h] = [status |-> s, tx |-> tx]]
    BY <1>1, <1>5, <2>1, <2>2, SeenPut DEF Save, SaveLost
  <2>5. Shared!Update(c, h, s, tx)
    BY <1>5, <2>3, <2>4 DEF Save, SaveLost, Shared!Update, Shared!Put, Seen
  <2> QED  BY <2>5 DEF Shared!Next
<1>6. ASSUME NEW c \in Clients,
             \/ Environment(c) \/ Listen(c) \/ Receive(c) \/ Push(c) \/ BrokerFault(c)
             \/ Pop(c) \/ PopLost(c)
      PROVE  UNCHANGED <<universal, recs>>
  BY <1>6 DEF Environment, Announce, Mine, Evict, Reorg, Move, SendGarbage, Listen, Receive, Push,
              BrokerFault, StreamEnds, ListFails, StoreFails, PushFails, Pop, PopLost
<1>7. ASSUME NEW c \in Clients, NEW w \in Workers,
             \/ Spawn(c, w) \/ AskReceipt(c, w) \/ FetchMined(c, w) \/ FetchGone(c, w)
             \/ Lookup(c, w) \/ Load(c, w) \/ Index(c, w) \/ Requeue(c, w)
             \/ ReceiptNotIndexed(c, w) \/ ReceiptFails(c, w) \/ FetchFails(c, w)
             \/ LookupFails(c, w) \/ UpdateFails(c, w) \/ IndexFails(c, w)
             \/ RequeueFails(c, w) \/ Hang(c, w)
      PROVE  UNCHANGED <<universal, recs>>
  BY <1>7 DEF Spawn, AskReceipt, FetchMined, FetchGone, Lookup, Load, Index, Requeue,
              ReceiptNotIndexed, ReceiptFails, FetchFails, LookupFails, UpdateFails,
              IndexFails, RequeueFails, Hang
<1> QED
  BY <1>2, <1>3, <1>4, <1>5, <1>6, <1>7 DEF Next, BrokerStep, WorkerStep, WorkerFault, vars

\* The pipelines of any number of clients do to the universal set and the
\* records only what RecordStore allows, which is what Query assumes.
THEOREM StoreImplemented == Spec => ImplementsStore
<1>1. Init => BufInv /\ Shared!Init
  BY DEF Init, BufInv, At, Idle, NoRecord, Shared!Init, Shared!NoTime, NoTime
<1> QED
  BY <1>1, Inductive, BufStep, ReadersStep, PTL DEF Spec, ImplementsStore, Shared!Spec
=============================================================================
