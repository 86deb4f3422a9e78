----------------------------- MODULE TxPipeline -----------------------------
(***************************************************************************)
(* How one transaction announced by an execution client becomes, and       *)
(* stays, a record in Redis (internal/transactions, internal/storage).     *)
(*                                                                         *)
(* Every client has its own pipeline:                                      *)
(*                                                                         *)
(*   node --wire--> broker --RPush--> queue --LPop--> loop --> workers     *)
(*                    |                 ^                        |         *)
(*                    +--> recs[c] <----|---- HGet / HSet -------+         *)
(*                                      +------- RPush ----------+         *)
(*                                                                         *)
(* The broker (streamEndpoint) stores a "received" record and queues the   *)
(* hash.  The loop (processEndpointQueue) pops one hash per tick and hands *)
(* it to a goroutine; a goroutine (processTransaction) asks the node about *)
(* the hash, rewrites the record in two separate Redis commands and puts   *)
(* the hash back unless the transaction is mined or dropped.  Every action *)
(* below is one Redis command or one RPC, so that all interleavings of the *)
(* goroutines of a client are behaviours of the specification.             *)
(***************************************************************************)
EXTENDS Integers, FiniteSets, SequencesExt

CONSTANTS
  Clients,      \* the configured endpoints
  Hashes,       \* transaction hashes
  Workers,      \* the slots of the semaphore; maxConcurrent = 1000 in the code
  NoHash,       \* "no transaction in hand"
  Garbage,      \* a websocket message that is not valid JSON
  MaxAnnounce,  \* bound: announcements of one hash by one client
  MaxFaults,    \* bound: failing RPCs, Redis commands and messages
  MaxTime       \* bound: seconds of the wall clock

ASSUME ConstantsAssumption ==
  /\ NoHash \notin Hashes
  /\ Garbage \notin Hashes \cup {NoHash}
  /\ MaxAnnounce \in Nat
  /\ MaxFaults \in Nat
  /\ MaxTime \in Nat

ASSUME WorkersAssumption == IsFiniteSet(Workers)

VARIABLES
  now,          \* time.Now().Unix(), shared by all goroutines
  node,         \* where each client's node has each hash
  past,         \* history: where it has had it since it announced it
  wire,         \* websocket messages sent by the node and not read yet
  announced,    \* history: the times at which the node announced a hash
  broker,       \* streamEndpoint of each client
  universal,    \* txpool:universal, the ZSET of first detection times
  queue,        \* txpool:<client>:stream, a Redis list
  held,         \* the hash the loop has popped and not handed over yet
  worker,       \* the goroutines of processTransaction
  recs,         \* txpool:<client>:meta, the record of each hash
  gasIndex,     \* txpool:<client>:index:gas
  lost,         \* history: what an error path of the code gave up on
  faults        \* number of faults so far

nodeVars == <<now, node, past, wire, announced>>
vars == <<now, node, past, wire, announced, broker, universal, queue, held, worker,
          recs, gasIndex, lost, faults>>

-----------------------------------------------------------------------------
(* Records                                                                 *)

Open     == {"received", "pending", "queued"}   \* still to be polled
Terminal == {"mined", "dropped"}
NoTime   == -1

\* A stored transaction: its status, the detection time, and whether the
\* details (sender, nonce, gas price, type) have been filled in.
Record   == [status : {"none"} \cup Open \cup Terminal,
             received : Nat \cup {NoTime}, tx : BOOLEAN]
NoRecord == [status |-> "none", received |-> NoTime, tx |-> FALSE]
Received(t) == [status |-> "received", received |-> t, tx |-> FALSE]

\* The four updateFn closures: each sets the status; all but the one for a
\* dropped transaction also fill in the details.
Updated(rec, verdict) ==
  [rec EXCEPT !.status = verdict,
              !.tx = IF verdict = "dropped" THEN @ ELSE TRUE]

\* What can be given up on: a queue entry, a record, an entry of the
\* universal set, an index entry.
LossKinds == {"entry", "record", "listing", "index"}
Lose(c, kind, h) == lost' = [lost EXCEPT ![c][kind] = @ \cup {h}]

\* Every fault takes one unit of the budget.
Fault == faults < MaxFaults /\ faults' = faults + 1

-----------------------------------------------------------------------------
(* Goroutines                                                              *)

RpcPhases == {"receipt", "fetch", "lookup"}
Phases == RpcPhases \cup {"idle", "load", "save", "index", "requeue", "hung"}
Idle == [phase |-> "idle", hash |-> NoHash, verdict |-> "none", buf |-> NoRecord]

Verdicts == {"none", "pending", "queued"} \cup Terminal
Slot == [phase : Phases, hash : Hashes \cup {NoHash}, verdict : Verdicts, buf : Record]

At(c, w, p)     == worker[c][w].phase = p
Become(c, w, s) == worker' = [worker EXCEPT ![c][w] = s]
Goto(c, w, p)   == Become(c, w, [worker[c][w] EXCEPT !.phase = p])
\* Faulty variant: the goroutine ends without <-sem.
FinishHoldingSlot(c, w) == Become(c, w, [Idle EXCEPT !.phase = "hung"])
Finish(c, w)    == Become(c, w, Idle)
Decide(c, w, v) == Become(c, w, [worker[c][w] EXCEPT !.phase = "load", !.verdict = v])

\* Faulty variant: whatever has been updated is requeued.
AfterUpdateRequeue(c, w) == Goto(c, w, "requeue")

\* A pending or queued transaction goes back to the queue after the update,
\* whether the update succeeded or not; a mined or dropped one does not.
AfterUpdate(c, w) ==
  IF worker[c][w].verdict \in {"pending", "queued"}
  THEN Goto(c, w, "requeue")
  ELSE Finish(c, w)

-----------------------------------------------------------------------------
Init ==
  /\ now = 0
  /\ node = [c \in Clients |-> [h \in Hashes |-> "absent"]]
  /\ past = [c \in Clients |-> [h \in Hashes |-> {}]]
  /\ wire = [c \in Clients |-> <<>>]
  /\ announced = [c \in Clients |-> [h \in Hashes |-> <<>>]]
  /\ broker = [c \in Clients |-> [phase |-> "top", hash |-> NoHash, stamp |-> 0]]
  /\ universal = [h \in Hashes |-> NoTime]
  /\ queue = [c \in Clients |-> <<>>]
  /\ held = [c \in Clients |-> NoHash]
  /\ worker = [c \in Clients |-> [w \in Workers |-> Idle]]
  /\ recs = [c \in Clients |-> [h \in Hashes |-> NoRecord]]
  /\ gasIndex = [c \in Clients |-> {}]
  /\ lost = [c \in Clients |-> [k \in LossKinds |-> {}]]
  /\ faults = 0

-----------------------------------------------------------------------------
(* The environment: the execution clients, and the wall clock.  Time passes *)
(* between any two steps; the clock moves when it is looked at, by a node   *)
(* that announces a transaction or by streamEndpoint.                       *)

NodeStates == {"absent", "pool", "mined"}

\* The transaction enters the pool of c's node, which notifies subscribers.
Announce(c, h) ==
  /\ node[c][h] = "absent"
  /\ Len(announced[c][h]) < MaxAnnounce
  /\ node' = [node EXCEPT ![c][h] = "pool"]
  /\ wire' = [wire EXCEPT ![c] = Append(@, h)]
  /\ \E t \in now .. MaxTime :
       /\ now' = t
       /\ announced' = [announced EXCEPT ![c][h] = Append(@, t)]
  /\ UNCHANGED <<past, broker, universal, queue, held, worker, recs, gasIndex,
                 lost, faults>>

\* Subscribers hear of nothing else that happens to the transaction.
Move(c, h, s) ==
  /\ node' = [node EXCEPT ![c][h] = s]
  /\ past' = [past EXCEPT ![c][h] = IF announced[c][h] = <<>> THEN @ ELSE @ \cup {s}]
  /\ UNCHANGED <<now, wire, announced, broker, universal, queue, held, worker,
                 recs, gasIndex, lost, faults>>

\* The node imports a block that contains the transaction, whether or not the
\* transaction has been in its pool.
Mine(c, h) ==
  /\ node[c][h] # "mined"
  /\ Move(c, h, "mined")

Evict(c, h) ==
  /\ node[c][h] = "pool"
  /\ Move(c, h, "absent")

\* The block is replaced by one without the transaction, which goes back to
\* the pool or is gone.
Reorg(c, h) ==
  /\ node[c][h] = "mined"
  /\ \E s \in {"pool", "absent"} : Move(c, h, s)

SendGarbage(c) ==
  /\ Fault
  /\ wire' = [wire EXCEPT ![c] = Append(@, Garbage)]
  /\ UNCHANGED <<now, node, past, announced, broker, universal, queue, held, worker,
                 recs, gasIndex, lost>>

Environment(c) ==
  \/ \E h \in Hashes : Announce(c, h) \/ Mine(c, h) \/ Evict(c, h) \/ Reorg(c, h)
  \/ SendGarbage(c)

-----------------------------------------------------------------------------
(* streamEndpoint                                                          *)

BrokerState == [phase : {"top", "reading", "list", "store", "push", "ended"},
                hash : Hashes \cup {NoHash}, stamp : Nat]

BrokerAt(c, p) == broker[c].phase = p
BrokerGoto(c, p) == broker' = [broker EXCEPT ![c].phase = p]

\* The head of the loop: the clock is sampled, then conn.Read blocks.
Listen(c) ==
  /\ BrokerAt(c, "top")
  /\ \E t \in now .. MaxTime :
       /\ now' = t
       /\ broker' = [broker EXCEPT ![c] = [phase |-> "reading", hash |-> NoHash, stamp |-> t]]
  /\ UNCHANGED <<node, past, wire, announced, universal, queue, held, worker, recs, gasIndex, lost, faults>>

Receive(c) ==
  /\ BrokerAt(c, "reading")
  /\ wire[c] # <<>>
  /\ wire' = [wire EXCEPT ![c] = Tail(@)]
  /\ IF Head(wire[c]) = Garbage
     THEN BrokerGoto(c, "top")
     ELSE broker' = [broker EXCEPT ![c].phase = "list", ![c].hash = Head(wire[c])]
  /\ UNCHANGED <<now, node, past, announced, universal, queue, held, worker, recs,
                 gasIndex, lost, faults>>

\* A read error ends the goroutine; nothing dials again.
StreamEnds(c) ==
  /\ BrokerAt(c, "reading")
  /\ Fault
  /\ BrokerGoto(c, "ended")
  /\ UNCHANGED <<nodeVars, universal, queue, held, worker, recs, gasIndex, lost>>

\* Faulty variant: ZADD XX.
ListExisting(c) ==
  /\ BrokerAt(c, "list")
  /\ universal' = [universal EXCEPT ![broker[c].hash] =
                     IF @ = NoTime THEN @ ELSE broker[c].stamp]
  /\ BrokerGoto(c, "store")
  /\ UNCHANGED <<nodeVars, queue, held, worker, recs, gasIndex, lost, faults>>

\* ZADD NX on the universal set; its error is not looked at.
List(c) ==
  /\ BrokerAt(c, "list")
  /\ universal' = [universal EXCEPT ![broker[c].hash] =
                     IF @ = NoTime THEN broker[c].stamp ELSE @]
  /\ BrokerGoto(c, "store")
  /\ UNCHANGED <<nodeVars, queue, held, worker, recs, gasIndex, lost, faults>>

ListFails(c) ==
  /\ BrokerAt(c, "list")
  /\ Fault
  /\ Lose(c, "listing", broker[c].hash)
  /\ BrokerGoto(c, "store")
  /\ UNCHANGED <<nodeVars, universal, queue, held, worker, recs, gasIndex>>

\* StoreTransaction overwrites whatever record there is.
Store(c) ==
  /\ BrokerAt(c, "store")
  /\ recs' = [recs EXCEPT ![c][broker[c].hash] = Received(broker[c].stamp)]
  /\ BrokerGoto(c, "push")
  /\ UNCHANGED <<nodeVars, universal, queue, held, worker, gasIndex, lost, faults>>

StoreFails(c) ==
  /\ BrokerAt(c, "store")
  /\ Fault
  /\ Lose(c, "record", broker[c].hash)
  /\ BrokerGoto(c, "push")
  /\ UNCHANGED <<nodeVars, universal, queue, held, worker, recs, gasIndex>>

Push(c) ==
  /\ BrokerAt(c, "push")
  /\ queue' = [queue EXCEPT ![c] = Append(@, broker[c].hash)]
  /\ BrokerGoto(c, "top")
  /\ UNCHANGED <<nodeVars, universal, held, worker, recs, gasIndex, lost, faults>>

PushFails(c) ==
  /\ BrokerAt(c, "push")
  /\ Fault
  /\ Lose(c, "entry", broker[c].hash)
  /\ BrokerGoto(c, "top")
  /\ UNCHANGED <<nodeVars, universal, queue, held, worker, recs, gasIndex>>

BrokerStep(c) == Listen(c) \/ Receive(c) \/ List(c) \/ Store(c) \/ Push(c)
BrokerFault(c) == StreamEnds(c) \/ ListFails(c) \/ StoreFails(c) \/ PushFails(c)

-----------------------------------------------------------------------------
(* processEndpointQueue                                                    *)

\* One tick: LPOP one entry.  The loop does not tick again before the entry
\* has been handed to a goroutine.
Pop(c) ==
  /\ held[c] = NoHash
  /\ queue[c] # <<>>
  /\ held' = [held EXCEPT ![c] = Head(queue[c])]
  /\ queue' = [queue EXCEPT ![c] = Tail(@)]
  /\ UNCHANGED <<nodeVars, broker, universal, worker, recs, gasIndex, lost, faults>>

\* The reply of the LPOP is an error although Redis has executed it.
PopLost(c) ==
  /\ held[c] = NoHash
  /\ queue[c] # <<>>
  /\ Fault
  /\ Lose(c, "entry", Head(queue[c]))
  /\ queue' = [queue EXCEPT ![c] = Tail(@)]
  /\ UNCHANGED <<nodeVars, broker, universal, held, worker, recs, gasIndex>>

\* Faulty variant: the popped hash is handed over and kept.
SpawnTwice(c, w) ==
  /\ held[c] # NoHash
  /\ At(c, w, "idle")
  /\ Become(c, w, [Idle EXCEPT !.phase = "receipt", !.hash = held[c]])
  /\ UNCHANGED <<nodeVars, broker, universal, queue, held, recs, gasIndex, lost, faults>>

\* sem <- struct{}{} and the go statement.
Spawn(c, w) ==
  /\ held[c] # NoHash
  /\ At(c, w, "idle")
  /\ Become(c, w, [Idle EXCEPT !.phase = "receipt", !.hash = held[c]])
  /\ held' = [held EXCEPT ![c] = NoHash]
  /\ UNCHANGED <<nodeVars, broker, universal, queue, recs, gasIndex, lost, faults>>

-----------------------------------------------------------------------------
(* processTransaction                                                      *)

\* TransactionReceipt: an answer means mined, an error means anything else.
AskReceipt(c, w) ==
  /\ At(c, w, "receipt")
  /\ Goto(c, w, IF node[c][worker[c][w].hash] = "mined" THEN "fetch" ELSE "lookup")
  /\ UNCHANGED <<nodeVars, broker, universal, queue, held, recs, gasIndex, lost, faults>>

\* Faulty variant: the return after the requeueing is missing.
RequeueAndGoOn(c, w) ==
  /\ At(c, w, "receipt")
  /\ Fault
  /\ queue' = [queue EXCEPT ![c] = Append(@, worker[c][w].hash)]
  /\ Goto(c, w, "lookup")
  /\ UNCHANGED <<nodeVars, broker, universal, held, recs, gasIndex, lost>>

\* "transaction indexing is in progress": requeue and look at nothing else.
ReceiptNotIndexed(c, w) ==
  /\ At(c, w, "receipt")
  /\ Fault
  /\ Goto(c, w, "requeue")
  /\ UNCHANGED <<nodeVars, broker, universal, queue, held, recs, gasIndex, lost>>

\* Any other error is taken for "no receipt".
ReceiptFails(c, w) ==
  /\ At(c, w, "receipt")
  /\ Fault
  /\ Goto(c, w, "lookup")
  /\ UNCHANGED <<nodeVars, broker, universal, queue, held, recs, gasIndex, lost>>

\* TransactionByHash and BlockByNumber of a transaction that has a receipt.
\* Both answer after a reorganisation too, as long as the node knows the
\* transaction and has some block of that number.
FetchMined(c, w) ==
  /\ At(c, w, "fetch")
  /\ node[c][worker[c][w].hash] # "absent"
  /\ Decide(c, w, "mined")
  /\ UNCHANGED <<nodeVars, broker, universal, queue, held, recs, gasIndex, lost, faults>>

\* The block has gone since the receipt, and with it the transaction or the
\* last block of that number: NotFound, which here ends the polling.
FetchGone(c, w) ==
  /\ At(c, w, "fetch")
  /\ node[c][worker[c][w].hash] # "mined"
  /\ Lose(c, "entry", worker[c][w].hash)
  /\ Finish(c, w)
  /\ UNCHANGED <<nodeVars, broker, universal, queue, held, recs, gasIndex, faults>>

FetchFails(c, w) ==
  /\ At(c, w, "fetch")
  /\ Fault
  /\ Lose(c, "entry", worker[c][w].hash)
  /\ Finish(c, w)
  /\ UNCHANGED <<nodeVars, broker, universal, queue, held, recs, gasIndex>>

\* Faulty variant: what has left the pool has been dropped.
NotInPoolIsDropped(c, h) ==
  IF node[c][h] = "pool" THEN {"pending", "queued"} ELSE {"dropped"}

\* TransactionByHash: NotFound means dropped.  A transaction that is in a
\* block is not pending, which the code reads as queued; of one in the pool
\* the node may say either.
LookupVerdicts(c, h) ==
  CASE node[c][h] = "absent" -> {"dropped"}
    [] node[c][h] = "pool"   -> {"pending", "queued"}
    [] OTHER                 -> {"queued"}

Lookup(c, w) ==
  /\ At(c, w, "lookup")
  /\ \E v \in LookupVerdicts(c, worker[c][w].hash) : Decide(c, w, v)
  /\ UNCHANGED <<nodeVars, broker, universal, queue, held, recs, gasIndex, lost, faults>>

LookupFails(c, w) ==
  /\ At(c, w, "lookup")
  /\ Fault
  /\ Lose(c, "entry", worker[c][w].hash)
  /\ Finish(c, w)
  /\ UNCHANGED <<nodeVars, broker, universal, queue, held, recs, gasIndex>>

\* Faulty variant: a record that is missing is created by the update.
LoadUpsert(c, w) ==
  /\ At(c, w, "load")
  /\ Become(c, w, [worker[c][w] EXCEPT !.phase = "save",
       !.buf = Updated(recs[c][worker[c][w].hash], worker[c][w].verdict)])
  /\ UNCHANGED <<nodeVars, broker, universal, queue, held, recs, gasIndex, lost, faults>>

\* updateStoredTx, first half: HGET and the closure.  No record, no update.
Load(c, w) ==
  /\ At(c, w, "load")
  /\ LET rec == recs[c][worker[c][w].hash] IN
       IF rec.status = "none"
       THEN AfterUpdate(c, w)
       ELSE Become(c, w, [worker[c][w] EXCEPT !.phase = "save",
                                              !.buf = Updated(rec, worker[c][w].verdict)])
  /\ UNCHANGED <<nodeVars, broker, universal, queue, held, recs, gasIndex, lost, faults>>

\* Faulty variant: the record of a dropped transaction is deleted.
SaveOrDelete(c, w) ==
  /\ At(c, w, "save")
  /\ LET slot == worker[c][w] IN
       recs' = [recs EXCEPT ![c][slot.hash] =
                  IF slot.verdict = "dropped" THEN NoRecord ELSE slot.buf]
  /\ Goto(c, w, "index")
  /\ UNCHANGED <<nodeVars, broker, universal, queue, held, gasIndex, lost, faults>>

\* updateStoredTx, second half: HSET of the whole record read before.
Save(c, w) ==
  /\ At(c, w, "save")
  /\ recs' = [recs EXCEPT ![c][worker[c][w].hash] = worker[c][w].buf]
  /\ Goto(c, w, "index")
  /\ UNCHANGED <<nodeVars, broker, universal, queue, held, gasIndex, lost, faults>>

\* Faulty variant: a failed update returns before the requeueing.
UpdateFailsReturn(c, w) ==
  /\ At(c, w, "load") \/ At(c, w, "save")
  /\ Fault
  /\ Finish(c, w)
  /\ UNCHANGED <<nodeVars, broker, universal, queue, held, recs, gasIndex, lost>>

\* updateStoredTx returns an error: the update is forgotten, and with it the
\* transaction unless it is requeued below.
UpdateFails(c, w) ==
  /\ At(c, w, "load") \/ At(c, w, "save")
  /\ Fault
  /\ IF worker[c][w].verdict \in Terminal
     THEN Lose(c, "entry", worker[c][w].hash)
     ELSE UNCHANGED lost
  /\ AfterUpdate(c, w)
  /\ UNCHANGED <<nodeVars, broker, universal, queue, held, recs, gasIndex>>

\* HSET is executed but its reply is lost: updateStoredTx returns an error
\* and leaves out addToIndexes.
SaveLost(c, w) ==
  /\ At(c, w, "save")
  /\ Fault
  /\ recs' = [recs EXCEPT ![c][worker[c][w].hash] = worker[c][w].buf]
  /\ Lose(c, "index", worker[c][w].hash)
  /\ AfterUpdate(c, w)
  /\ UNCHANGED <<nodeVars, broker, universal, queue, held, gasIndex>>

\* Faulty variant: only mined transactions get into the gas index.
IndexMinedOnly(c, w) ==
  /\ At(c, w, "index")
  /\ gasIndex' = [gasIndex EXCEPT ![c] =
                    IF worker[c][w].verdict = "mined" THEN @ \cup {worker[c][w].hash} ELSE @]
  /\ AfterUpdate(c, w)
  /\ UNCHANGED <<nodeVars, broker, universal, queue, held, recs, lost, faults>>

\* addToIndexes, the ZADD into the gas index: only once the details are known.
\* The other two indexes are in Filters.
Index(c, w) ==
  /\ At(c, w, "index")
  /\ gasIndex' = [gasIndex EXCEPT ![c] =
                    IF worker[c][w].buf.tx THEN @ \cup {worker[c][w].hash} ELSE @]
  /\ AfterUpdate(c, w)
  /\ UNCHANGED <<nodeVars, broker, universal, queue, held, recs, lost, faults>>

IndexFails(c, w) ==
  /\ At(c, w, "index")
  /\ Fault
  /\ Lose(c, "index", worker[c][w].hash)
  /\ AfterUpdate(c, w)
  /\ UNCHANGED <<nodeVars, broker, universal, queue, held, recs, gasIndex>>

Requeue(c, w) ==
  /\ At(c, w, "requeue")
  /\ queue' = [queue EXCEPT ![c] = Append(@, worker[c][w].hash)]
  /\ Finish(c, w)
  /\ UNCHANGED <<nodeVars, broker, universal, held, recs, gasIndex, lost, faults>>

RequeueFails(c, w) ==
  /\ At(c, w, "requeue")
  /\ Fault
  /\ Lose(c, "entry", worker[c][w].hash)
  /\ Finish(c, w)
  /\ UNCHANGED <<nodeVars, broker, universal, queue, held, recs, gasIndex>>

\* The node never answers.  No RPC has a deadline: the goroutine keeps its
\* slot of the semaphore.
Hang(c, w) ==
  /\ worker[c][w].phase \in RpcPhases
  /\ Fault
  /\ Goto(c, w, "hung")
  /\ UNCHANGED <<nodeVars, broker, universal, queue, held, recs, gasIndex, lost>>

WorkerStep(c, w) ==
  \/ AskReceipt(c, w) \/ FetchMined(c, w) \/ FetchGone(c, w) \/ Lookup(c, w)
  \/ Load(c, w) \/ Save(c, w) \/ Index(c, w) \/ Requeue(c, w)

WorkerFault(c, w) ==
  \/ ReceiptNotIndexed(c, w) \/ ReceiptFails(c, w) \/ FetchFails(c, w)
  \/ LookupFails(c, w) \/ UpdateFails(c, w) \/ SaveLost(c, w) \/ IndexFails(c, w)
  \/ RequeueFails(c, w) \/ Hang(c, w)

-----------------------------------------------------------------------------
Next == \E c \in Clients :
  \/ Environment(c)
  \/ BrokerStep(c) \/ BrokerFault(c)
  \/ Pop(c) \/ PopLost(c)
  \/ \E w \in Workers : Spawn(c, w) \/ WorkerStep(c, w) \/ WorkerFault(c, w)

Spec == Init /\ [][Next]_vars

\* The goroutines are scheduled and the ticker ticks; neither faults nor the
\* environment have to happen.
Fairness ==
  \A c \in Clients :
    /\ WF_vars(BrokerStep(c))
    /\ WF_vars(Pop(c))
    /\ WF_vars(\E w \in Workers : Spawn(c, w))
    /\ \A w \in Workers : WF_vars(WorkerStep(c, w))

FairSpec == Spec /\ Fairness

-----------------------------------------------------------------------------
(* Properties                                                              *)

TypeOK ==
  /\ now \in 0 .. MaxTime
  /\ node \in [Clients -> [Hashes -> NodeStates]]
  /\ past \in [Clients -> [Hashes -> SUBSET NodeStates]]
  /\ wire \in [Clients -> Seq(Hashes \cup {Garbage})]
  /\ announced \in [Clients -> [Hashes -> Seq(Nat)]]
  /\ broker \in [Clients -> BrokerState]
  /\ universal \in [Hashes -> Nat \cup {NoTime}]
  /\ queue \in [Clients -> Seq(Hashes)]
  /\ held \in [Clients -> Hashes \cup {NoHash}]
  /\ worker \in [Clients -> [Workers -> Slot]]
  /\ recs \in [Clients -> [Hashes -> Record]]
  /\ gasIndex \in [Clients -> SUBSET Hashes]
  /\ lost \in [Clients -> [LossKinds -> SUBSET Hashes]]
  /\ faults \in 0 .. MaxFaults

\* Who has the duty to look at h again: the broker that is about to queue
\* it, a queue entry, the loop, or a goroutine.
BrokerHas(c, h) == broker[c].phase \in {"list", "store", "push"} /\ broker[c].hash = h
WorkerHas(c, w, h) == worker[c][w].phase # "idle" /\ worker[c][w].hash = h
Polled(c, h) ==
  \/ h \in ToSet(queue[c])
  \/ held[c] = h
  \/ \E w \in Workers : WorkerHas(c, w, h)
Carried(c, h) == BrokerHas(c, h) \/ Polled(c, h)

(* No transaction is forgotten: as long as a record says that its           *)
(* transaction is still undecided, somebody will look at it again, unless   *)
(* an error path of the code has dropped the queue entry.  It covers the    *)
(* whole life of an entry, from RPush in streamEndpoint through LPop and    *)
(* the semaphore to the requeueing at the end of processTransaction.        *)
TrackedUntilSettled ==
  \A c \in Clients, h \in Hashes :
    recs[c][h].status \in Open => Carried(c, h) \/ h \in lost[c]["entry"]

(* A hash gets into the queue only after its record has been written, so    *)
(* updateStoredTx finds a record for everything it is asked to update: its  *)
(* redis.Nil branch, which silently gives up the update, is taken only      *)
(* when StoreTransaction has failed.                                        *)
RecordBeforePolling ==
  \A c \in Clients, h \in Hashes :
    Polled(c, h) => recs[c][h].status # "none" \/ h \in lost[c]["record"]

(* A final status was true: a record says "mined" only of a transaction     *)
(* that its client's node has had in a block since it announced it, and     *)
(* "dropped" only of one that the node has lost since then.  A block that   *)
(* comes between the receipt and the lookup must not pass for a loss, nor a *)
(* reorganisation after the receipt for a block; and no failing RPC, no     *)
(* late write of a goroutine and no second announcement may make it up.     *)
WasSo(c, h, status) ==
  /\ status = "mined" => "mined" \in past[c][h]
  /\ status = "dropped" => "absent" \in past[c][h]
FinalWasTrue == \A c \in Clients, h \in Hashes : WasSo(c, h, recs[c][h].status)

(* The number of places that carry h never exceeds the number of times the  *)
(* node has announced it: no path of streamEndpoint or processTransaction   *)
(* queues an entry twice, so the queue cannot grow by itself.               *)
Occurrences(s, h) == Cardinality({i \in DOMAIN s : s[i] = h})
Tokens(c, h) ==
  Occurrences(wire[c], h) + (IF BrokerHas(c, h) THEN 1 ELSE 0)
  + Occurrences(queue[c], h) + (IF held[c] = h THEN 1 ELSE 0)
  + Cardinality({w \in Workers : WorkerHas(c, w, h)})
OnePollerPerAnnouncement ==
  \A c \in Clients, h \in Hashes : Tokens(c, h) <= Len(announced[c][h])

(* Once a record has details and no goroutine is about to index it, the gas *)
(* index has its hash, unless the ZADD has failed or was never sent because *)
(* the reply to the HSET before it was lost.                                *)
GasIndexCoversRecords ==
  \A c \in Clients, h \in Hashes :
    recs[c][h].tx =>
      \/ h \in gasIndex[c]
      \/ h \in lost[c]["index"]
      \/ \E w \in Workers : WorkerHas(c, w, h) /\ At(c, w, "index")

(* Every record can be found from the universal set, which is the only way  *)
(* the API enumerates transactions; the set is written before the record.   *)
RecordsAreListed ==
  \A c \in Clients, h \in Hashes :
    recs[c][h].status # "none" => universal[h] # NoTime \/ h \in lost[c]["listing"]

(* types.go: TimeReceived is "When seen in mempool".  Fails: streamEndpoint *)
(* takes the time before it waits for the next message, so a record, and    *)
(* the universal set with it, may have a time at which the node had not     *)
(* announced the transaction yet.                                           *)
ReceivedWhenSeen ==
  \A c \in Clients, h \in Hashes :
    recs[c][h].received # NoTime
    => \E i \in DOMAIN announced[c][h] : announced[c][h][i] <= recs[c][h].received

(* The inductive invariant behind most invariants above.  It adds what a    *)
(* goroutine knows in each phase, and replaces two of the invariants by     *)
(* stronger ones: a goroutine that has written a final status and only has  *)
(* to index it no longer counts as carrying its hash, and one that is about *)
(* to index a record counts only if the record it wrote has the details.    *)
Holds(c, h) == recs[c][h].status # "none" \/ h \in lost[c]["record"]
Listed(c, h) == universal[h] # NoTime \/ h \in lost[c]["listing"]

BrokerInv ==
  \A c \in Clients :
    /\ broker[c].phase \in {"list", "store", "push"} => broker[c].hash \in Hashes
    /\ broker[c].phase \in {"store", "push"} => Listed(c, broker[c].hash)
    /\ broker[c].phase = "push" => Holds(c, broker[c].hash)

SlotInv(c, s) ==
  /\ s.phase # "idle" => s.hash \in Hashes
  /\ s.phase \in {"load", "save", "index"} => s.verdict # "none"
  /\ s.phase \in {"save", "index"} =>
       /\ s.buf.status = s.verdict
       /\ recs[c][s.hash].status # "none"
WorkerInv == \A c \in Clients, w \in Workers : SlotInv(c, worker[c][w])

WillRequeue(c, w, h) ==
  /\ WorkerHas(c, w, h)
  /\ ~(At(c, w, "index") /\ worker[c][w].verdict \in Terminal)
TrackedInv ==
  \A c \in Clients, h \in Hashes :
    recs[c][h].status \in Open =>
      \/ BrokerHas(c, h)
      \/ h \in ToSet(queue[c])
      \/ held[c] = h
      \/ \E w \in Workers : WillRequeue(c, w, h)
      \/ h \in lost[c]["entry"]

GasIndexInv ==
  \A c \in Clients, h \in Hashes :
    recs[c][h].tx =>
      \/ h \in gasIndex[c]
      \/ h \in lost[c]["index"]
      \/ \E w \in Workers : WorkerHas(c, w, h) /\ At(c, w, "index") /\ worker[c][w].buf.tx

IInv ==
  /\ TypeOK
  /\ BrokerInv
  /\ WorkerInv
  /\ TrackedInv
  /\ GasIndexInv
  /\ RecordBeforePolling
  /\ RecordsAreListed

(* The pipeline implements the life cycle of RecordLifecycle as long as no  *)
(* client announces a hash twice: "mined" and "dropped" are final, whatever *)
(* the interleaving of the goroutines and whatever fails.  With a second    *)
(* announcement two goroutines may work on one hash, and the later HSET     *)
(* wins.                                                                    *)
Lifecycle == INSTANCE RecordLifecycle WITH
  status  <- [c \in Clients |-> [h \in Hashes |-> recs[c][h].status]],
  inBlock <- [c \in Clients |-> [h \in Hashes |-> "mined" \in past[c][h]]]
AnnouncedOnce == \A c \in Clients, h \in Hashes : Len(announced[c][h]) <= 1
ImplementsLifecycle ==
  Lifecycle!Init /\ [][AnnouncedOnce' => Lifecycle!Next]_(Lifecycle!vars)

(* StoreTransaction and updateStoredTx overwrite whatever record there is,  *)
(* and nothing in them looks at its status: a final record is written over, *)
(* by whichever of the two, only if its own client announced the hash       *)
(* again, whatever the other clients and hashes do and whatever fails.      *)
FinalUnlessReannounced ==
  [][\A c \in Clients, h \in Hashes :
       recs[c][h].status \in Terminal /\ recs'[c][h] # recs[c][h]
       => Len(announced[c][h]) >= 2]_vars

(* What the readers of the API may count on, with any number of             *)
(* announcements, stale goroutines and failing commands: a hash is listed   *)
(* once, records are never deleted, and only a dropped one or a new         *)
(* announcement can take the details away from a record.                    *)
Shared == INSTANCE RecordStore WITH
  recs <- [c \in Clients |-> [h \in Hashes |->
            [status |-> recs[c][h].status, tx |-> recs[c][h].tx]]]
ImplementsStore == Shared!Spec

(* A hash that is being tracked while its node has it in a block stops      *)
(* being polled, with a record that says mined or dropped (or no record,    *)
(* when storing it failed), or the block is replaced.  Fails for a          *)
(* goroutine that hangs.                                                    *)
Settled(c, h) == ~Carried(c, h) /\ recs[c][h].status \notin Open
MinedIsSettled ==
  \A c \in Clients, h \in Hashes :
    (node[c][h] = "mined" /\ Carried(c, h))
    ~> \/ Settled(c, h)
       \/ node[c][h] # "mined"
       \/ h \in lost[c]["entry"]
       \/ \E w \in Workers : At(c, w, "hung")

(* The loop never waits for the semaphore forever: a popped entry is handed *)
(* to a goroutine and the loop goes back to the queue, as long as fewer     *)
(* RPCs hang than there are slots.                                          *)
LoopKeepsPolling ==
  \A c \in Clients : held[c] # NoHash ~> held[c] = NoHash

=============================================================================
