# TLA+ models of txpool-viz

This directory holds a formal model of txpool-viz, the tool that watches the
mempools of several Ethereum execution clients: TLA+ modules translated from the
Go code in `src/`, TLC configurations that check them on small instances, and
TLAPS proofs of the properties that matter most.

    tlc -config TxPipeline_reannounce.cfg MCTxPipeline  # one of the runs below
    tlapm TxPipeline_proofs.tla                          # one of the proof modules

## 1. The system

| part | code | state it keeps | operations |
|---|---|---|---|
| mempool streams (broker) | `internal/transactions/broker.go` | one websocket per client; the time sampled before a read | dial, read a message, list the hash, store a record, queue the hash |
| polling (processor) | `internal/transactions/processor.go` | one loop and one semaphore of 1000 slots per client, a goroutine per popped hash | pop, spawn, ask the node, update, requeue |
| storage | `internal/storage/redis_storage.go` | Redis: records and three indexes per client | store, read-modify-write, index; filter and group (no caller) |
| inclusion lists (FOCIL) | `internal/focil/processor.go` | Redis: scores, lists, reports; a stream per beacon node, a listener per client, a goroutine per block | receive a list, score it, store it, compare a block with it |
| controller, services | `internal/controller/controller.go`, `internal/service/service.go`, `cmd/main.go` | the context, the wait group, the HTTP server, the signal channel | start, flush Redis, serve, shut down |
| API queries | `internal/service/transactions.go`, `diff.go`, `internal/controller/handler` | nothing beyond a request | latest transactions, details of one |
| inclusion report query | `internal/service/inclusion_lists.go` | nothing | read all reports, sort them; tell whether FOCIL is enabled |
| logger | `internal/logger/logger.go` | the fields of each logger; one pool of maps for all of them | derive a logger, log, release |
| configuration, utils, model, routes | `internal/config`, `utils`, `internal/model`, `internal/controller/routes` | the configuration | load, key names, types, paths |
| frontend | `frontend/` | what the views have fetched | fetch and show |

How they interact:

* Everything meets in **Redis**. A stream lists a hash in `txpool:universal`
  (ZADD NX), writes its record into `txpool:<client>:meta`, and pushes it on
  `txpool:<client>:stream`. The polling loop of the client pops it, asks the node,
  rewrites the record (HGET, change, HSET, index) and pushes the hash again until
  the transaction is mined or dropped. Queries read the universal set and the
  records while all this goes on. There is no transaction and no WATCH anywhere:
  each command is atomic by itself, and nothing longer is.
* The **context** is the only way a goroutine is told to stop, and the **wait
  group** the only way `Serve` learns that it has. The streams, the server, the
  starter and the FOCIL service are counted; polling loops, transaction goroutines
  and the streams inside the FOCIL service are not.
* The **node** decides: a transaction moves from its pool into a block, back when the
  block is replaced, or out of the pool, at any moment between two RPCs, and may be
  announced again.
* A **beacon node** sends inclusion lists for slots; the list of slot *n-1* is
  compared with the block of number *n*.

What is hard here: several goroutines that rewrite one record; sequences of Redis
commands whose errors are partly ignored; a destructive pop before the work;
a bounded semaphore and RPCs without a deadline; values sampled before a blocking
call and used after it; a start-up that runs concurrently with signal handling; a
shutdown that waits for a counter that goroutines are still adding to; channels whose
other end may have gone; indexes that are written after the record, by whoever comes
last; maps that go from one logger to another through a pool. The list
with a line for each is `hazards` in `PROJECT.json`.

## 2. The modules

| module | what it is | code |
|---|---|---|
| `TxPipeline` | the life of a transaction in one process: streams, polling loop, goroutines, storage, and the node as their environment | broker, processor, storage (writes) |
| `RecordLifecycle` | the abstract specification: what a client's record of a transaction may do | the statuses, and the four updates |
| `RecordStore` | the abstract specification of what the pipelines of all clients do to the keys the API reads; `TxPipeline` implements it and `Query` assumes it | storage (writes), the stream's ZADD NX |
| `TxPipeline_proofs` | theorems about `TxPipeline` | |
| `TxLifecycle_proofs` | theorems about `TxPipeline` that rest on counting carriers | |
| `Focil` | what beacon streams, block listeners and block goroutines do to Redis, and the query that reads the reports | FOCIL processor, inclusion report query |
| `InclusionLog` | the abstract specification of what the FOCIL goroutines do together to the lists and reports that the API reads; `Focil` implements it | FOCIL processor (the two stores) |
| `Focil_proofs` | theorems about `Focil` | |
| `FocilStreams` | the same goroutines as processes: channels, wait group, cancellation | FOCIL processor |
| `FocilStreams_proofs` | theorems about `FocilStreams` | |
| `Filters` | the three indexes of a client, filters and groups | storage, filter criteria |
| `Filters_proofs` | theorems about `Filters` | |
| `Logger` | the fields of loggers and the pool they share | logger |
| `Logger_proofs` | theorems about `Logger` | |
| `Controller` | the life of the process: start, signal, shutdown, crash, restart | main, controller, services, the goroutines' ends |
| `Controller_proofs` | theorems about `Controller` | |
| `Query` | the API requests, concurrent with writes | transaction service, diff, handlers |
| `Query_proofs` | theorems about `Query` | |
| `MC*` | values and symmetry for TLC | |

The parts are separate modules because they share only Redis keys that the others
do not write, or share them in one direction: `Query` reads what `TxPipeline`
writes. What it may find there is the module `RecordStore`: a hash is listed once; a
record is stored, updated if it is there, and never deleted; only "dropped" can leave
it without details. `TxPipeline` implements `RecordStore` (`ImplementsStore`: checked
by a run, and proved), and the pipelines are a step of `RecordStore` in `Query`, so
that the two compose without a hand-written summary between them. `Controller`
abstracts from what a stream stores to whose process the data is; `FocilStreams` from
what the handlers do to Redis, which `Focil` has, and `Focil` from how its goroutines
end.

### TxPipeline

State: `node` (where each client's node has each hash: nowhere, in the pool, in a block),
`wire` (announcements on the websocket), `broker` (where each stream is, with the sampled
time), Redis (`universal`, `recs`, `queue`, `gasIndex`), `held` (the entry the loop has
popped and waits to spawn), `worker` (the goroutines, as slots of the semaphore), the
clock, and history variables for what an error path has lost (`lost`), when a hash was
announced (`announced`) and where the node has had it since (`past`). `Announce`, `Mine`,
`Evict` and `Reorg` are the node: a block may be replaced at any moment, by one without the
transaction, which is then back in the pool or gone. The clock moves when somebody looks at
it, by any amount, so that no step of its own is needed for the time that passes.

The actions follow the code command by command: `Listen` samples the clock *before*
`Receive` takes a message; `List`, `Store`, `Push` are the three commands of a stream; `Pop`
and `Spawn` are the loop; a goroutine goes through `AskReceipt`, then `FetchMined`,
`ReceiptNotIndexed` or `Lookup`, then `Load`, `Save`, `Index` and, unless the verdict is
final, `Requeue`. Every command has a failing variant that does what its error path does:
`ListFails` goes on, `ReceiptFails` falls through to the lookup, `FetchFails` drops the
entry, `UpdateFails` goes on to requeue only where the code does. `FetchGone` is the same
error path without a fault: the block has been replaced since the receipt, and the RPCs find
nothing. `SaveLost` is an HSET that Redis executes and whose reply does not come: the record
has changed, `updateStoredTx` returns an error, and `addToIndexes` is left out. `Hang` is an
RPC that is never answered; it exists because `polling.timeout` is configured and not used.

`FinalWasTrue` is what a final status means under all this: the node has had the transaction
in a block, or has been without it, since it announced it. It is a property of the past
because the code takes the receipt and writes the record in different steps, and never looks
at a mined transaction again: that the block is still there is not promised by anything.

A record is a status, the time it was received and whether it has the details of
its transaction; the other fields change with these. Entries of the queue are
hashes. Of the three indexes the gas index is modelled here: it is the only one whose
entry waits for the details. `Filters` has all three with their scores.

`RecordLifecycle` has one step per status change (`Detect`, `Observe`, `Confirm`)
and the environment's `Include`; mined and dropped are final, and mined only after an
inclusion. `ImplementsLifecycle` states that the pipeline implements it, with the identity
on records and "has been in a block since its announcement" as the mapping. It holds of every
step before some hash is announced a second time, which sets even a mined transaction
back to received. What is left after that is `FinalUnlessReannounced`: a final record is
written over only if its own client has announced the hash again, whatever the other
clients do.

### Focil

State: the `stream` of each beacon node (idle, scoring, storing), `score` and
`lists` per slot, `chain` per client, the `jobs` (one goroutine per new head, each
at fetch, read or write), `reports` per number. `Score` is ZADD GT with its real
reply, the number of members *added*. `Compare` splits a list into what the block
contains of it and what it misses. `GetInclusionLists` is the query of the API, and the
property of the reports is stated of its answer.

`InclusionLog` is what a reader may count on: `Publish` gives a slot a list if it has none or
a shorter one, which is what the comment at `processor.go:176` wants; `See` is a client that
gets a block; `File` files, in one step, the split of a list that the slot has had by a block
that has been seen. `ImplementsLog` states that `Focil` implements it, with the identity on
lists and reports: the score is raised by one command and the list stored by another, and
still no shorter list takes the place of a longer one; a job reads its block and its list at
different times, and still splits one list by one block. The log does not ask that a longer
list does replace a shorter one, nor that none ever does. In the code as it is none does:
`ListsAreFinal` proves it, and `Focil_count` shows what becomes of the score. Were the ZADD
mended (`CH`), `ListsAreFinal` would fail, and the two commands of two streams would have to
be shown not to cross.

`ReportIsOfItsSlotWithoutGaps` is what is true of the slots of the reports: the report of a
number is about the slot of that number until a slot goes without a block (`NoSlotSkipped`),
and `Focil_slots` shows that it is not afterwards. `NewHead` announces the next block, a
competing one of another client, or one that replaces the last.

### FocilStreams

State: for each beacon node the goroutine in `SubscribeRaw` (`sub`: subscribed, in
its callback with an event, reporting its result, ended), the loop of
`streamBeaconUrl` (`loop`) and how many results the channel `errs` holds; for each
client the `listener`, its wait group `wg`, and the number of `blocks` goroutines.
`Deliver` is the rendezvous on the channel `events`, which has no buffer; `Report` the
send on `errs`, which has room for one. The selects are nondeterministic: `DropEvent`,
`LoopSeesCancel` and `LoopSeesError` compete with `Deliver` as in Go. `BlockReturns` does
not count `wg` down, because `processBlock` does not; hence `ListenerEnds` after a
first header never happens, and `ShutdownEndsGoroutines` says exactly that. Two safety
properties are the core of the liveness: `NobodyIsAbandoned` (whoever waits has somebody
left to wait for) and `HeaderKeepsListener` (a listener with a header never returns).

### Filters

State: the details of each transaction (fixed by its hash), whether a record has them
(`recs`), the goroutines that have saved a record and not indexed it yet (`worker`, with the
commands they have left), and the scores in the three sorted sets (`index`). `Save` is the
HSET of `updateStoredTx`, `ZAdd` one command of the pipeline of `addToIndexes`: a pipeline is
no transaction, so the commands of two goroutines mix. `IndexFails` is a pipeline that stops
after any of its commands. A copy of the record without details has no gas command
(`Commands`), but it has zeros for the other two indexes. `Int64` keeps the low 64 bits of a
price and `Float` rounds what a float64 cannot hold; 2^63 and 2^53 are constants, so that TLC
can put prices on both sides of each boundary. `matchesFilter` and `getGroupKey` are
operators translated branch by branch: a price that is not known passes, a nonce bound of 0
is none, a pattern is the set of addresses it matches.

`GasRangesAgree` compares a range of the gas index with a filter, which reads the records and
does not truncate: for prices up to 2^53 the two find the same transactions as soon as the
updates are indexed. `LastUpdateIsIndexed` is the same for the other two indexes, which are
weaker: a copy without details writes zeros into them. The history variables `failed` and
`crossed` say when that may last: until the next update of the hash that no other crosses.

### Logger

State: the map of each logger (`fields`), what a map holds (`contents`: for each key
the logger that was made with it), the shared `pool`, and the `call` of each goroutine.
A call of `WithFields` takes four steps: `Get` from the pool, `Copy` under the read
lock, `Make`, and `Return`, which releases the map *of the logger it was called on*.
`ReleaseMap` may be called by anybody at any time. History variables record the
lineage of a logger. `FieldsNeverChange` is what is left of the immutability of
`logger.go:147`: between two moments a logger logs the same fields, or it has lost its map
and logs none from then on.

### Controller

State: where `main` is, the signal `handler`, `cancelled`, the counter `wg`, each
goroutine (`http`, `starter`, `stream`, `loop`, `focil`), the `requests` in flight,
the number of the process (`start`) and the processes of which `redis` holds keys.
`Load` and `Initialize` are the two set-ups that each empty Redis; `StartHttp`,
`StartStreams`, `StartFocil` are the three `wg.Add(1)` of `Serve`; `StartStream` is
the `wg.Add(1)` of `transactions.Stream`. `DialFails` ends the process: the
connection is nil and its deferred `Close` panics. `Signal` is received if the
handler has called `signal.Notify`, and kills the process otherwise. `Die` ends all
goroutines and keeps Redis; `Start` begins the next process on it. `WaitIsForSomebody` is
the core of the liveness of a shutdown: while `Serve` is in `wg.Wait` with a counter above
zero, a goroutine that is counted runs and its context is cancelled.

### Query

State: the universal set and the records (changed by the steps of `RecordStore`), the
`request`, one `reader` per hash (the goroutine that runs `GetTxDetails`, with the client it
reads next, what it has read, and the slice as it has found it), the `details` collected so
far, the `pending` summary goroutines and the `summaries`. An append to the shared slice is
two steps under the mutex: `LockDetails` reads the slice, `AppendDetails` writes it back
with the answer, so that without the mutex an answer would be lost. `Compute` is translated
as an operator: the fields that have two values among the records, with a missing field as
`Nil`, and the fields of the primary client that are not among them. Two fields of a
transaction and one of its metadata stand for all: one that is always there, one that comes
with the details, and the status. There is one request at a time: requests only read Redis,
so others would change nothing that this one sees. The history variable `had` keeps, for
each hash that has been picked and each client, the records that the client has had since
the request came in: `AnswersAreOfTheRequest` says that every record in an answer is one of
those of its own client, or missing because the client had none for a moment or a command
failed. `Splits` is the reference that `AnswersSplitFields` compares an answer with: a field
differs exactly if the records that were read do not agree on it, one that lacks it
included; a common field has its value in all of them; and with a record of the primary
client among them the common fields are exactly the others. Of an answer without that record
it claims nothing more (see the end of section 3).

## 3. The runs

Bounds are constants of the modules (`Max...`) and appear only in guards.

| run | instance | what it shows |
|---|---|---|
| `TxPipeline_reannounce` | 1 client, 1 hash announced twice, 2 slots, 1 fault, blocks that come and go | the safety properties of the pipeline and the inductive invariant, with two goroutines on one record; a final status was true; final records stay; the pipeline implements `RecordStore` and, until the second announcement, `RecordLifecycle`; what is mined stops being polled, and the loop keeps polling |
| `Focil_lists` | 2 beacon nodes, 2 lists of up to 2 transactions, 1 client, 2 blocks, 1 fault | answers of the query are splits of the stored list; a scored slot has its list; the goroutines implement `InclusionLog`; the inductive invariant; a block with a list gets its report |
| `FocilStreams_life` | 2 beacon nodes with 2 events, 1 client with 2 headers, a shutdown at any time | no event is lost before a shutdown; no goroutine of a beacon node waits for one that is gone; the inductive invariant; the subscriptions are never stuck; after a shutdown everything ends but the listeners that have had a block |
| `Controller_life` | 2 clients, 1 request, 2 processes, 2 faults | nothing counted runs at the end; a process keeps its data; the inductive invariant; a received signal ends the process |
| `Query_requests` | 2 hashes, 2 clients, 3 writes, 1 fault | one answer per hash, although all append to one slice; the records in it are of their clients and of the time of the request; summaries cover what the primary had; answers split their fields; the inductive invariant; every request is answered |
| `Filters_lookup` | 2 hashes with any details, 2 goroutines, 3 updates, prices that a float64 holds, that it rounds, or that wrap around | ranges of the gas index find what filters find; the other two indexes have the last update, unless updates have crossed; a gas filter hides nothing within its bounds; groups and filters agree; the inductive invariant |
| `Logger_fields` | 3 derived loggers, 2 goroutines, 4 maps | a logger logs its own field and none of a stranger, and what it logs does not change; the inductive invariant, in which a map has one owner and comes empty out of the pool |

Why the bounds are enough to be interesting: two announcements of one hash give two
goroutines on one record, which is what a lost update needs (the time, which the properties
of this run do not look at, stands still in it); two slots give a loop that waits for one of
them; two beacon nodes and two lists give every order of the two commands; two blocks of one
client, the second of which may replace the first, give two goroutines on one report; two
processes give the data of an earlier one; two writes during a request change a record
between two reads of it; two events of a beacon node put one in the callback while the loop
handles the other; two updates of one record give the later save the earlier indexing, and a
third one comes after both; two calls on one logger race for its map, which a third logger
can get. A fault may hit any command. The safety properties do not depend on the bounds:
they are proved for all values (section 5).

Deadlock is checked for `Query`, where another request can always come. It is off in
the other runs, where announcements, events and starts are bounded and the system
comes to rest when they are used up.

Five more runs state what a comment, a document or a log line says, and TLC finds
a behaviour of the code against it (`findings` in `PROJECT.json`):

| run | text | what the code does |
|---|---|---|
| `TxPipeline_timeout` | `README.md:69` `timeout: 5s` | the timeout is never used; unanswered RPCs stop the polling |
| `TxPipeline_stamps` | `types.go:87` "When seen in mempool" | the time is taken before the wait for the message, and can lie before the announcement |
| `Focil_count` | `focil/processor.go:176` | ZADD GT replies 0 for an update, so a longer list raises the score and is not stored |
| `Focil_slots` | `focil/processor.go:325` "under slot field" | reports are stored under the block number |
| `Controller_graceful` | `controller.go:51` "Graceful shutdown" | a signal while a stream dials ends in a panic |

More that the models show and no property forbids:

* Without a record of the primary client an answer has no common fields (`Compute`),
  although `diff.go:9` calls them "fields identical across clients": fields on which the
  other clients agree are then in neither part.
* A transaction whose block is replaced after its record says mined keeps the status mined
  (`Reorg` after `Save`; nothing polls it any more), and one whose block goes between the
  receipt and the two RPCs after it is dropped from the queue, with an open record
  (`FetchGone`).
* A transaction that is dropped and then mined without a new announcement keeps the
  status dropped (`processor.go:148`; `RecordLifecycle` says so).
* The polling loops may still run when `Serve` logs that all services have been shut
  down (`LoopEnds` is not counted).
* Keys of an earlier process remain if both FLUSHALLs fail (`Flush`).
* A listener that has had a block never returns (`ListenerEnds` needs a `wg` of 0), and
  keeps its subscription, since `sub.Unsubscribe` is deferred behind `wg.Wait`.
* Deriving a logger takes its fields from the logger it is derived from (`Return`).
* An update with details that is crossed by one without can leave zeros in the nonce and
  type indexes, until the next update that runs alone (`LastUpdateIsIndexed`).
* The score of a gas price beyond 2^53 is rounded, and beyond 2^63 it is another number,
  while a filter compares the price itself; prices of 2^64 and more share a group with small
  ones. `GasRangesAgree` and `GroupsRefineFilters` are stated for prices that fit.
* A bound on the nonce hides a record without details, whose nonce is 0
  (`matchesFilter`); a bound on the gas price does not.

`PROJECT.json` also names, for each property of each passing run, a faulty variant of one
definition (a missing `wg.Done`, an update that is an upsert, a diff that passes over
missing fields, a map that is put back uncleared) under which the property is violated. The
variants are in the modules, marked "Faulty variant", and no specification uses them.

## 4. Fairness

Weak fairness only, on the steps the Go scheduler and the libraries give:

* `TxPipeline`: a stream that has a message goes on, the ticker of the loop fires, a
  goroutine with a slot goes on. No fairness is assumed of a fault or of the node. An
  RPC may hang (`Hang` counts as a fault): with fewer faults than slots
  the loop keeps polling, with as many it does not (`TxPipeline_timeout`). Redis
  commands end because the client library has read and write timeouts by default.
* `Focil`: Redis and the node answer, or the call counts as failed, and then nothing
  is promised for that block.
* `FocilStreams`: a goroutine that can go on does. Weak fairness is enough although Go
  selects at random: an event or a header that wins against the cancelled context is
  one of finitely many here, and with real ones the select takes the other branch in
  the end. Nothing makes a shutdown happen, an event come or, before it, a connection
  fail.
* `Controller`: goroutines are scheduled, a call under a cancelled context returns,
  requests in flight are answered (every command they wait for has a timeout). A
  message, the end of a dial or a signal need not come.
* `Query`: goroutines of a request are scheduled and Redis answers, with a result
  or an error. Writes need not happen.

## 5. What is proved

All theorems hold for any values of the constants, under the named assumption of
each module (sets are finite where they are counted, bounds are natural numbers,
the values that stand for "nothing" are not among the real ones).

**TxPipeline_proofs.** `Inductive`: `Spec => []IInv`. The safety properties are not
inductive. That a hash is not forgotten needs, for each place the hash can be in
(the stream between store and push, the queue, the loop's hand, a goroutine), to
know that the step out of it leads to the next; a goroutine that is about to index a
final verdict no longer counts as a carrier, so `TrackedInv` speaks of `WillRequeue`.
From it follow `TypeCorrect`, `NothingForgotten`,
`StoredBeforePolled`, `GasIndexComplete`, `EveryRecordListed`, and
`StoreImplemented`: `Spec => ImplementsStore`, a step simulation in which a goroutine's
`Save` maps to an `Update` because what it has read was a record, records are never
deleted, and only a verdict without details says dropped.

**TxLifecycle_proofs.** `OnePoller` proves `OnePollerPerAnnouncement`: `Flow` says by how
much a step changes what each place holds (wire, stream, queue, the loop's hand,
goroutines), one lemma per action, and no step adds more than it announces. Counting the
goroutines needs `WorkersAssumption`: the slots of the semaphore are finite. A hash that has
been announced once then has one carrier at most (`BrokerAlone`, `WorkerAlone`), which makes
`LifeInv` inductive: once there is a record, its announcement has passed `StoreTransaction`,
and once the record is final only the goroutine that wrote it has the hash, to index it.
From it `LifecycleImplemented`: `Spec => ImplementsLifecycle`, in which `Store` maps to
`Detect`, `Save` to `Observe` or `Confirm`, and `Mine` to `Include`. `FinalStatusIsTrue`
proves `FinalWasTrue`, with any number of announcements. It needs what a goroutine carries:
one that fetches a receipt's block, or is about to save "mined" or "dropped", has seen its
node in that state since the announcement (`InformedInv`), and what is carried has been
announced, so that `past` has it (`PastInv`); the three together are `TruthInv`, and it is
inductive. `FinalRecordsStay` (an action property) is the same invariant used the other way:
while a client has announced a hash once, a final record has left `StoreTransaction` behind,
and the one goroutine that still has the hash has saved its verdict.

**Focil_proofs.** `IInv` adds that at most one stream is about to store the list of a
slot, the one whose ZADD added the member, and that only while no list is stored.
From it: `ListsAreFinal` (an action property), `ReportsAreSplits`,
`ScoredSlotsAreStored`, `ScoresBoundLists`, and `LogImplemented`: `Spec => ImplementsLog`.
The simulation needs what a job has written down to be still true when it writes the report:
the block has been seen under its number, and the list it has read is one that the slot has
had. `ReportsAreOfTheirSlots` adds that each report is of a number that some chain has
reached (`ReportedIsMined`), so that without gaps its slot has a block.

**FocilStreams_proofs.** `IInv` joins three conservation laws: every event is with the
callback, the loop or the handler (`NoEventLost`), `wg` is the number of headers and never
less than the number of goroutines (`WaitInv`), and the result of a subscription is in
`errs` until the loop has gone (`ResultInv`). From it `EventsAreKept`, `BeaconsGoOn` (no
goroutine of a beacon node waits for one that is gone) and `ListenersAreKept` (a listener
that has had a header never returns, for any number of headers: the missing `wg.Done` of
`processBlock` as a theorem).

**Filters_proofs.** `IndexInv` says, of each hash and index, that the score is that of the
details, or that its last command has failed, or that somebody is about to bring it
(`Covered`): for the gas index always, since no copy without details has a gas command, and
for the other two while no updates have crossed. `WorkerInv` adds that goroutines on one
hash that have not crossed all carry the same copy, the one that is stored. Each `ZAdd`
takes one command from what is to come and makes it a score. From it `GasIndexIsRight` and
`LastUpdateCounts`. `GasFilterIsComplete` and `GroupsAndFiltersAgree` hold of every
reachable state, for any prices, nonces, addresses and types: two records with one group key
have the same part for each attribute that is grouped by, and the truncated price determines
the price when it fits.

**Logger_proofs.** `IInv` adds to the three properties that what a call has copied into
its map is of the lineage of the logger it was made on. A map that is released twice is
excluded by `fields` being nil after the first time, under the write lock.
`FieldsStay` (an action property) uses that the map of a logger is nobody else's: the steps
that write into a map write into the one their call has taken from the pool.

**Controller_proofs.** `IInv` states that the counter equals the number of counted
goroutines that have not ended (`WaitGroupCounts`, with the cardinality of the set
of running streams), that nothing runs before `main` starts it, and that no stream
runs before the starter does: hence `wg.Wait` cannot return while `Stream` still
has to call `wg.Add`. `CountedGoroutinesEnd` follows because a sum of natural numbers
is zero only if each is, and `NobodyIsMissed` because one that is not has a part that is
not. `OwnDataSurvives` rests on `DataInv`: what Redis holds is
never of the present process until both set-ups are over.

**Query_proofs.** `ComputeSplits` proves for any maps without `Nil` among their values that
`Compute` is its reference: the differing fields are exactly those that two maps disagree on
or one lacks (`DiffIsDisagreement`), the common ones exactly the others, if the primary
client has a record. `AnswersSplit` applies it to what the goroutines have read.
`AnswersAreGenuine` needs `ReadInv`: what a goroutine has read so far is of the clients it
has passed, each record one that its client has had since the request came in, and what it
has not read is empty; a write adds to the history and takes nothing from it, so the records
that have been read stay genuine (`GenuineStays`). `IInv` states that each picked hash has
either a working goroutine or one answer (`CollectInv`), and that each of them that the
primary had is pending or summarised (`SummaryInv`), which uses that records are never
deleted. From it: `AnswersAreComplete`, `SummariesAreComplete`.

Only model-checked: the liveness properties (`MinedIsSettled`, `LoopKeepsPolling`,
`BlockGetsReport`, `SubscriberIsNeverStuck`, `ShutdownEndsGoroutines`, `SignalEndsProcess`,
`RequestIsAnswered`), since fairness and ENABLED are beyond the prover, and the violations,
which TLC refutes. Of two of them the safety core is proved, that nobody waits for
what cannot come any more: `BeaconsGoOn`, `NobodyIsMissed`. Every other
property of a passing run is a theorem.

## 6. What is not modelled, and why

* Routes and the frontend keep no state that anything depends on. The relational
  storage is an empty file.
* `monitorQueueSize` only logs the length of a queue.
* Output of the logger: levels, formatting, the rolling file, and `WithContext`, which
  returns nil. Of `logEvent` only the logger's own fields are modelled.
* Parsing of queue entries (`<endpoint>:<hash>`, split at the colon, so that an endpoint
  name with a colon would break them), of configuration values (an interval that cannot
  be parsed makes `time.NewTicker` panic) and of JSON, except that a message may be
  garbage.
* Field contents in the pipeline and in the queries: addresses, values, signatures. A
  field is there or not, and differs or not. `Filters` has the fields that filters,
  groups and indexes look at.
* The client library's own retries of a command, which could push one entry twice, and the
  lost reply of a command whose result the code does not look at, or only logs: it is
  executed, which is the same to the code as success (the two ZADDs, RPUSH,
  `StoreTransaction`).
* Records that cannot be parsed: `updateStoredTx` and `GetTxDetails` return early for them,
  but all records in the keys have been written by the program itself.
* The wider gaps between floats beyond 2^54: `Float` rounds to even numbers only.
* `GasPriceRanges` and `NonceRanges` of `GroupingCriteria` are not read by the code, and
  `GroupByNonceRange` groups by the exact nonce, as `getGroupKey` does here.
* The order of an answer: reports are sorted by number, filtered transactions come in
  the order of a Go map, that is in none.
* Filters, groups, the indexes and the derived loggers have no caller in the repository.
  They are modelled as exported operations that anybody may call at any time.

## 7. The plan

1. Done: the pipeline with two abstract specifications, the life cycle and the store; FOCIL
   in Redis, with the log as its abstract specification, and as goroutines; the controller;
   the queries on the store; filters, groups and indexes; the logger; the theorems of
   section 5.
2. Open: the safety core of the remaining liveness properties (`RequestIsAnswered`,
   `MinedIsSettled`, `LoopKeepsPolling`, `BlockGetsReport`): in each state that is not the
   goal, an action that leads on. `FocilStreams` is no refinement of `Focil`: it leaves out
   what the handlers do to Redis, so that a mapping would have to invent it. Also open: the
   parsing of queue entries, should endpoint names ever come from anything but the
   configuration file.
3. Out of reach: proofs of liveness (section 5).
