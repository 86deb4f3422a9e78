------------------------------- MODULE Query -------------------------------
(***************************************************************************)
(* The API queries on transactions (internal/service/transactions.go and   *)
(* diff.go), while the pipelines of the clients go on writing.             *)
(*                                                                         *)
(* GET /transactions takes the latest hashes from the universal set, reads *)
(* the records of each hash from all clients, one goroutine per hash, and  *)
(* then reads the record of the primary client once more for the summary.  *)
(* GET /transaction/:txHash does the first part for one hash.  What the    *)
(* records of a hash have in common and where they differ is computed by   *)
(* Compute from the records that were read, at different times.            *)
(*                                                                         *)
(* The pipelines are represented by RecordStore, which they implement.     *)
(***************************************************************************)
EXTENDS Integers, FiniteSets, Sequences

CONSTANTS
  Clients,     \* the configured endpoints
  Endpoints,   \* the clients in the order of the configuration
  Hashes,      \* transaction hashes, numbers in the order of the strings
  Nil,         \* the value of a field that a map does not have
  MaxTime,     \* bound: detection times
  MaxWrites,   \* bound: changes of records
  MaxFaults    \* bound: failing Redis commands

Statuses == {"received", "pending", "queued", "mined", "dropped"}

ASSUME ConstantsAssumption ==
  /\ Endpoints \in Seq(Clients)
  /\ Len(Endpoints) > 0
  /\ \A i, j \in DOMAIN Endpoints : Endpoints[i] = Endpoints[j] => i = j
  /\ Hashes \subseteq Nat
  /\ Nil \notin {0, 1} /\ Nil \notin Statuses
  /\ {MaxTime, MaxWrites, MaxFaults} \subseteq Nat

VARIABLES
  universal,  \* txpool:universal, the first detection time of each hash
  recs,       \* txpool:<client>:meta
  request,    \* the request that is being answered
  reader,     \* the goroutine of GetTxDetails of each hash; base is the slice that
              \* its append extends
  details,    \* the answers of GetTxDetails: a hash and its records
  pending,    \* the hashes whose summary goroutine has not ended
  summaries,  \* the hashes in the answer of GetLatestTxSummaries
  had,        \* history: the records of the picked hashes that each client has had
              \* since the request came in
  writes,     \* number of changes of records so far
  faults      \* number of faults so far

redisVars == <<universal, recs, writes>>
answerVars == <<request, reader, details, pending, summaries>>
vars == <<universal, recs, request, reader, details, pending, summaries, had,
          writes, faults>>

Primary == Endpoints[1]
NoTime  == -1
Fault == faults < MaxFaults /\ faults' = faults + 1

Record   == [status : {"none"} \cup Statuses, tx : BOOLEAN]
NoRecord == [status |-> "none", tx |-> FALSE]

-----------------------------------------------------------------------------
(* Compute: a map per client from fields to values.                        *)

\* Two fields stand for all: one that every record has, and one that only a
\* record with the details of its transaction has.
TxMap(rec)   == IF rec.tx THEN [nonce |-> 1, gasPrice |-> 1] ELSE [nonce |-> 0]
MetaMap(rec) == [status |-> rec.status]

Value(map, f) == IF f \in DOMAIN map THEN map[f] ELSE Nil

\* Faulty variant: a client that does not have a field is passed over.
DiffOfPresent(all) ==
  {f \in UNION {DOMAIN all[c] : c \in DOMAIN all} :
     \E c, d \in DOMAIN all :
       f \in DOMAIN all[c] /\ f \in DOMAIN all[d] /\ all[c][f] # all[d][f]}

\* diffMaps: the fields that have two values, Nil among them.
DiffFields(all) ==
  {f \in UNION {DOMAIN all[c] : c \in DOMAIN all} :
     \E c, d \in DOMAIN all : Value(all[c], f) # Value(all[d], f)}

\* The common fields are those of the primary client that do not differ;
\* without a record of the primary client there are none.
Compute(all, primary) ==
  LET base == IF primary \in DOMAIN all THEN DOMAIN all[primary] ELSE {}
      diff == DiffFields(all)
  IN [common |-> [f \in base \ diff |-> all[primary][f]],
      diff   |-> [f \in diff |-> [c \in DOMAIN all |-> Value(all[c], f)]]]

\* The records that were found, as maps.
Found(raw)    == {c \in Clients : raw[c].status # "none"}
TxMaps(raw)   == [c \in Found(raw) |-> TxMap(raw[c])]
MetaMaps(raw) == [c \in Found(raw) |-> MetaMap(raw[c])]

-----------------------------------------------------------------------------
NoReader  == [phase |-> "idle", next |-> 1, raw |-> [c \in Clients |-> NoRecord],
              base |-> {}]
NoRequest == [kind |-> "none", phase |-> "idle", picked |-> {}]
NothingSeen == [c \in Clients |-> [h \in Hashes |-> {}]]

Init ==
  /\ universal = [h \in Hashes |-> NoTime]
  /\ recs = [c \in Clients |-> [h \in Hashes |-> NoRecord]]
  /\ request = NoRequest
  /\ reader = [h \in Hashes |-> NoReader]
  /\ details = {}
  /\ pending = {}
  /\ summaries = {}
  /\ had = NothingSeen
  /\ writes = 0
  /\ faults = 0

(* The pipelines of the clients, as the module RecordStore has them.        *)
Shared == INSTANCE RecordStore

Detect(h, t) ==
  /\ Shared!List(h, t)
  /\ UNCHANGED <<answerVars, had, writes, faults>>

CountWrite ==
  /\ writes < MaxWrites
  /\ writes' = writes + 1
  /\ UNCHANGED <<answerVars, faults>>

See(c, h) ==
  had' = IF h \in request.picked THEN [had EXCEPT ![c][h] = @ \cup {recs'[c][h]}] ELSE had

StoreRecord(c, h) == CountWrite /\ Shared!Store(c, h) /\ See(c, h)

UpdateRecord(c, h, s, tx) == CountWrite /\ Shared!Update(c, h, s, tx) /\ See(c, h)

Pipelines ==
  \/ \E h \in Hashes, t \in 0 .. MaxTime : Detect(h, t)
  \/ \E c \in Clients, h \in Hashes :
       \/ StoreRecord(c, h)
       \/ \E s \in Statuses \ {"received"}, tx \in BOOLEAN : UpdateRecord(c, h, s, tx)

-----------------------------------------------------------------------------
(* GetLatestNTransactions and GetTxDetails                                 *)

Listed == {h \in Hashes : universal[h] # NoTime}
\* The order of the universal set: by time, then by hash.
Later(g, h) == universal[g] > universal[h] \/ (universal[g] = universal[h] /\ g > h)
Latest(n) == {h \in Listed : Cardinality({g \in Listed : Later(g, h)}) < n}

Ask(kind, picked) ==
  /\ request.phase = "idle"
  /\ request' = [kind |-> kind, phase |-> "details", picked |-> picked]
  /\ reader' = [h \in Hashes |->
                  IF h \in picked THEN [NoReader EXCEPT !.phase = "read"] ELSE NoReader]
  /\ had' = [c \in Clients |-> [h \in Hashes |-> IF h \in picked THEN {recs[c][h]} ELSE {}]]
  /\ UNCHANGED <<redisVars, details, pending, summaries, faults>>

AskLatest(n) == Ask("list", Latest(n))
AskOne(h)    == Ask("one", {h})

\* ZRANGE fails, and so does the request.
AskFails ==
  /\ request.phase = "idle"
  /\ Fault
  /\ UNCHANGED <<redisVars, answerVars, had>>

\* The next client of the configuration.
NextClient(h) == Endpoints[reader[h].next]
Proceed(h, raw) ==
  reader' = [reader EXCEPT ![h] =
    [phase |-> IF @.next = Len(Endpoints) THEN "append" ELSE "read",
     next |-> @.next + 1, raw |-> raw, base |-> {}]]

\* Faulty variant: every goroutine reads the first client.
ReadPrimary(h) ==
  /\ reader[h].phase = "read"
  /\ Proceed(h, [reader[h].raw EXCEPT ![NextClient(h)] = recs[Primary][h]])
  /\ UNCHANGED <<redisVars, request, details, pending, summaries, had, faults>>

ReadRecord(h) ==
  /\ reader[h].phase = "read"
  /\ Proceed(h, [reader[h].raw EXCEPT ![NextClient(h)] = recs[NextClient(h)][h]])
  /\ UNCHANGED <<redisVars, request, details, pending, summaries, had, faults>>

\* An error of HGET counts as "no record".
ReadFails(h) ==
  /\ reader[h].phase = "read"
  /\ Fault
  /\ Proceed(h, reader[h].raw)
  /\ UNCHANGED <<redisVars, request, details, pending, summaries, had>>

\* append reads the slice that the goroutines share and writes it back longer;
\* mu is held over both.
ReadSlice(h) ==
  /\ reader[h].phase = "append"
  /\ reader' = [reader EXCEPT ![h] =
       [phase |-> "holding", next |-> @.next, raw |-> @.raw, base |-> details]]
  /\ UNCHANGED <<redisVars, request, details, pending, summaries, had, faults>>

\* Faulty variant: the mutex is not taken.
LockNothing(h) == ReadSlice(h)

LockDetails(h) == ReadSlice(h) /\ \A g \in Hashes : reader[g].phase # "holding"

\* Faulty variant: a hash without any record is not answered.
AppendFound(h) ==
  /\ reader[h].phase = "holding"
  /\ details' = IF Found(reader[h].raw) = {} THEN reader[h].base
                ELSE reader[h].base \cup {[hash |-> h, raw |-> reader[h].raw]}
  /\ reader' = [reader EXCEPT ![h] = NoReader]
  /\ UNCHANGED <<redisVars, request, pending, summaries, had, faults>>

\* The only hash of GET /transaction/:txHash is answered without the mutex, which
\* makes no difference to it.
AppendDetails(h) ==
  /\ reader[h].phase = "holding"
  /\ details' = reader[h].base \cup {[hash |-> h, raw |-> reader[h].raw]}
  /\ reader' = [reader EXCEPT ![h] = NoReader]
  /\ UNCHANGED <<redisVars, request, pending, summaries, had, faults>>

\* wg.Wait(): one hash is answered now, a list is summarised first.
DetailsDone ==
  /\ request.phase = "details"
  /\ \A h \in Hashes : reader[h].phase = "idle"
  /\ IF request.kind = "list"
     THEN /\ request' = [request EXCEPT !.phase = "summaries"]
          /\ pending' = {d.hash : d \in details}
     ELSE /\ request' = [request EXCEPT !.phase = "answered"]
          /\ UNCHANGED pending
  /\ UNCHANGED <<redisVars, reader, details, summaries, had, faults>>

-----------------------------------------------------------------------------
(* GetLatestTxSummaries                                                    *)

\* Faulty variant: a record without details has no summary.
SummariseDetailed(h) ==
  /\ h \in pending
  /\ pending' = pending \ {h}
  /\ summaries' = IF recs[Primary][h].tx THEN summaries \cup {h} ELSE summaries
  /\ UNCHANGED <<redisVars, request, reader, details, had, faults>>

\* The record of the primary client, read again; without one there is no
\* summary.
Summarise(h) ==
  /\ h \in pending
  /\ pending' = pending \ {h}
  /\ summaries' = IF recs[Primary][h].status # "none" THEN summaries \cup {h} ELSE summaries
  /\ UNCHANGED <<redisVars, request, reader, details, had, faults>>

SummariseFails(h) ==
  /\ h \in pending
  /\ Fault
  /\ pending' = pending \ {h}
  /\ UNCHANGED <<redisVars, request, reader, details, summaries, had>>

\* Faulty variant: a summary is awaited for every hash.
SummariesDoneComplete ==
  /\ request.phase = "summaries"
  /\ summaries = request.picked
  /\ request' = [request EXCEPT !.phase = "answered"]
  /\ UNCHANGED <<redisVars, reader, details, pending, summaries, had, faults>>

\* wg.Wait(): all have ended, with a summary or without.
SummariesDone ==
  /\ request.phase = "summaries"
  /\ pending = {}
  /\ request' = [request EXCEPT !.phase = "answered"]
  /\ UNCHANGED <<redisVars, reader, details, pending, summaries, had, faults>>

Respond ==
  /\ request.phase = "answered"
  /\ request' = NoRequest
  /\ details' = {}
  /\ summaries' = {}
  /\ had' = NothingSeen
  /\ UNCHANGED <<redisVars, reader, pending, faults>>

-----------------------------------------------------------------------------
ReaderStep(h) == ReadRecord(h) \/ LockDetails(h) \/ AppendDetails(h)
RequestStep == DetailsDone \/ SummariesDone \/ Respond

Next ==
  \/ Pipelines
  \/ \E n \in 1 .. Cardinality(Hashes) : AskLatest(n)
  \/ AskFails
  \/ \E h \in Hashes :
       \/ AskOne(h)
       \/ ReaderStep(h) \/ ReadFails(h)
       \/ Summarise(h) \/ SummariseFails(h)
  \/ RequestStep

Spec == Init /\ [][Next]_vars

\* The goroutines of a request are scheduled, and Redis answers them; the holder
\* of the mutex always gives it back, and each goroutine asks for it once.
Fairness ==
  /\ WF_vars(RequestStep)
  /\ \A h \in Hashes : WF_vars(ReaderStep(h)) /\ WF_vars(Summarise(h))

FairSpec == Spec /\ Fairness

-----------------------------------------------------------------------------
(* Properties                                                              *)

Answer == [hash : Hashes, raw : [Clients -> Record]]
Reader == [phase : {"idle", "read", "append", "holding"}, next : 1 .. Len(Endpoints) + 1,
           raw : [Clients -> Record], base : SUBSET Answer]

TypeOK ==
  /\ universal \in [Hashes -> {NoTime} \cup 0 .. MaxTime]
  /\ recs \in [Clients -> [Hashes -> Record]]
  /\ request \in [kind : {"none", "list", "one"}, picked : SUBSET Hashes,
                  phase : {"idle", "details", "summaries", "answered"}]
  /\ reader \in [Hashes -> Reader]
  /\ \A h \in Hashes : reader[h].phase = "read" => reader[h].next <= Len(Endpoints)
  /\ details \in SUBSET Answer
  /\ pending \in SUBSET Hashes
  /\ summaries \in SUBSET Hashes
  /\ had \in [Clients -> [Hashes -> SUBSET Record]]
  /\ writes \in 0 .. MaxWrites
  /\ faults \in 0 .. MaxFaults

(* The answer has one entry for every hash that was picked and for no       *)
(* other: no append to the shared slice is lost between the goroutines,     *)
(* whatever they read and in whatever order they end.                       *)
OneAnswerPerHash ==
  request.phase \in {"summaries", "answered"} =>
    /\ {d.hash : d \in details} = request.picked
    /\ \A d, e \in details : d.hash = e.hash => d = e

(* Each record in an answer is one that its client has had since the        *)
(* request came in, and a client is without a record in the answer only if  *)
(* it had none then, unless a command has failed: a goroutine reads the     *)
(* hash it was started for, from each client, while records are replaced    *)
(* and updated.                                                             *)
Genuine(rec, c, h) == rec \in had[c][h] \/ (rec = NoRecord /\ faults > 0)
AnswersAreOfTheRequest ==
  \A d \in details, i \in DOMAIN Endpoints :
    Genuine(d.raw[Endpoints[i]], Endpoints[i], d.hash)

(* The list that is answered has a summary of every picked transaction that *)
(* the primary client had a record of when the request came in, although    *)
(* records are replaced and updated meanwhile, unless a command has failed. *)
PrimaryHad == {h \in request.picked : \A r \in had[Primary][h] : r.status # "none"}
SummariesCoverPrimary ==
  (request.phase = "answered" /\ request.kind = "list" /\ faults = 0)
  => PrimaryHad \subseteq summaries

(* The fields that differ are exactly those that the records read do not    *)
(* agree on, one that some record lacks included; every common field has    *)
(* its value in all of them; and with a record of the primary client among  *)
(* them, the fields that all agree on are exactly the common ones.  Of the  *)
(* common fields without such a record nothing is claimed.                  *)
Fields(all) == UNION {DOMAIN all[c] : c \in DOMAIN all}
Agreed(all, f) ==
  /\ \A c \in DOMAIN all : f \in DOMAIN all[c]
  /\ \A c, d \in DOMAIN all : all[c][f] = all[d][f]
Splits(all, primary) ==
  LET result == Compute(all, primary) IN
    /\ DOMAIN result.diff = {f \in Fields(all) : ~Agreed(all, f)}
    /\ \A f \in DOMAIN result.common, c \in DOMAIN all : all[c][f] = result.common[f]
    /\ primary \in DOMAIN all
       => DOMAIN result.common = {f \in Fields(all) : Agreed(all, f)}
AnswersSplitFields ==
  \A d \in details : Splits(TxMaps(d.raw), Primary) /\ Splits(MetaMaps(d.raw), Primary)

(* The inductive invariant: while a request collects details, each picked   *)
(* hash has either a running goroutine, which has read the records of the   *)
(* clients before the next one, or an answer, and at most one goroutine is  *)
(* appending, to the slice as it is; afterwards, each hash that the primary *)
(* client had has a running goroutine or a summary.  Records are replaced   *)
(* and updated, but never deleted, and each is seen.                        *)
Working  == {h \in Hashes : reader[h].phase # "idle"}
Answered == {d.hash : d \in details}
AnsweredOnce == \A d, e \in details : d.hash = e.hash => d = e

CollectInv ==
  /\ AnsweredOnce
  /\ Working \cap Answered = {}
  /\ request.picked = Working \cup Answered
  /\ request.phase # "details" => Working = {}
  /\ request.phase = "idle" => details = {}
  /\ \A g, h \in Working : reader[g].phase = "holding" =>
       reader[g].base = details /\ (reader[h].phase = "holding" => g = h)

ReadInv ==
  /\ \A c \in Clients, h \in request.picked : recs[c][h] \in had[c][h]
  /\ \A h \in Working, i \in DOMAIN Endpoints :
       LET rec == reader[h].raw[Endpoints[i]] IN
         IF i < reader[h].next THEN Genuine(rec, Endpoints[i], h) ELSE rec = NoRecord
  /\ \A h \in Working : reader[h].phase \in {"append", "holding"}
                         => reader[h].next > Len(Endpoints)
  /\ AnswersAreOfTheRequest

SummaryInv ==
  /\ request.phase # "summaries" => pending = {}
  /\ (request.phase \in {"summaries", "answered"} /\ request.kind = "list" /\ faults = 0)
     => PrimaryHad \subseteq pending \cup summaries

IInv == TypeOK /\ CollectInv /\ ReadInv /\ SummaryInv

(* Every request is answered.                                               *)
RequestIsAnswered == request.phase # "idle" ~> request.phase = "idle"

=============================================================================
