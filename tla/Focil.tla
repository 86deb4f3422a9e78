------------------------------- MODULE Focil -------------------------------
(***************************************************************************)
(* The inclusion lists of FOCIL (internal/focil/processor.go): lists come  *)
(* in from the beacon nodes, blocks from the execution clients, and a      *)
(* report says which transactions of a list made it into a block.          *)
(*                                                                         *)
(*   beacon --SSE--> stream --ZADD GT--> score                             *)
(*                     +------HSET-----> lists --HGET--+                   *)
(*   node --newHeads--> listener --go--> job --------->+--HSET--> reports  *)
(*                                                                         *)
(* There is one stream goroutine per beacon node and one job goroutine per *)
(* block header; they share nothing but Redis, and every action below is   *)
(* one Redis command, one RPC or one event.                                *)
(***************************************************************************)
EXTENDS Integers, FiniteSets, Sequences

CONSTANTS
  Beacons,    \* the configured beacon nodes
  Endpoints,  \* the configured execution clients
  Txs,        \* transactions
  MaxSlot,    \* bound: slots, and with them block numbers
  MaxEvents,  \* bound: inclusion list events
  MaxHeads,   \* bound: block headers
  MaxFaults   \* bound: failing Redis commands, RPCs and streams

ASSUME ConstantsAssumption ==
  /\ IsFiniteSet(Txs)
  /\ {MaxSlot, MaxEvents, MaxHeads, MaxFaults} \subseteq Nat

VARIABLES
  stream,   \* streamBeaconUrl of each beacon node
  score,    \* txpool:inclusion:score, the size of the longest list of a slot
  lists,    \* txpool:inclusion:txns
  chain,    \* what each client's node has as block 1, block 2, ...
  jobs,     \* the goroutines of processBlock, in the order of their headers
  reports,  \* txpool:inclusion:report
  published, \* history: all the lists a slot has had
  seen,     \* history: all the blocks any node has had under a number
  failed,   \* history: <<"list", slot>> and <<"report", number>> given up on
  events,   \* number of inclusion list events so far
  faults    \* number of faults so far

vars == <<stream, score, lists, chain, jobs, reports, published, seen, failed, events,
          faults>>

Slots   == 0 .. MaxSlot
Numbers == 1 .. MaxSlot
NoScore == -1

Stream == [phase : {"idle", "score", "store", "ended"}, slot : Slots, txs : SUBSET Txs]
Job    == [phase : {"fetch", "read", "write", "done"}, endpoint : Endpoints,
           number : Numbers, block : SUBSET Txs, list : SUBSET Txs]
Block  == [slot : Slots, txs : SUBSET Txs]

\* The hashes of Redis: a field that is absent is not stored.
List   == [stored : BOOLEAN, txs : SUBSET Txs]
Report == [stored : BOOLEAN, included : SUBSET Txs, missing : SUBSET Txs]
Compare(list, block) ==
  [stored |-> TRUE, included |-> list \cap block, missing |-> list \ block]

Fault == faults < MaxFaults /\ faults' = faults + 1
GiveUp(kind, key) == failed' = failed \cup {<<kind, key>>}

Init ==
  /\ stream = [b \in Beacons |-> [phase |-> "idle", slot |-> 0, txs |-> {}]]
  /\ score = [s \in Slots |-> NoScore]
  /\ lists = [s \in Slots |-> [stored |-> FALSE, txs |-> {}]]
  /\ chain = [e \in Endpoints |-> <<>>]
  /\ jobs = <<>>
  /\ reports = [n \in Numbers |-> [stored |-> FALSE, included |-> {}, missing |-> {}]]
  /\ published = [s \in Slots |-> {}]
  /\ seen = [n \in Numbers |-> {}]
  /\ failed = {}
  /\ events = 0
  /\ faults = 0

-----------------------------------------------------------------------------
(* streamBeaconUrl and handleInclusionListMessage                          *)

StreamAt(b, p)   == stream[b].phase = p
StreamGoto(b, p) == stream' = [stream EXCEPT ![b].phase = p]

\* An event of the topic inclusion_list.  What the committee members of a
\* slot propose differs; transactions that cannot be decoded are left out.
\* Events that carry no slot, those of the topic block among them, and data
\* that is not JSON change nothing.
ReceiveList(b, s, txs) ==
  /\ StreamAt(b, "idle")
  /\ events < MaxEvents
  /\ events' = events + 1
  /\ stream' = [stream EXCEPT ![b] = [phase |-> "score", slot |-> s, txs |-> txs]]
  /\ UNCHANGED <<score, lists, chain, jobs, reports, published, seen, failed, faults>>

\* Faulty variants: the reply is not looked at, and an empty list is scored
\* without being stored.
ScoreUnchecked(b) ==
  /\ StreamAt(b, "score")
  /\ LET s == stream[b].slot
         n == Cardinality(stream[b].txs) IN
       score' = [score EXCEPT ![s] = IF n > @ THEN n ELSE @]
  /\ StreamGoto(b, "store")
  /\ UNCHANGED <<lists, chain, jobs, reports, published, seen, failed, events, faults>>

ScoreNonEmpty(b) ==
  /\ StreamAt(b, "score")
  /\ LET s == stream[b].slot
         n == Cardinality(stream[b].txs) IN
       /\ score' = [score EXCEPT ![s] = IF n > @ THEN n ELSE @]
       /\ StreamGoto(b, IF score[s] = NoScore /\ n > 0 THEN "store" ELSE "idle")
  /\ UNCHANGED <<lists, chain, jobs, reports, published, seen, failed, events, faults>>

\* ZADD GT: a greater score replaces a smaller one, but without CH the reply
\* counts new members only, and only then is the list stored.
Score(b) ==
  /\ StreamAt(b, "score")
  /\ LET s == stream[b].slot
         n == Cardinality(stream[b].txs) IN
       /\ score' = [score EXCEPT ![s] = IF n > @ THEN n ELSE @]
       /\ StreamGoto(b, IF score[s] = NoScore THEN "store" ELSE "idle")
  /\ UNCHANGED <<lists, chain, jobs, reports, published, seen, failed, events, faults>>

\* The command fails, or its reply is lost after Redis has executed it.
ScoreFails(b) ==
  /\ StreamAt(b, "score")
  /\ Fault
  /\ LET s == stream[b].slot
         n == Cardinality(stream[b].txs) IN
       /\ \/ score' = [score EXCEPT ![s] = IF n > @ THEN n ELSE @]
          \/ UNCHANGED score
       /\ GiveUp("list", s)
  /\ StreamGoto(b, "idle")
  /\ UNCHANGED <<lists, chain, jobs, reports, published, seen, events>>

StoreList(b) ==
  /\ StreamAt(b, "store")
  /\ lists' = [lists EXCEPT ![stream[b].slot] =
                [stored |-> TRUE, txs |-> stream[b].txs]]
  /\ published' = [published EXCEPT ![stream[b].slot] = @ \cup {stream[b].txs}]
  /\ StreamGoto(b, "idle")
  /\ UNCHANGED <<score, chain, jobs, reports, seen, failed, events, faults>>

StoreListFails(b) ==
  /\ StreamAt(b, "store")
  /\ Fault
  /\ GiveUp("list", stream[b].slot)
  /\ StreamGoto(b, "idle")
  /\ UNCHANGED <<score, lists, chain, jobs, reports, published, seen, events>>

\* An error of the subscription ends the goroutine for good.
StreamEnds(b) ==
  /\ StreamAt(b, "idle")
  /\ Fault
  /\ StreamGoto(b, "ended")
  /\ UNCHANGED <<score, lists, chain, jobs, reports, published, seen, failed, events>>

StreamStep(b) == Score(b) \/ StoreList(b)
StreamFault(b) == ScoreFails(b) \/ StoreListFails(b) \/ StreamEnds(b)

-----------------------------------------------------------------------------
(* The execution clients and processClientInclusionList                    *)

\* The node announces a header, and the listener starts a goroutine for it.
\* The node may replace its last block; it never goes back further here.
NewHead(e, n, blk) ==
  /\ Len(jobs) < MaxHeads
  /\ n \in {Len(chain[e]), Len(chain[e]) + 1} \cap Numbers
  /\ n > 1 => blk.slot > chain[e][n - 1].slot
  /\ blk.slot >= n
  /\ chain' = [chain EXCEPT ![e] = Append(SubSeq(@, 1, n - 1), blk)]
  /\ seen' = [seen EXCEPT ![n] = @ \cup {blk.txs}]
  /\ jobs' = Append(jobs, [phase |-> "fetch", endpoint |-> e, number |-> n,
                           block |-> {}, list |-> {}])
  /\ UNCHANGED <<stream, score, lists, reports, published, failed, events, faults>>

-----------------------------------------------------------------------------
(* processBlock                                                            *)

JobAt(j, p)   == jobs[j].phase = p
JobGoto(j, p) == jobs' = [jobs EXCEPT ![j].phase = p]

\* BlockByNumber: what the node has under the number by now.
FetchBlock(j) ==
  /\ JobAt(j, "fetch")
  /\ jobs' = [jobs EXCEPT ![j].phase = "read",
       ![j].block = chain[jobs[j].endpoint][jobs[j].number].txs]
  /\ UNCHANGED <<stream, score, lists, chain, reports, published, seen, failed, events, faults>>

\* Faulty variants: the list of the slot with the block's own number, and a
\* list that counts as absent when it is empty.
ReadOwnList(j) ==
  /\ JobAt(j, "read")
  /\ LET list == lists[jobs[j].number] IN
       jobs' = IF list.stored
               THEN [jobs EXCEPT ![j].phase = "write", ![j].list = list.txs]
               ELSE [jobs EXCEPT ![j].phase = "done"]
  /\ UNCHANGED <<stream, score, lists, chain, reports, published, seen, failed, events, faults>>

ReadNonEmpty(j) ==
  /\ JobAt(j, "read")
  /\ LET list == lists[jobs[j].number - 1] IN
       jobs' = IF list.txs # {}
               THEN [jobs EXCEPT ![j].phase = "write", ![j].list = list.txs]
               ELSE [jobs EXCEPT ![j].phase = "done"]
  /\ UNCHANGED <<stream, score, lists, chain, reports, published, seen, failed, events, faults>>

\* The list of slot number - 1, if it has been stored by now.  A list that
\* comes later is not waited for.
ReadList(j) ==
  /\ JobAt(j, "read")
  /\ LET list == lists[jobs[j].number - 1] IN
       jobs' = IF list.stored
               THEN [jobs EXCEPT ![j].phase = "write", ![j].list = list.txs]
               ELSE [jobs EXCEPT ![j].phase = "done"]
  /\ UNCHANGED <<stream, score, lists, chain, reports, published, seen, failed, events, faults>>

WriteReport(j) ==
  /\ JobAt(j, "write")
  /\ reports' = [reports EXCEPT ![jobs[j].number] =
                  Compare(jobs[j].list, jobs[j].block)]
  /\ JobGoto(j, "done")
  /\ UNCHANGED <<stream, score, lists, chain, published, seen, failed, events, faults>>

\* Any of the three calls fails, or is never answered: the goroutine does
\* nothing more for the block.
JobFails(j) ==
  /\ ~JobAt(j, "done")
  /\ Fault
  /\ GiveUp("report", jobs[j].number)
  /\ JobGoto(j, "done")
  /\ UNCHANGED <<stream, score, lists, chain, reports, published, seen, events>>

JobStep(j) == FetchBlock(j) \/ ReadList(j) \/ WriteReport(j)

-----------------------------------------------------------------------------
(* The API (service/inclusion_lists.go)                                    *)

\* One HGETALL, and an entry for each field; they are sorted by number, of
\* which each has at most one.
GetInclusionLists ==
  {[slot |-> n, report |-> reports[n]] : n \in {m \in Numbers : reports[m].stored}}

-----------------------------------------------------------------------------
Next ==
  \/ \E b \in Beacons :
       \/ \E s \in Slots, txs \in SUBSET Txs : ReceiveList(b, s, txs)
       \/ StreamStep(b) \/ StreamFault(b)
  \/ \E e \in Endpoints, n \in Numbers, blk \in Block : NewHead(e, n, blk)
  \/ \E j \in DOMAIN jobs : JobStep(j) \/ JobFails(j)

Spec == Init /\ [][Next]_vars

\* Redis and the nodes answer, or the call counts as failed.
Fairness ==
  /\ \A b \in Beacons : WF_vars(StreamStep(b))
  /\ \A j \in 1 .. MaxHeads : WF_vars(j \in DOMAIN jobs /\ JobStep(j))

FairSpec == Spec /\ Fairness

-----------------------------------------------------------------------------
(* Properties                                                              *)

TypeOK ==
  /\ stream \in [Beacons -> Stream]
  /\ score \in [Slots -> Nat \cup {NoScore}]
  /\ lists \in [Slots -> List]
  /\ chain \in [Endpoints -> Seq(Block)]
  /\ jobs \in Seq(Job)
  /\ reports \in [Numbers -> Report]
  /\ published \in [Slots -> SUBSET SUBSET Txs]
  /\ seen \in [Numbers -> SUBSET SUBSET Txs]
  /\ failed \in SUBSET ({"list"} \X Slots \cup {"report"} \X Numbers)
  /\ events \in 0 .. MaxEvents
  /\ faults \in 0 .. MaxFaults

(* What the code makes of a second list, against the comment at             *)
(* processor.go:176: the list a slot has is never replaced, not even by a   *)
(* longer one, whichever beacon node sends what, and in whatever order the  *)
(* commands of the streams arrive.                                          *)
StoredListIsFinal ==
  [][\A s \in Slots : lists[s].stored => lists'[s] = lists[s]]_vars

(* What the API answers splits the stored lists: the two halves of a report *)
(* are the list that Redis holds now for the slot, and "included" is what   *)
(* one block some node has had under that number contains of it.  The list  *)
(* and the block are read at different times, and reports overwrite each    *)
(* other.                                                                   *)
ReportMatchesStoredList ==
  \A a \in GetInclusionLists :
    /\ lists[a.slot - 1].stored
    /\ \E block \in seen[a.slot] : a.report = Compare(lists[a.slot - 1].txs, block)

(* A slot with a score has its list stored, or is about to, unless a        *)
(* command has failed for it.                                               *)
ScoredSlotHasList ==
  \A s \in Slots : score[s] # NoScore =>
    \/ lists[s].stored
    \/ \E b \in Beacons : StreamAt(b, "store") /\ stream[b].slot = s
    \/ <<"list", s>> \in failed

(* The score of a slot is never smaller than the list stored for it.        *)
ScoreBoundsList ==
  \A s \in Slots : lists[s].stored => score[s] >= Cardinality(lists[s].txs)

(* The inductive invariant behind these.  At most one stream is about to    *)
(* store the list of a slot, because only one ZADD has added the slot; a    *)
(* goroutine works with a block some node has had, and with the list that   *)
(* is stored.                                                               *)
StreamInv ==
  \A b \in Beacons : StreamAt(b, "store") =>
    /\ ~lists[stream[b].slot].stored
    /\ score[stream[b].slot] >= Cardinality(stream[b].txs)
    /\ \A d \in Beacons \ {b} :
         ~(StreamAt(d, "store") /\ stream[d].slot = stream[b].slot)

ListInv == \A s \in Slots : lists[s].stored => lists[s].txs \in published[s]

ReportInv ==
  \A n \in Numbers : reports[n].stored =>
    /\ lists[n - 1].stored
    /\ \E block \in seen[n] : reports[n] = Compare(lists[n - 1].txs, block)

ChainInv ==
  \A e \in Endpoints : \A i \in DOMAIN chain[e] :
    i \in Numbers /\ chain[e][i].txs \in seen[i]

JobInv ==
  \A j \in DOMAIN jobs :
    /\ jobs[j].number \in DOMAIN chain[jobs[j].endpoint]
    /\ jobs[j].phase \in {"read", "write"} => jobs[j].block \in seen[jobs[j].number]
    /\ jobs[j].phase = "write" =>
         /\ lists[jobs[j].number - 1].stored
         /\ jobs[j].list = lists[jobs[j].number - 1].txs

IInv ==
  /\ TypeOK
  /\ StreamInv
  /\ ChainInv
  /\ JobInv
  /\ ScoreBoundsList
  /\ ScoredSlotHasList
  /\ ListInv
  /\ ReportInv

(* The streams and goroutines do to Redis what InclusionLog says, however   *)
(* their commands interleave and whatever fails: no shorter list takes the  *)
(* place of a longer one, although the score is raised by one command and   *)
(* the list stored by another, and a goroutine, which reads a block and a   *)
(* list at different times, splits one list by one block.  It does not ask  *)
(* that a list stays, or that a longer one replaces it.                     *)
Log == INSTANCE InclusionLog
ImplementsLog == Log!Spec

(* A block whose list is there when its goroutine starts gets its report,   *)
(* unless a call fails.                                                     *)
BlockGetsReport ==
  \A n \in Numbers :
    (lists[n - 1].stored /\ \E j \in DOMAIN jobs : JobAt(j, "fetch") /\ jobs[j].number = n)
    ~> (reports[n].stored \/ <<"report", n>> \in failed)

-----------------------------------------------------------------------------
(* What the documentation says and the code does not do                    *)

(* processor.go:176 calls the score of a slot "the transaction count",      *)
(* redis_prefixes.go:14-15 the two keys the list and the score of a slot:   *)
(* when no stream is at work, the score should be the size of the list.     *)
ScoreCountsStoredList ==
  (\A b \in Beacons : StreamAt(b, "idle")) /\ faults = 0
  => \A s \in Slots : lists[s].stored => score[s] = Cardinality(lists[s].txs)

(* processor.go:325 says that a report is stored "under slot field": the    *)
(* block that is reported under a field should be the block of that slot.   *)
ReportIsOfItsSlot ==
  \A n \in Numbers : reports[n].stored =>
    \E e \in Endpoints : \E i \in DOMAIN chain[e] : chain[e][i].slot = n

(* It is right exactly as long as no slot has been without a block.         *)
NoSlotSkipped == \A e \in Endpoints : \A i \in DOMAIN chain[e] : chain[e][i].slot = i
ReportIsOfItsSlotWithoutGaps == NoSlotSkipped => ReportIsOfItsSlot

=============================================================================
