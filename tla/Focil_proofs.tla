---------------------------- MODULE Focil_proofs ----------------------------
(***************************************************************************)
(* Proofs about Focil, for any number of beacon nodes, clients,            *)
(* transactions, slots and goroutines and any bounds.                      *)
(***************************************************************************)
EXTENDS Focil, FiniteSetTheorems, TLAPS

USE ConstantsAssumption

\* The number of transactions of a list is a number.
LEMMA ListSize == \A txs \in SUBSET Txs : Cardinality(txs) \in Nat
BY FS_Subset, FS_CardinalityType

\* The elements of a sequence, and what replacing one of them gives.
LEMMA SeqElement ==
  ASSUME NEW S, NEW q \in Seq(S)
  PROVE  \A i \in DOMAIN q : q[i] \in S
OBVIOUS

LEMMA SeqReplace ==
  ASSUME NEW S, NEW q \in Seq(S), NEW i \in DOMAIN q, NEW e \in S
  PROVE  /\ [q EXCEPT ![i] = e] \in Seq(S)
         /\ DOMAIN [q EXCEPT ![i] = e] = DOMAIN q
         /\ [q EXCEPT ![i] = e][i] = e
         /\ \A k \in DOMAIN q : k # i => [q EXCEPT ![i] = e][k] = q[k]
OBVIOUS

LEMMA SeqAppend ==
  ASSUME NEW S, NEW q \in Seq(S), NEW e \in S
  PROVE  /\ Append(q, e) \in Seq(S)
         /\ DOMAIN Append(q, e) = DOMAIN q \cup {Len(q) + 1}
         /\ Append(q, e)[Len(q) + 1] = e
         /\ \A k \in DOMAIN q : Append(q, e)[k] = q[k]
OBVIOUS

\* Replacing what follows the first n - 1 elements by one element.
LEMMA SeqReplaceFrom ==
  ASSUME NEW S, NEW q \in Seq(S), NEW e \in S, NEW n \in Nat \ {0}, n <= Len(q) + 1
  PROVE  /\ Append(SubSeq(q, 1, n - 1), e) \in Seq(S)
         /\ DOMAIN Append(SubSeq(q, 1, n - 1), e) = 1 .. n
         /\ Append(SubSeq(q, 1, n - 1), e)[n] = e
         /\ \A k \in 1 .. n - 1 : Append(SubSeq(q, 1, n - 1), e)[k] = q[k]
<1> DEFINE r == SubSeq(q, 1, n - 1)
<1>1. Len(q) \in Nat /\ DOMAIN q = 1 .. Len(q) /\ \A k \in 1 .. Len(q) : q[k] \in S
  OBVIOUS
<1>2. /\ r \in Seq(S)
      /\ Len(r) = n - 1
      /\ \A k \in 1 .. n - 1 : r[k] = q[k]
  BY <1>1
<1> HIDE DEF r
<1>3. /\ Append(r, e) \in Seq(S)
      /\ DOMAIN Append(r, e) = 1 .. n
      /\ Append(r, e)[n] = e
      /\ \A k \in 1 .. n - 1 : Append(r, e)[k] = r[k]
  BY <1>2
<1> QED
  BY <1>2, <1>3 DEF r

\* A goroutine works on a number.
LEMMA JobTypes ==
  ASSUME TypeOK
  PROVE  /\ jobs \in Seq(Job)
         /\ \A j \in DOMAIN jobs : jobs[j] \in Job /\ jobs[j].number \in Numbers
<1>1. jobs \in Seq(Job)
  BY DEF TypeOK
<1>2. \A j \in DOMAIN jobs : jobs[j] \in Job
  BY <1>1, SeqElement
<1> QED
  BY <1>1, <1>2 DEF Job

\* A step of a stream changes its slot of the array only.
LEMMA StreamStepTypes ==
  ASSUME TypeOK, NEW b \in Beacons, NEW p \in {"idle", "score", "store", "ended"},
         StreamGoto(b, p)
  PROVE  /\ stream' \in [Beacons -> Stream]
         /\ stream'[b].phase = p
         /\ stream'[b].slot = stream[b].slot
         /\ stream'[b].txs = stream[b].txs
         /\ \A d \in Beacons : d # b => stream'[d] = stream[d]
<1> DEFINE s == [stream[b] EXCEPT !.phase = p]
<1>1. stream[b] \in Stream
  BY DEF TypeOK
<1>2. s \in Stream /\ s.phase = p /\ s.slot = stream[b].slot /\ s.txs = stream[b].txs
  BY <1>1 DEF Stream
<1>3. stream' = [stream EXCEPT ![b] = s]
  BY DEF StreamGoto
<1> HIDE DEF s
<1> QED
  BY <1>2, <1>3 DEF TypeOK

-----------------------------------------------------------------------------
(* The steps of the streams.                                               *)

LEMMA ReceiveListStep ==
  ASSUME IInv, NEW b \in Beacons, NEW s \in Slots, NEW txs \in SUBSET Txs,
         ReceiveList(b, s, txs)
  PROVE  IInv'
<1> USE DEF IInv
<1>1. /\ stream' \in [Beacons -> Stream]
      /\ stream'[b].phase = "score"
      /\ stream[b].phase = "idle"
      /\ \A d \in Beacons : d # b => stream'[d] = stream[d]
  BY DEF TypeOK, ReceiveList, Stream, StreamAt
<1>2. UNCHANGED <<score, lists, chain, jobs, reports, published, seen, failed, faults>>
  BY DEF ReceiveList
<1>3. TypeOK'
  BY <1>1, <1>2 DEF TypeOK, ReceiveList
<1>4. StreamInv' /\ ScoredSlotHasList'
  BY <1>1, <1>2 DEF StreamInv, ScoredSlotHasList, StreamAt
<1>5. ChainInv' /\ JobInv' /\ ScoreBoundsList' /\ ReportInv' /\ ListInv'
  BY <1>2 DEF ChainInv, JobInv, ScoreBoundsList, ReportInv, ListInv
<1> QED
  BY <1>3, <1>4, <1>5

\* Only the ZADD that adds a slot leads to a store; a slot that is added has
\* no list, and no other stream is about to store one.
LEMMA ScoreStep ==
  ASSUME IInv, NEW b \in Beacons, Score(b)
  PROVE  IInv'
<1> DEFINE s == stream[b].slot
           n == Cardinality(stream[b].txs)
<1> USE DEF IInv
<1>1. s \in Slots /\ n \in Nat /\ stream[b].phase = "score"
  BY ListSize DEF TypeOK, Stream, Score, StreamAt
<1>2. /\ score' \in [Slots -> Nat \cup {NoScore}]
      /\ score'[s] # NoScore
      /\ score'[s] >= n
      /\ score[s] # NoScore => score'[s] >= score[s]
      /\ \A t \in Slots : t # s => score'[t] = score[t]
  BY <1>1 DEF Score, TypeOK, NoScore
<1>3. /\ stream' \in [Beacons -> Stream]
      /\ stream'[b].phase = IF score[s] = NoScore THEN "store" ELSE "idle"
      /\ stream'[b].slot = s
      /\ stream'[b].txs = stream[b].txs
      /\ \A d \in Beacons : d # b => stream'[d] = stream[d]
  BY StreamStepTypes DEF Score
<1>4. UNCHANGED <<lists, chain, jobs, reports, published, seen, failed, events, faults>>
  BY DEF Score
<1> HIDE DEF n
<1>5. TypeOK'
  BY <1>2, <1>3, <1>4 DEF TypeOK
<1>6. /\ \A t \in Slots : lists[t].stored => score[t] # NoScore
      /\ \A d \in Beacons : StreamAt(d, "store") => score[stream[d].slot] # NoScore
  <2>1. \A t \in Slots : Cardinality(lists[t].txs) \in Nat
    BY ListSize DEF TypeOK, List
  <2>2. \A d \in Beacons : stream[d].slot \in Slots /\ Cardinality(stream[d].txs) \in Nat
    BY ListSize DEF TypeOK, Stream
  <2>3. \A t \in Slots : lists[t].stored => score[t] # NoScore
    BY <2>1 DEF ScoreBoundsList, NoScore, TypeOK
  <2>4. \A d \in Beacons : StreamAt(d, "store") => score[stream[d].slot] # NoScore
    BY <2>2 DEF StreamInv, NoScore, TypeOK
  <2> QED
    BY <2>3, <2>4
<1>7. StreamInv'
  <2> SUFFICES ASSUME NEW d \in Beacons, StreamAt(d, "store")'
               PROVE  /\ ~lists[stream'[d].slot].stored
                      /\ score'[stream'[d].slot] >= Cardinality(stream'[d].txs)
                      /\ \A c \in Beacons \ {d} :
                           ~(StreamAt(c, "store")' /\ stream'[c].slot = stream'[d].slot)
    BY <1>4 DEF StreamInv, StreamAt
  <2>1. CASE d = b
    BY <1>1, <1>2, <1>3, <1>6, <2>1 DEF StreamAt, n
  <2>2. CASE d # b
    <3>1. StreamAt(d, "store") /\ stream'[d] = stream[d]
      BY <1>3, <2>2 DEF StreamAt
    <3>2. stream[d].slot \in Slots /\ (stream[d].slot # s \/ score[s] # NoScore)
      BY <1>6, <3>1 DEF TypeOK, Stream
    <3>3. score'[stream[d].slot] >= Cardinality(stream[d].txs)
      <4>1. stream[d].slot \in Slots /\ Cardinality(stream[d].txs) \in Nat
        BY ListSize DEF TypeOK, Stream
      <4>2. score[stream[d].slot] \in Int /\ score'[stream[d].slot] \in Int
        BY <1>2, <4>1 DEF TypeOK, NoScore
      <4> QED
        BY <1>2, <1>6, <3>1, <4>1, <4>2 DEF StreamInv
    <3> QED
      BY <1>3, <1>6, <3>1, <3>3, <2>2 DEF StreamInv, StreamAt
  <2> QED
    BY <2>1, <2>2
<1>8. ScoredSlotHasList'
  <2> SUFFICES ASSUME NEW t \in Slots, score'[t] # NoScore
               PROVE  \/ lists[t].stored
                      \/ \E d \in Beacons : StreamAt(d, "store")' /\ stream'[d].slot = t
                      \/ <<"list", t>> \in failed
    BY <1>4 DEF ScoredSlotHasList
  <2>1. CASE t = s /\ score[s] = NoScore
    BY <1>3, <2>1 DEF StreamAt
  <2>2. CASE ~(t = s /\ score[s] = NoScore)
    <3>1. score[t] # NoScore
      BY <1>2, <2>2
    <3> QED
      BY <1>1, <1>3, <3>1 DEF ScoredSlotHasList, StreamAt
  <2> QED
    BY <2>1, <2>2
<1>9. ScoreBoundsList'
  <2> SUFFICES ASSUME NEW t \in Slots, lists[t].stored
               PROVE  score'[t] >= Cardinality(lists[t].txs)
    BY <1>4 DEF ScoreBoundsList
  <2>1. score[t] \in Int /\ score'[t] \in Int /\ Cardinality(lists[t].txs) \in Nat
    BY <1>2, ListSize DEF TypeOK, NoScore, List
  <2> QED
    BY <1>2, <1>6, <2>1 DEF ScoreBoundsList
<1>10. ChainInv' /\ JobInv' /\ ReportInv' /\ ListInv'
  BY <1>4 DEF ChainInv, JobInv, ReportInv, ListInv
<1> QED
  BY <1>5, <1>7, <1>8, <1>9, <1>10

\* A failing ZADD adds to the score at most, and what is scored for nothing
\* is in failed.
LEMMA ScoreFailsStep ==
  ASSUME IInv, NEW b \in Beacons, ScoreFails(b)
  PROVE  IInv'
<1> DEFINE s == stream[b].slot
           n == Cardinality(stream[b].txs)
<1> USE DEF IInv
<1>1. s \in Slots /\ n \in Nat /\ stream[b].phase = "score"
  BY ListSize DEF TypeOK, Stream, ScoreFails, StreamAt
<1>2. /\ score' \in [Slots -> Nat \cup {NoScore}]
      /\ \A t \in Slots : score'[t] >= score[t]
      /\ \A t \in Slots : t # s => score'[t] = score[t]
  <2>1. score \in [Slots -> Nat \cup {NoScore}]
    BY DEF TypeOK
  <2>2. CASE score' = [score EXCEPT ![s] = IF n > @ THEN n ELSE @]
    BY <1>1, <2>1, <2>2 DEF NoScore
  <2>3. CASE UNCHANGED score
    BY <2>1, <2>3 DEF NoScore
  <2> QED
    BY <2>2, <2>3 DEF ScoreFails
<1>3. /\ stream' \in [Beacons -> Stream]
      /\ stream'[b].phase = "idle"
      /\ \A d \in Beacons : d # b => stream'[d] = stream[d]
  BY StreamStepTypes DEF ScoreFails
<1>4. /\ UNCHANGED <<lists, chain, jobs, reports, published, seen, events>>
      /\ failed' = failed \cup {<<"list", s>>}
      /\ faults' \in 0 .. MaxFaults
  BY DEF ScoreFails, GiveUp, Fault, TypeOK
<1> HIDE DEF n
<1>5. TypeOK'
  BY <1>1, <1>2, <1>3, <1>4 DEF TypeOK
<1>6. StreamInv'
  <2> SUFFICES ASSUME NEW d \in Beacons, StreamAt(d, "store")'
               PROVE  /\ ~lists[stream'[d].slot].stored
                      /\ score'[stream'[d].slot] >= Cardinality(stream'[d].txs)
                      /\ \A c \in Beacons \ {d} :
                           ~(StreamAt(c, "store")' /\ stream'[c].slot = stream'[d].slot)
    BY <1>4 DEF StreamInv, StreamAt
  <2>1. d # b /\ StreamAt(d, "store") /\ stream'[d] = stream[d]
    BY <1>3 DEF StreamAt
  <2>2. stream[d].slot \in Slots /\ Cardinality(stream[d].txs) \in Nat
    BY ListSize DEF TypeOK, Stream
  <2>3. score[stream[d].slot] \in Int /\ score'[stream[d].slot] \in Int
    BY <1>2, <2>2 DEF TypeOK, NoScore
  <2> QED
    BY <1>2, <1>3, <2>1, <2>2, <2>3 DEF StreamInv, StreamAt
<1>7. ScoredSlotHasList'
  BY <1>1, <1>2, <1>3, <1>4 DEF ScoredSlotHasList, StreamAt
<1>8. ScoreBoundsList'
  <2> SUFFICES ASSUME NEW t \in Slots, lists[t].stored
               PROVE  score'[t] >= Cardinality(lists[t].txs)
    BY <1>4 DEF ScoreBoundsList
  <2>1. score[t] \in Int /\ score'[t] \in Int /\ Cardinality(lists[t].txs) \in Nat
    BY <1>2, ListSize DEF TypeOK, NoScore, List
  <2> QED
    BY <1>2, <2>1 DEF ScoreBoundsList
<1>9. ChainInv' /\ JobInv' /\ ReportInv' /\ ListInv'
  BY <1>4 DEF ChainInv, JobInv, ReportInv, ListInv
<1> QED
  BY <1>5, <1>6, <1>7, <1>8, <1>9

\* The list is stored for a slot that had none.
LEMMA StoreListStep ==
  ASSUME IInv, NEW b \in Beacons, StoreList(b)
  PROVE  IInv'
<1> DEFINE s == stream[b].slot
<1> USE DEF IInv
<1>1. /\ s \in Slots /\ stream[b].txs \in SUBSET Txs /\ stream[b].phase = "store"
      /\ ~lists[s].stored
      /\ score[s] >= Cardinality(stream[b].txs)
  BY DEF TypeOK, Stream, StoreList, StreamAt, StreamInv
<1>2. /\ lists' \in [Slots -> List]
      /\ lists'[s].stored
      /\ lists'[s].txs = stream[b].txs
      /\ \A t \in Slots : t # s => lists'[t] = lists[t]
      /\ \A t \in Slots : lists[t].stored => lists'[t] = lists[t]
  BY <1>1 DEF StoreList, TypeOK, List
<1>3. /\ stream' \in [Beacons -> Stream]
      /\ stream'[b].phase = "idle"
      /\ \A d \in Beacons : d # b => stream'[d] = stream[d]
  BY StreamStepTypes DEF StoreList
<1>4. /\ UNCHANGED <<score, chain, jobs, reports, seen, failed, events, faults>>
      /\ published' = [published EXCEPT ![s] = published[s] \cup {stream[b].txs}]
  BY DEF StoreList
<1>11. /\ published' \in [Slots -> SUBSET SUBSET Txs]
       /\ ListInv'
  BY <1>1, <1>2, <1>4 DEF TypeOK, ListInv
<1>5. TypeOK'
  BY <1>2, <1>3, <1>4, <1>11 DEF TypeOK
<1>6. StreamInv'
  <2>1. \A d \in Beacons : StreamAt(d, "store")' =>
          d # b /\ StreamAt(d, "store") /\ stream'[d] = stream[d] /\ stream[d].slot # s
                /\ stream[d].slot \in Slots
    BY <1>1, <1>3 DEF StreamAt, StreamInv, TypeOK, Stream
  <2> QED
    BY <1>2, <1>4, <2>1 DEF StreamInv
<1>7. ScoredSlotHasList'
  BY <1>2, <1>3, <1>4 DEF ScoredSlotHasList, StreamAt
<1>8. ScoreBoundsList'
  BY <1>1, <1>2, <1>4 DEF ScoreBoundsList
<1>9. ChainInv'
  BY <1>4 DEF ChainInv
<1>10. JobInv' /\ ReportInv'
  <2>1. \A i \in Numbers : lists[i - 1].stored => lists'[i - 1] = lists[i - 1]
    BY <1>2 DEF Numbers, Slots
  <2>2. \A j \in DOMAIN jobs : jobs[j].number \in Numbers
    BY JobTypes
  <2>3. JobInv'
    BY <1>4, <2>1, <2>2 DEF JobInv
  <2>4. ReportInv'
    <3> SUFFICES ASSUME NEW n \in Numbers, reports[n].stored
                 PROVE  /\ lists'[n - 1].stored
                        /\ \E block \in seen[n] :
                             reports[n] = Compare(lists'[n - 1].txs, block)
      BY <1>4 DEF ReportInv
    <3> QED
      BY <2>1 DEF ReportInv
  <2> QED
    BY <2>3, <2>4
<1> QED
  BY <1>5, <1>6, <1>7, <1>8, <1>9, <1>10, <1>11

\* A store that fails, and a stream that ends, write nothing to Redis.
LEMMA StreamGivesUpStep ==
  ASSUME IInv, NEW b \in Beacons, StoreListFails(b) \/ StreamEnds(b)
  PROVE  IInv'
<1> USE DEF IInv
<1>1. /\ stream' \in [Beacons -> Stream]
      /\ stream'[b].phase \in {"idle", "ended"}
      /\ \A d \in Beacons : d # b => stream'[d] = stream[d]
  BY StreamStepTypes DEF StoreListFails, StreamEnds
<1>2. /\ UNCHANGED <<score, lists, chain, jobs, reports, published, seen, events>>
      /\ failed \subseteq failed'
      /\ failed' \in SUBSET ({"list"} \X Slots \cup {"report"} \X Numbers)
      /\ faults' \in 0 .. MaxFaults
  BY DEF StoreListFails, StreamEnds, GiveUp, Fault, TypeOK, Stream
<1>3. stream[b].phase = "store" => <<"list", stream[b].slot>> \in failed'
  BY DEF StoreListFails, StreamEnds, GiveUp, StreamAt
<1>4. TypeOK'
  BY <1>1, <1>2 DEF TypeOK
<1>5. StreamInv' /\ ScoredSlotHasList'
  BY <1>1, <1>2, <1>3 DEF StreamInv, ScoredSlotHasList, StreamAt
<1>6. ChainInv' /\ JobInv' /\ ScoreBoundsList' /\ ReportInv' /\ ListInv'
  BY <1>2 DEF ChainInv, JobInv, ScoreBoundsList, ReportInv, ListInv
<1> QED
  BY <1>4, <1>5, <1>6

-----------------------------------------------------------------------------
(* Blocks and goroutines.                                                  *)

\* A new block is seen, and the goroutine that is started for it has a block
\* to fetch; the blocks before it stay.
LEMMA NewHeadStep ==
  ASSUME IInv, NEW e \in Endpoints, NEW n \in Numbers, NEW blk \in Block, NewHead(e, n, blk)
  PROVE  IInv'
<1> DEFINE q == Append(SubSeq(chain[e], 1, n - 1), blk)
           g == [phase |-> "fetch", endpoint |-> e, number |-> n,
                 block |-> {}, list |-> {}]
<1> USE DEF IInv
<1>1. chain[e] \in Seq(Block) /\ n \in Nat \ {0} /\ n \in {Len(chain[e]), Len(chain[e]) + 1}
  BY DEF TypeOK, NewHead, Numbers
<1>2. /\ q \in Seq(Block)
      /\ DOMAIN q = 1 .. n
      /\ q[n] = blk
      /\ \A k \in 1 .. n - 1 : q[k] = chain[e][k]
  <2>1. n <= Len(chain[e]) + 1
    BY <1>1
  <2> QED
    BY <1>1, <2>1, SeqReplaceFrom
<1>3. DOMAIN chain[e] \subseteq 1 .. n
  BY <1>1
<1>4. /\ chain' \in [Endpoints -> Seq(Block)]
      /\ chain'[e] = q
      /\ \A d \in Endpoints : d # e => chain'[d] = chain[d]
  BY <1>2 DEF NewHead, TypeOK
<1>5. g \in Job
  BY DEF Job
<1>6. /\ jobs' \in Seq(Job)
      /\ DOMAIN jobs' = DOMAIN jobs \cup {Len(jobs) + 1}
      /\ jobs'[Len(jobs) + 1] = g
      /\ \A j \in DOMAIN jobs : jobs'[j] = jobs[j]
  <2>1. jobs' = Append(jobs, g) /\ jobs \in Seq(Job)
    BY JobTypes DEF NewHead
  <2> HIDE DEF g
  <2> QED
    BY <1>5, <2>1, SeqAppend
<1>7. /\ seen' \in [Numbers -> SUBSET SUBSET Txs]
      /\ blk.txs \in seen'[n]
      /\ \A i \in Numbers : seen[i] \subseteq seen'[i]
  BY DEF NewHead, TypeOK, Block
<1>8. UNCHANGED <<stream, score, lists, reports, published, failed, events, faults>>
  BY DEF NewHead
<1> HIDE DEF q
<1>9. TypeOK'
  BY <1>4, <1>6, <1>7, <1>8 DEF TypeOK
<1>10. ChainInv'
  <2> SUFFICES ASSUME NEW d \in Endpoints, NEW i \in DOMAIN chain'[d]
               PROVE  i \in Numbers /\ chain'[d][i].txs \in seen'[i]
    BY DEF ChainInv
  <2>1. CASE d = e /\ i = n
    BY <1>2, <1>4, <1>7, <2>1
  <2>2. CASE ~(d = e /\ i = n)
    <3>1. i \in DOMAIN chain[d] /\ chain'[d][i] = chain[d][i]
      <4>1. CASE d # e
        BY <1>4, <4>1
      <4>2. CASE d = e
        <5>1. i \in 1 .. n - 1 /\ i \in 1 .. Len(chain[e])
          BY <1>1, <1>2, <1>4, <2>2, <4>2
        <5> QED
          BY <1>1, <1>2, <1>4, <4>2, <5>1
      <4> QED
        BY <4>1, <4>2
    <3> QED
      BY <1>7, <3>1 DEF ChainInv
  <2> QED
    BY <2>1, <2>2
<1>11. JobInv'
  <2>1. \A d \in Endpoints : DOMAIN chain[d] \subseteq DOMAIN chain'[d]
    BY <1>2, <1>3, <1>4
  <2> SUFFICES ASSUME NEW j \in DOMAIN jobs'
               PROVE  /\ jobs'[j].number \in DOMAIN chain'[jobs'[j].endpoint]
                      /\ jobs'[j].phase \in {"read", "write"} =>
                           jobs'[j].block \in seen'[jobs'[j].number]
                      /\ jobs'[j].phase = "write" =>
                           /\ lists[jobs'[j].number - 1].stored
                           /\ jobs'[j].list = lists[jobs'[j].number - 1].txs
    BY <1>8 DEF JobInv
  <2>2. CASE j = Len(jobs) + 1
    BY <1>1, <1>2, <1>4, <1>6, <2>2
  <2>3. CASE j \in DOMAIN jobs
    <3>1. jobs'[j] = jobs[j] /\ jobs[j].number \in Numbers /\ jobs[j].endpoint \in Endpoints
      BY <1>6, <2>3, JobTypes DEF Job
    <3> QED
      BY <1>7, <2>1, <2>3, <3>1 DEF JobInv
  <2> QED
    BY <1>6, <2>2, <2>3
<1>12. ReportInv' /\ ListInv'
  BY <1>7, <1>8 DEF ReportInv, ListInv
<1>13. StreamInv' /\ ScoredSlotHasList' /\ ScoreBoundsList'
  BY <1>8 DEF StreamInv, ScoredSlotHasList, ScoreBoundsList, StreamAt
<1> QED
  BY <1>9, <1>10, <1>11, <1>12, <1>13

\* What a goroutine replaces its state by must satisfy its part of JobInv.
GoodJob(g) ==
  /\ g.number \in DOMAIN chain[g.endpoint]
  /\ g.phase \in {"read", "write"} => g.block \in seen[g.number]
  /\ g.phase = "write" => lists[g.number - 1].stored /\ g.list = lists[g.number - 1].txs

LEMMA JobReplaced ==
  ASSUME IInv, NEW j \in DOMAIN jobs, NEW g \in Job, jobs' = [jobs EXCEPT ![j] = g],
         GoodJob(g), UNCHANGED <<lists, chain, published, seen>>
  PROVE  jobs' \in Seq(Job) /\ JobInv'
<1>1. /\ jobs' \in Seq(Job)
      /\ DOMAIN jobs' = DOMAIN jobs
      /\ jobs'[j] = g
      /\ \A k \in DOMAIN jobs : k # j => jobs'[k] = jobs[k]
  BY JobTypes, SeqReplace DEF IInv
<1> QED
  BY <1>1 DEF IInv, JobInv, GoodJob

\* The block that is fetched is one the node has had.
LEMMA FetchBlockStep ==
  ASSUME IInv, NEW j \in DOMAIN jobs, FetchBlock(j)
  PROVE  IInv'
<1> DEFINE old == jobs[j]
           block == chain[old.endpoint][old.number].txs
           g == [old EXCEPT !.phase = "read", !.block = block]
<1> USE DEF IInv
<1>1. old \in Job /\ old.number \in DOMAIN chain[old.endpoint] /\ block \in seen[old.number]
  BY JobTypes DEF JobInv, ChainInv, Job
<1>2. block \in SUBSET Txs
  BY <1>1, JobTypes DEF TypeOK
<1>3. g \in Job /\ GoodJob(g)
  BY <1>1, <1>2 DEF Job, GoodJob
<1>4. jobs' = [jobs EXCEPT ![j] = g]
  BY DEF FetchBlock
<1>5. UNCHANGED <<stream, score, lists, chain, reports, published, seen, failed, events, faults>>
  BY DEF FetchBlock
<1> HIDE DEF g
<1>6. jobs' \in Seq(Job) /\ JobInv'
  BY <1>3, <1>4, <1>5, JobReplaced
<1>7. TypeOK'
  BY <1>5, <1>6 DEF TypeOK
<1>8. StreamInv' /\ ChainInv' /\ ScoreBoundsList' /\ ScoredSlotHasList' /\ ReportInv' /\ ListInv'
  BY <1>5 DEF StreamInv, ChainInv, ScoreBoundsList, ScoredSlotHasList, StreamAt,
              ReportInv, ListInv
<1> QED
  BY <1>6, <1>7, <1>8

\* The list that is read is the one that is stored.
LEMMA ReadListStep ==
  ASSUME IInv, NEW j \in DOMAIN jobs, ReadList(j)
  PROVE  IInv'
<1> DEFINE old == jobs[j]
           list == lists[old.number - 1]
           g == IF list.stored THEN [old EXCEPT !.phase = "write", !.list = list.txs]
                               ELSE [old EXCEPT !.phase = "done"]
<1> USE DEF IInv
<1>1. /\ old \in Job
      /\ old.number \in DOMAIN chain[old.endpoint]
      /\ old.block \in seen[old.number]
  BY JobTypes DEF JobInv, ReadList, JobAt
<1>2. list \in List
  <2>1. old.number - 1 \in Slots
    BY JobTypes DEF Numbers, Slots
  <2> QED
    BY <2>1 DEF TypeOK
<1>3. g \in Job /\ GoodJob(g)
  BY <1>1, <1>2 DEF Job, GoodJob, List
<1>4. jobs' = [jobs EXCEPT ![j] = g]
  BY DEF ReadList
<1>5. UNCHANGED <<stream, score, lists, chain, reports, published, seen, failed, events, faults>>
  BY DEF ReadList
<1> HIDE DEF g
<1>6. jobs' \in Seq(Job) /\ JobInv'
  BY <1>3, <1>4, <1>5, JobReplaced
<1>7. TypeOK'
  BY <1>5, <1>6 DEF TypeOK
<1>8. StreamInv' /\ ChainInv' /\ ScoreBoundsList' /\ ScoredSlotHasList' /\ ReportInv' /\ ListInv'
  BY <1>5 DEF StreamInv, ChainInv, ScoreBoundsList, ScoredSlotHasList, StreamAt,
              ReportInv, ListInv
<1> QED
  BY <1>6, <1>7, <1>8

\* The report compares that list with that block.
LEMMA WriteReportStep ==
  ASSUME IInv, NEW j \in DOMAIN jobs, WriteReport(j)
  PROVE  IInv'
<1> DEFINE old == jobs[j]
           g == [old EXCEPT !.phase = "done"]
<1> USE DEF IInv
<1>1. /\ old \in Job
      /\ old.number \in Numbers
      /\ old.number \in DOMAIN chain[old.endpoint]
      /\ old.block \in seen[old.number]
      /\ lists[old.number - 1].stored
      /\ old.list = lists[old.number - 1].txs
  BY JobTypes DEF JobInv, WriteReport, JobAt
<1>2. g \in Job /\ GoodJob(g)
  BY <1>1 DEF Job, GoodJob
<1>3. jobs' = [jobs EXCEPT ![j] = g]
  BY DEF WriteReport, JobGoto
<1>4. UNCHANGED <<stream, score, lists, chain, published, seen, failed, events, faults>>
  BY DEF WriteReport
<1> HIDE DEF g
<1>5. jobs' \in Seq(Job) /\ JobInv'
  BY <1>2, <1>3, <1>4, JobReplaced
<1>6. /\ reports' \in [Numbers -> Report]
      /\ reports'[old.number] = Compare(old.list, old.block)
      /\ \A n \in Numbers : n # old.number => reports'[n] = reports[n]
  <2>1. Compare(old.list, old.block) \in Report
    BY <1>1 DEF Compare, Report, Job
  <2>2. reports' = [reports EXCEPT ![old.number] = Compare(old.list, old.block)]
    BY DEF WriteReport
  <2> QED
    BY <1>1, <2>1, <2>2 DEF TypeOK
<1>7. TypeOK'
  BY <1>4, <1>5, <1>6 DEF TypeOK
<1>8. StreamInv' /\ ChainInv' /\ ScoreBoundsList' /\ ScoredSlotHasList'
  BY <1>4 DEF StreamInv, ChainInv, ScoreBoundsList, ScoredSlotHasList, StreamAt
<1>9. ReportInv' /\ ListInv'
  BY <1>1, <1>4, <1>6 DEF ReportInv, ListInv
<1> QED
  BY <1>5, <1>7, <1>8, <1>9

\* A goroutine that gives up leaves everything as it is.
LEMMA JobFailsStep ==
  ASSUME IInv, NEW j \in DOMAIN jobs, JobFails(j)
  PROVE  IInv'
<1> DEFINE old == jobs[j]
           g == [old EXCEPT !.phase = "done"]
<1> USE DEF IInv
<1>1. old \in Job /\ old.number \in Numbers /\ old.number \in DOMAIN chain[old.endpoint]
  BY JobTypes DEF JobInv
<1>2. g \in Job /\ GoodJob(g)
  BY <1>1 DEF Job, GoodJob
<1>3. jobs' = [jobs EXCEPT ![j] = g]
  BY DEF JobFails, JobGoto
<1>4. /\ UNCHANGED <<stream, score, lists, chain, reports, published, seen, events>>
      /\ failed \subseteq failed'
      /\ failed' \in SUBSET ({"list"} \X Slots \cup {"report"} \X Numbers)
      /\ faults' \in 0 .. MaxFaults
  BY <1>1 DEF JobFails, GiveUp, Fault, TypeOK
<1> HIDE DEF g
<1>5. jobs' \in Seq(Job) /\ JobInv'
  BY <1>2, <1>3, <1>4, JobReplaced
<1>6. TypeOK'
  BY <1>4, <1>5 DEF TypeOK
<1>7. StreamInv' /\ ChainInv' /\ ScoreBoundsList' /\ ScoredSlotHasList' /\ ReportInv' /\ ListInv'
  BY <1>4 DEF StreamInv, ChainInv, ScoreBoundsList, ScoredSlotHasList, StreamAt,
              ReportInv, ListInv
<1> QED
  BY <1>5, <1>6, <1>7

-----------------------------------------------------------------------------
(* The inductive invariant and what follows from it.                       *)

LEMMA InitIInv == Init => IInv
<1> SUFFICES ASSUME Init PROVE IInv
  OBVIOUS
<1> USE DEF Init
<1>1. TypeOK
  <2>1. /\ score \in [Slots -> Nat \cup {NoScore}]
        /\ lists \in [Slots -> List]
        /\ reports \in [Numbers -> Report]
        /\ stream \in [Beacons -> Stream]
    BY DEF List, Report, Stream, Slots
  <2>2. /\ chain \in [Endpoints -> Seq(Block)]
        /\ jobs \in Seq(Job)
        /\ seen \in [Numbers -> SUBSET SUBSET Txs]
    OBVIOUS
  <2> QED
    BY <2>1, <2>2 DEF TypeOK
<1>2. StreamInv /\ ChainInv /\ JobInv
  BY DEF StreamInv, StreamAt, ChainInv, JobInv
<1>3. ScoreBoundsList /\ ScoredSlotHasList /\ ReportInv /\ ListInv
  BY DEF ScoreBoundsList, ScoredSlotHasList, ReportInv, ListInv
<1> QED
  BY <1>1, <1>2, <1>3 DEF IInv

LEMMA StutterStep == IInv /\ UNCHANGED vars => IInv'
<1> SUFFICES ASSUME IInv, UNCHANGED vars PROVE IInv'
  OBVIOUS
<1> USE DEF IInv, vars
<1>1. TypeOK'
  BY DEF TypeOK
<1>2. StreamInv' /\ ChainInv' /\ JobInv'
  BY DEF StreamInv, StreamAt, ChainInv, JobInv
<1>3. ScoreBoundsList' /\ ScoredSlotHasList' /\ ReportInv' /\ ListInv'
  BY DEF ScoreBoundsList, ScoredSlotHasList, StreamAt, ReportInv, ListInv
<1> QED
  BY <1>1, <1>2, <1>3

LEMMA IInvStep == IInv /\ [Next]_vars => IInv'
<1> SUFFICES ASSUME IInv, [Next]_vars PROVE IInv'
  OBVIOUS
<1>1. ASSUME NEW b \in Beacons, NEW s \in Slots, NEW txs \in SUBSET Txs,
             ReceiveList(b, s, txs)
      PROVE  IInv'
  BY <1>1, ReceiveListStep
<1>2. ASSUME NEW b \in Beacons, StreamStep(b) \/ StreamFault(b) PROVE IInv'
  BY <1>2, ScoreStep, StoreListStep, ScoreFailsStep, StreamGivesUpStep
     DEF StreamStep, StreamFault
<1>3. ASSUME NEW e \in Endpoints, NEW n \in Numbers, NEW blk \in Block, NewHead(e, n, blk)
      PROVE  IInv'
  BY <1>3, NewHeadStep
<1>4. ASSUME NEW j \in DOMAIN jobs, JobStep(j) \/ JobFails(j) PROVE IInv'
  BY <1>4, FetchBlockStep, ReadListStep, WriteReportStep, JobFailsStep DEF JobStep
<1>5. CASE UNCHANGED vars
  BY <1>5, StutterStep
<1> QED
  BY <1>1, <1>2, <1>3, <1>4, <1>5 DEF Next

\* The conjunction of the invariants below, and of what they rest on.
THEOREM Inductive == Spec => []IInv
<1> QED
  BY InitIInv, IInvStep, PTL DEF Spec

\* A report splits the list that is stored for its slot along one block.
THEOREM ReportsAreSplits == Spec => []ReportMatchesStoredList
<1>1. IInv => ReportMatchesStoredList
  BY DEF IInv, ReportInv, ReportMatchesStoredList, GetInclusionLists
<1> QED
  BY <1>1, Inductive, PTL

\* Every slot that has a score has a list, or will, unless a command failed.
THEOREM ScoredSlotsAreStored == Spec => []ScoredSlotHasList
<1>1. IInv => ScoredSlotHasList
  BY DEF IInv
<1> QED
  BY <1>1, Inductive, PTL

\* No score is smaller than the list of its slot.
THEOREM ScoresBoundLists == Spec => []ScoreBoundsList
<1>1. IInv => ScoreBoundsList
  BY DEF IInv
<1> QED
  BY <1>1, Inductive, PTL

\* A stored list is never replaced: only StoreList writes lists, and by
\* StreamInv it finds none for its slot.
THEOREM ListsAreFinal == Spec => StoredListIsFinal
<1>1. IInv /\ [Next]_vars => \A s \in Slots : lists[s].stored => lists'[s] = lists[s]
  <2> SUFFICES ASSUME IInv, [Next]_vars
               PROVE  \A s \in Slots : lists[s].stored => lists'[s] = lists[s]
    OBVIOUS
  <2>1. ASSUME NEW b \in Beacons, StoreList(b)
        PROVE  \A s \in Slots : lists[s].stored => lists'[s] = lists[s]
    <3>1. ~lists[stream[b].slot].stored
      BY <2>1 DEF IInv, StreamInv, StoreList
    <3> QED
      BY <2>1, <3>1 DEF StoreList, IInv, TypeOK
  <2>2. CASE UNCHANGED lists
    BY <2>2
  <2> QED
    BY <2>1, <2>2 DEF Next, vars, ReceiveList, StreamStep, Score, StreamFault, ScoreFails,
       StoreListFails, StreamEnds, NewHead, JobStep, FetchBlock, ReadList, WriteReport,
       JobFails
<1> QED
  BY <1>1, Inductive, PTL DEF Spec, StoredListIsFinal

-----------------------------------------------------------------------------
(* The refinement: every step of Focil is one of InclusionLog, or none.     *)

\* Storing a list publishes it, because no list is there.
LEMMA StoreListPublishes ==
  ASSUME IInv, NEW b \in Beacons, StoreList(b)
  PROVE  Log!Publish(stream[b].slot, stream[b].txs)
BY DEF IInv, StreamInv, StoreList, Log!Publish

\* Writing a report files one: the list the goroutine has read is one that
\* has been published, and its block is one that has been seen.
LEMMA WriteReportFiles ==
  ASSUME IInv, NEW j \in DOMAIN jobs, WriteReport(j)
  PROVE  Log!File(jobs[j].number, jobs[j].list, jobs[j].block)
<1>1. /\ jobs[j].list \in published[jobs[j].number - 1]
      /\ jobs[j].block \in seen[jobs[j].number]
  <2>1. jobs[j].number - 1 \in Slots
    BY JobTypes DEF IInv, Numbers, Slots
  <2> QED
    BY <2>1 DEF IInv, JobInv, ListInv, WriteReport, JobAt
<1> QED
  BY <1>1 DEF WriteReport, Compare, Log!File

\* Every other step of a stream or of a goroutine leaves the log alone.
LEMMA OthersAreSilent ==
  ASSUME \/ \E b \in Beacons :
              \/ \E s \in Slots, txs \in SUBSET Txs : ReceiveList(b, s, txs)
              \/ Score(b) \/ StreamFault(b)
         \/ \E j \in DOMAIN jobs : FetchBlock(j) \/ ReadList(j) \/ JobFails(j)
  PROVE  UNCHANGED Log!logVars
BY DEF ReceiveList, Score, StreamFault, ScoreFails, StoreListFails, StreamEnds,
  FetchBlock, ReadList, JobFails, Log!logVars

LEMMA LogStep == IInv /\ [Next]_vars => [Log!Next]_(Log!logVars)
<1> SUFFICES ASSUME IInv, [Next]_vars PROVE [Log!Next]_(Log!logVars)
  OBVIOUS
<1> USE DEF Slots, Numbers, Log!Slots, Log!Numbers
<1>1. ASSUME NEW b \in Beacons, StoreList(b) PROVE Log!Next
  <2>1. stream[b].slot \in Log!Slots /\ stream[b].txs \in SUBSET Txs
    BY DEF IInv, TypeOK, Stream
  <2> QED
    BY <1>1, <2>1, StoreListPublishes DEF Log!Next
<1>2. ASSUME NEW e \in Endpoints, NEW n \in Numbers, NEW blk \in Block, NewHead(e, n, blk)
      PROVE  Log!Next
  <2>1. Log!See(n, blk.txs)
    BY <1>2 DEF NewHead, Log!See
  <2>2. n \in Log!Numbers /\ blk.txs \in SUBSET Txs
    BY DEF Block
  <2> QED
    BY <2>1, <2>2 DEF Log!Next
<1>3. ASSUME NEW j \in DOMAIN jobs, WriteReport(j) PROVE Log!Next
  <2>1. /\ jobs[j].number \in Log!Numbers
        /\ jobs[j].block \in SUBSET Txs /\ jobs[j].list \in SUBSET Txs
    BY JobTypes DEF IInv, Job
  <2> QED
    BY <1>3, <2>1, WriteReportFiles DEF Log!Next
<1>4. CASE UNCHANGED vars
  BY <1>4 DEF vars, Log!logVars
<1> QED
  BY <1>1, <1>2, <1>3, <1>4, OthersAreSilent DEF Next, StreamStep, JobStep

\* What the streams and goroutines do to Redis is what InclusionLog says.
THEOREM LogImplemented == Spec => ImplementsLog
<1>1. Init => Log!Init
  BY DEF Init, Slots, Numbers, Log!Init, Log!Slots, Log!Numbers
<1> QED
  BY <1>1, LogStep, Inductive, PTL DEF Spec, ImplementsLog, Log!Spec

-----------------------------------------------------------------------------
(* When a report is of its slot.                                           *)

\* A number with a report is one that some client has had a block under:
\* chains never get shorter.
Mined(n) == \E e \in Endpoints : n \in DOMAIN chain[e]
ReportedIsMined == \A n \in Numbers : reports[n].stored => Mined(n)

LEMMA ChainsGrow ==
  ASSUME IInv, [Next]_vars, NEW n \in Numbers, Mined(n)
  PROVE  Mined(n)'
<1>1. ASSUME NEW e \in Endpoints, NEW m \in Numbers, NEW blk \in Block, NewHead(e, m, blk)
      PROVE  Mined(n)'
  <2>1. chain[e] \in Seq(Block) /\ m \in Nat \ {0} /\ m \in {Len(chain[e]), Len(chain[e]) + 1}
    BY <1>1 DEF IInv, TypeOK, NewHead, Numbers
  <2> DEFINE q == Append(SubSeq(chain[e], 1, m - 1), blk)
  <2>2. m <= Len(chain[e]) + 1
    BY <2>1
  <2>3. DOMAIN q = 1 .. m
    BY <2>1, <2>2, SeqReplaceFrom
  <2>4. DOMAIN chain[e] \subseteq DOMAIN q
    BY <2>1, <2>3
  <2>5. chain' = [chain EXCEPT ![e] = q]
    BY <1>1 DEF NewHead
  <2> HIDE DEF q
  <2>6. \A d \in Endpoints : DOMAIN chain[d] \subseteq DOMAIN chain'[d]
    BY <2>4, <2>5 DEF IInv, TypeOK
  <2> QED
    BY <2>6 DEF Mined
<1>2. CASE UNCHANGED chain
  BY <1>2 DEF Mined
<1> QED
  BY <1>1, <1>2 DEF Next, vars, ReceiveList, StreamStep, Score, StoreList, StreamFault,
     ScoreFails, StoreListFails, StreamEnds, JobStep, FetchBlock, ReadList, WriteReport,
     JobFails

LEMMA ReportedIsMinedStep == IInv /\ ReportedIsMined /\ [Next]_vars => ReportedIsMined'
<1> SUFFICES ASSUME IInv, ReportedIsMined, [Next]_vars, NEW n \in Numbers, reports'[n].stored
             PROVE  Mined(n)'
  BY DEF ReportedIsMined
<1>1. ASSUME NEW j \in DOMAIN jobs, WriteReport(j) PROVE Mined(n)
  <2>1. CASE n = jobs[j].number
    BY <2>1, JobTypes DEF IInv, JobInv, Job, Mined
  <2>2. CASE n # jobs[j].number
    BY <1>1, <2>2 DEF WriteReport, IInv, TypeOK, ReportedIsMined
  <2> QED
    BY <2>1, <2>2
<1>2. ASSUME UNCHANGED reports PROVE Mined(n)
  BY <1>2 DEF ReportedIsMined
<1>3. Mined(n)
  BY <1>1, <1>2 DEF Next, vars, ReceiveList, StreamStep, Score, StoreList, StreamFault,
     ScoreFails, StoreListFails, StreamEnds, JobStep, FetchBlock, ReadList, NewHead,
     JobFails, ReportedIsMined
<1> QED
  BY <1>3, ChainsGrow

\* Where no slot has been without a block, a report is filed under its slot.
THEOREM ReportsAreOfTheirSlots == Spec => []ReportIsOfItsSlotWithoutGaps
<1>1. Init => ReportedIsMined
  BY DEF Init, ReportedIsMined
<1>2. ReportedIsMined => ReportIsOfItsSlotWithoutGaps
  BY DEF ReportedIsMined, Mined, ReportIsOfItsSlotWithoutGaps, NoSlotSkipped,
         ReportIsOfItsSlot
<1> QED
  BY <1>1, <1>2, ReportedIsMinedStep, Inductive, PTL DEF Spec

=============================================================================
