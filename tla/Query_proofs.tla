--------------------------- MODULE Query_proofs ----------------------------
(***************************************************************************)
(* Theorems about Query, for any clients, hashes and bounds: what an       *)
(* answer contains, and that none of the goroutines' results is lost.      *)
(***************************************************************************)
EXTENDS Query, TLAPS

(* The first endpoint is a client.                                         *)
LEMMA PrimaryIsClient == Primary \in Clients
  BY ConstantsAssumption DEF Primary

(* What Compute returns, whatever the maps are: the fields that differ are *)
(* those on which the maps do not agree, because a missing field compares  *)
(* as Nil and no value is Nil.                                             *)
LEMMA DiffIsDisagreement ==
  ASSUME NEW all, \A c \in DOMAIN all : \A f \in DOMAIN all[c] : all[c][f] # Nil
  PROVE  DiffFields(all) = {f \in Fields(all) : ~Agreed(all, f)}
<1>1. ASSUME NEW f \in Fields(all)
      PROVE  Agreed(all, f) <=> \A c, d \in DOMAIN all : Value(all[c], f) = Value(all[d], f)
  <2>1. Agreed(all, f) => \A c, d \in DOMAIN all : Value(all[c], f) = Value(all[d], f)
    BY DEF Agreed, Value
  <2>2. ASSUME \A c, d \in DOMAIN all : Value(all[c], f) = Value(all[d], f)
        PROVE  Agreed(all, f)
    <3>1. PICK e \in DOMAIN all : f \in DOMAIN all[e]
      BY <1>1 DEF Fields
    <3>2. Value(all[e], f) # Nil
      BY <3>1 DEF Value
    <3>3. \A c \in DOMAIN all : f \in DOMAIN all[c]
      BY <2>2, <3>1, <3>2 DEF Value
    <3>4. \A c \in DOMAIN all : Value(all[c], f) = all[c][f]
      BY <3>3 DEF Value
    <3>5. \A c, d \in DOMAIN all : all[c][f] = all[d][f]
      BY <2>2, <3>4
    <3> QED
      BY <3>3, <3>5 DEF Agreed
  <2> QED
    BY <2>1, <2>2
<1>2. DiffFields(all)
        = {f \in Fields(all) : ~\A c, d \in DOMAIN all : Value(all[c], f) = Value(all[d], f)}
  BY DEF DiffFields, Fields
<1> QED
  BY <1>1, <1>2

LEMMA ComputeSplits ==
  ASSUME NEW all, NEW primary,
         \A c \in DOMAIN all : \A f \in DOMAIN all[c] : all[c][f] # Nil
  PROVE  Splits(all, primary)
<1> DEFINE base   == IF primary \in DOMAIN all THEN DOMAIN all[primary] ELSE {}
           diff   == DiffFields(all)
           result == Compute(all, primary)
<1>1. /\ result.common = [f \in base \ diff |-> all[primary][f]]
      /\ result.diff = [f \in diff |-> [c \in DOMAIN all |-> Value(all[c], f)]]
  BY DEF Compute
<1>2. DOMAIN result.common = base \ diff /\ DOMAIN result.diff = diff
  BY <1>1
<1>3. diff = {f \in Fields(all) : ~Agreed(all, f)}
  BY DiffIsDisagreement
<1>4. base \ diff = {f \in Fields(all) : Agreed(all, f) /\ primary \in DOMAIN all}
  <2>1. CASE primary \in DOMAIN all
    <3>1. base = DOMAIN all[primary] /\ base \subseteq Fields(all)
      BY <2>1 DEF Fields
    <3>2. \A f \in Fields(all) : Agreed(all, f) => f \in base
      BY <2>1, <3>1 DEF Agreed
    <3> HIDE DEF base, diff
    <3> QED  BY <1>3, <2>1, <3>1, <3>2
  <2>2. CASE primary \notin DOMAIN all
    <3>1. base = {}
      BY <2>2
    <3> QED  BY <2>2, <3>1
  <2> QED  BY <2>1, <2>2
<1>5. ASSUME NEW f \in base \ diff, NEW c \in DOMAIN all
      PROVE  all[c][f] = result.common[f]
  <2>1. Agreed(all, f) /\ primary \in DOMAIN all
    BY <1>4
  <2>2. all[c][f] = all[primary][f]
    BY <2>1 DEF Agreed
  <2> QED
    BY <1>1, <2>2
<1> HIDE DEF base, diff, result
<1>6. /\ DOMAIN result.diff = {f \in Fields(all) : ~Agreed(all, f)}
      /\ \A f \in DOMAIN result.common, c \in DOMAIN all : all[c][f] = result.common[f]
      /\ primary \in DOMAIN all
         => DOMAIN result.common = {f \in Fields(all) : Agreed(all, f)}
  BY <1>2, <1>3, <1>4, <1>5
<1> QED
  BY <1>6 DEF Splits, result

(* The maps of the records satisfy the assumption of ComputeSplits.        *)
LEMMA MapsHaveNoNil ==
  ASSUME NEW raw \in [Clients -> Record], NEW all \in {TxMaps(raw), MetaMaps(raw)}
  PROVE  \A c \in DOMAIN all : \A f \in DOMAIN all[c] : all[c][f] # Nil
<1>1. ASSUME NEW c \in Found(raw), NEW f \in DOMAIN TxMap(raw[c])
      PROVE  TxMap(raw[c])[f] # Nil
  <2>1. TxMap(raw[c])[f] \in {0, 1}
    BY <1>1 DEF TxMap
  <2> QED
    BY <2>1, ConstantsAssumption
<1>2. ASSUME NEW c \in Found(raw), NEW f \in DOMAIN MetaMap(raw[c])
      PROVE  MetaMap(raw[c])[f] # Nil
  <2>1. raw[c].status \in Statuses
    BY DEF Found, Record
  <2>2. MetaMap(raw[c])[f] = raw[c].status
    BY <1>2 DEF MetaMap
  <2> QED
    BY <2>1, <2>2, ConstantsAssumption
<1> QED
  BY <1>1, <1>2 DEF TxMaps, MetaMaps

-----------------------------------------------------------------------------
(* Type correctness.                                                       *)

LEMMA InitType == Init => TypeOK
<1> SUFFICES ASSUME Init PROVE TypeOK  OBVIOUS
<1>1. NoRecord \in Record  BY DEF NoRecord, Record
<1>2. Len(Endpoints) \in Nat /\ 1 \in 1 .. Len(Endpoints) + 1
  BY ConstantsAssumption
<1>3. 0 \in 0 .. MaxWrites /\ 0 \in 0 .. MaxFaults  BY ConstantsAssumption
<1>4. [c \in Clients |-> NoRecord] \in [Clients -> Record]  BY <1>1
<1>5. NoReader \in Reader
  BY <1>2, <1>4 DEF NoReader, Reader
<1>6. NoRequest \in [kind : {"none", "list", "one"}, picked : SUBSET Hashes,
                     phase : {"idle", "details", "summaries", "answered"}]
  BY DEF NoRequest
<1>7. \A h \in Hashes : reader[h].phase = "read" => reader[h].next <= Len(Endpoints)
  BY DEF Init, NoReader
<1>8. NothingSeen \in [Clients -> [Hashes -> SUBSET Record]]
  BY DEF NothingSeen
<1> QED  BY <1>1, <1>3, <1>5, <1>6, <1>7, <1>8 DEF Init, TypeOK, NoTime

(* A read moves the goroutine of a hash to the next client, or to the end. *)
LEMMA ProceedType ==
  ASSUME TypeOK, NEW h \in Hashes, reader[h].phase = "read",
         NEW raw \in [Clients -> Record], Proceed(h, raw)
  PROVE  /\ reader' \in [Hashes -> Reader]
         /\ \A g \in Hashes :
              reader'[g].phase = "read" => reader'[g].next <= Len(Endpoints)
<1>1. Len(Endpoints) \in Nat  BY ConstantsAssumption
<1>2. reader[h].next \in 1 .. Len(Endpoints)  BY <1>1 DEF TypeOK, Reader
<1> DEFINE new == [phase |-> IF reader[h].next = Len(Endpoints) THEN "append" ELSE "read",
                   next |-> reader[h].next + 1, raw |-> raw, base |-> {}]
<1>3. new \in Reader  BY <1>1, <1>2 DEF Reader
<1>4. new.phase = "read" => new.next <= Len(Endpoints)  BY <1>1, <1>2
<1>5. reader' = [reader EXCEPT ![h] = new]  BY DEF Proceed
<1> HIDE DEF new
<1> QED  BY <1>3, <1>4, <1>5 DEF TypeOK

LEMMA TypeStep == TypeOK /\ [Next]_vars => TypeOK'
<1> SUFFICES ASSUME TypeOK, [Next]_vars PROVE TypeOK'  OBVIOUS
<1>1. CASE Pipelines
  <2>1. ASSUME NEW h \in Hashes, NEW t \in 0 .. MaxTime, Detect(h, t) PROVE TypeOK'
    BY <2>1 DEF Detect, Shared!List, answerVars, TypeOK
  <2>2. ASSUME NEW c \in Clients, NEW h \in Hashes, NEW s \in Statuses, NEW tx \in BOOLEAN,
               CountWrite, Shared!Put(c, h, s, tx), See(c, h)
        PROVE  TypeOK'
    <3>1. writes' \in 0 .. MaxWrites  BY <2>2, ConstantsAssumption DEF CountWrite, TypeOK
    <3>2. [status |-> s, tx |-> tx] \in Record  BY DEF Record
    <3>3. recs' \in [Clients -> [Hashes -> Record]]  BY <2>2, <3>2 DEF Shared!Put, TypeOK
    <3>4. had' \in [Clients -> [Hashes -> SUBSET Record]]
      <4>1. recs'[c][h] \in Record  BY <3>3
      <4>2. PICK rec \in Record : rec = recs'[c][h]  BY <4>1
      <4>3. had' = had \/ had' = [had EXCEPT ![c][h] = @ \cup {rec}]
        BY <2>2, <4>2 DEF See
      <4>4. had[c][h] \cup {rec} \in SUBSET Record  BY DEF TypeOK
      <4> DEFINE new == had[c][h] \cup {rec}
      <4>5. had' = had \/ had' = [had EXCEPT ![c][h] = new]  BY <4>3
      <4>6. new \in SUBSET Record  BY <4>4
      <4> HIDE DEF new
      <4> DEFINE T == SUBSET Record
      <4>7. had \in [Clients -> [Hashes -> T]] /\ new \in T  BY <4>6 DEF TypeOK
      <4> HIDE DEF T
      <4>8. had' \in [Clients -> [Hashes -> T]]  BY <4>5, <4>7
      <4> QED  BY <4>8 DEF T
    <3> QED  BY <2>2, <3>1, <3>3, <3>4 DEF CountWrite, Shared!Put, answerVars, TypeOK
  <2>3. ASSUME NEW c \in Clients, NEW h \in Hashes, StoreRecord(c, h) PROVE TypeOK'
    BY <2>2, <2>3 DEF StoreRecord, Shared!Store, Statuses
  <2>4. ASSUME NEW c \in Clients, NEW h \in Hashes, NEW s \in Statuses \ {"received"},
               NEW tx \in BOOLEAN, UpdateRecord(c, h, s, tx)
        PROVE  TypeOK'
    BY <2>2, <2>4 DEF UpdateRecord, Shared!Update
  <2> QED  BY <1>1, <2>1, <2>3, <2>4 DEF Pipelines
<1>2. ASSUME NEW kind \in {"list", "one"}, NEW picked \in SUBSET Hashes, Ask(kind, picked)
      PROVE  TypeOK'
  <2>1. Len(Endpoints) \in Nat /\ 1 <= Len(Endpoints)  BY ConstantsAssumption
  <2>2. [c \in Clients |-> NoRecord] \in [Clients -> Record]  BY DEF NoRecord, Record
  <2>3. /\ NoReader \in Reader /\ [NoReader EXCEPT !.phase = "read"] \in Reader
        /\ NoReader.next = 1 /\ [NoReader EXCEPT !.phase = "read"].next = 1
    BY <2>1, <2>2 DEF NoReader, Reader
  <2>4. /\ reader' \in [Hashes -> Reader]
        /\ \A h \in Hashes : reader'[h].next <= Len(Endpoints)
    BY <1>2, <2>1, <2>3 DEF Ask
  <2>5. request' \in [kind : {"none", "list", "one"}, picked : SUBSET Hashes,
                      phase : {"idle", "details", "summaries", "answered"}]
    BY <1>2 DEF Ask
  <2>6. had' \in [Clients -> [Hashes -> SUBSET Record]]  BY <1>2 DEF Ask, TypeOK
  <2> QED  BY <1>2, <2>4, <2>5, <2>6 DEF Ask, redisVars, TypeOK
<1>3. CASE \E n \in 1 .. Cardinality(Hashes) : AskLatest(n)
  <2>1. PICK n \in 1 .. Cardinality(Hashes) : Ask("list", Latest(n))
    BY <1>3 DEF AskLatest
  <2>2. Latest(n) \in SUBSET Hashes  BY DEF Latest, Listed
  <2> QED  BY <1>2, <2>1, <2>2
<1>flt. Fault => faults' \in 0 .. MaxFaults
  BY ConstantsAssumption DEF Fault, TypeOK
<1>4. CASE AskFails
  BY <1>4, <1>flt DEF AskFails, redisVars, answerVars, TypeOK
<1>5. ASSUME NEW h \in Hashes, AskOne(h) PROVE TypeOK'
  BY <1>2, <1>5 DEF AskOne
<1>6. ASSUME NEW h \in Hashes, ReadRecord(h) PROVE TypeOK'
  <2> DEFINE raw == [reader[h].raw EXCEPT ![NextClient(h)] = recs[NextClient(h)][h]]
  <2>1. Len(Endpoints) \in Nat /\ reader[h].next \in 1 .. Len(Endpoints)
    BY <1>6, ConstantsAssumption DEF ReadRecord, TypeOK, Reader
  <2>2. NextClient(h) \in Clients  BY <2>1, ConstantsAssumption DEF NextClient
  <2>3. raw \in [Clients -> Record]  BY <2>2 DEF TypeOK, Reader
  <2>4. reader[h].phase = "read" /\ Proceed(h, raw)  BY <1>6 DEF ReadRecord
  <2> QED  BY <1>6, <2>3, <2>4, ProceedType DEF ReadRecord, redisVars, TypeOK
<1>7. ASSUME NEW h \in Hashes, ReadFails(h) PROVE TypeOK'
  <2>1. reader[h].raw \in [Clients -> Record]  BY DEF TypeOK, Reader
  <2>2. reader[h].phase = "read" /\ Proceed(h, reader[h].raw)  BY <1>7 DEF ReadFails
  <2> QED  BY <1>7, <1>flt, <2>1, <2>2, ProceedType DEF ReadFails, redisVars, TypeOK
<1>lock. ASSUME NEW h \in Hashes, LockDetails(h) PROVE TypeOK'
  <2> DEFINE new == [phase |-> "holding", next |-> reader[h].next, raw |-> reader[h].raw,
                     base |-> details]
  <2>1. new \in Reader /\ new.phase # "read"  BY DEF TypeOK, Reader
  <2>2. reader' = [reader EXCEPT ![h] = new]
    BY <1>lock DEF LockDetails, ReadSlice
  <2> HIDE DEF new
  <2> QED  BY <1>lock, <2>1, <2>2 DEF LockDetails, ReadSlice, redisVars, TypeOK
<1>8. ASSUME NEW h \in Hashes, AppendDetails(h) PROVE TypeOK'
  <2> DEFINE new == [hash |-> h, raw |-> reader[h].raw]
  <2>1. new \in Answer /\ reader[h].base \in SUBSET Answer
    BY DEF TypeOK, Answer, Reader
  <2>2. details' = reader[h].base \cup {new}  BY <1>8 DEF AppendDetails
  <2>3. [c \in Clients |-> NoRecord] \in [Clients -> Record]  BY DEF NoRecord, Record
  <2>4. Len(Endpoints) \in Nat /\ 1 \in 1 .. Len(Endpoints) + 1  BY ConstantsAssumption
  <2>5. NoReader \in Reader /\ NoReader.phase = "idle"
    BY <2>3, <2>4 DEF NoReader, Reader
  <2>6. reader' = [reader EXCEPT ![h] = NoReader]  BY <1>8 DEF AppendDetails
  <2> HIDE DEF new
  <2>7. details' \in SUBSET Answer  BY <2>1, <2>2
  <2> QED  BY <1>8, <2>5, <2>6, <2>7 DEF AppendDetails, redisVars, TypeOK
<1>9. ASSUME NEW h \in Hashes, Summarise(h) \/ SummariseFails(h) PROVE TypeOK'
  BY <1>9, <1>flt DEF Summarise, SummariseFails, redisVars, TypeOK
<1>10. CASE RequestStep
  <2>1. {d.hash : d \in details} \in SUBSET Hashes  BY DEF TypeOK, Answer
  <2>2. CASE DetailsDone
    BY <2>1, <2>2 DEF DetailsDone, redisVars, TypeOK
  <2>3. CASE SummariesDone
    BY <2>3 DEF SummariesDone, redisVars, TypeOK
  <2>4. CASE Respond
    BY <2>4 DEF Respond, NoRequest, NothingSeen, redisVars, TypeOK
  <2> QED  BY <1>10, <2>2, <2>3, <2>4 DEF RequestStep
<1>11. CASE UNCHANGED vars
  BY <1>11 DEF vars, TypeOK
<1> QED
  BY <1>1, <1>3, <1>4, <1>5, <1>6, <1>7, <1>lock, <1>8, <1>9, <1>10, <1>11
  DEF Next, ReaderStep

(* Every reachable state is type-correct.                                  *)
THEOREM TypeCorrect == Spec => []TypeOK
BY InitType, TypeStep, PTL DEF Spec

-----------------------------------------------------------------------------
(* What the goroutines have collected.                                     *)

LEMMA InitCollect == Init => CollectInv /\ SummaryInv
<1> SUFFICES ASSUME Init PROVE CollectInv /\ SummaryInv  OBVIOUS
<1>1. Working = {} /\ Answered = {}  BY DEF Init, NoReader, Working, Answered
<1> QED
  BY <1>1 DEF Init, NoRequest, CollectInv, SummaryInv, AnsweredOnce

(* At most one goroutine is appending, to the slice as it is.              *)
Holds(h) == reader[h].phase = "holding"
HoldInv ==
  \A g, h \in Working : Holds(g) => reader[g].base = details /\ (Holds(h) => g = h)

LEMMA HoldsIsCollected == CollectInv => HoldInv
  BY DEF CollectInv, HoldInv, Holds

(* A step that leaves the goroutines and their answers alone.              *)
LEMMA SameCollected ==
  ASSUME CollectInv, UNCHANGED <<reader, details, request>>
  PROVE  CollectInv'
<1>1. Working' = Working /\ Answered' = Answered  BY DEF Working, Answered
<1> QED  BY <1>1 DEF CollectInv, AnsweredOnce

(* A goroutine that reads a record goes on working.                        *)
LEMMA ProceedCollect ==
  ASSUME TypeOK, CollectInv, NEW h \in Hashes, reader[h].phase = "read",
         NEW raw, Proceed(h, raw), UNCHANGED <<details, request>>
  PROVE  CollectInv'
<1>1. \A g \in Hashes \ {h} : reader'[g] = reader[g]
  BY DEF Proceed, TypeOK
<1>2. reader'[h].phase # "idle"  BY DEF Proceed, TypeOK
<1>3. Working' = Working  BY <1>1, <1>2 DEF Working
<1>4. Answered' = Answered  BY DEF Answered
<1>5. reader'[h].phase # "holding"  BY DEF Proceed, TypeOK
<1>6. \A g, k \in Working : reader'[g].phase = "holding" =>
        reader'[g].base = details /\ (reader'[k].phase = "holding" => g = k)
  BY <1>1, <1>5 DEF CollectInv, Working
<1> QED  BY <1>3, <1>4, <1>6 DEF CollectInv, AnsweredOnce

LEMMA CollectStep == TypeOK /\ CollectInv /\ [Next]_vars => CollectInv'
<1> SUFFICES ASSUME TypeOK, CollectInv, [Next]_vars PROVE CollectInv'  OBVIOUS
<1>1. CASE Pipelines
  <2>1. UNCHANGED <<reader, details, request>>
    BY <1>1 DEF Pipelines, Detect, StoreRecord, UpdateRecord, CountWrite, answerVars
  <2> QED  BY <2>1, SameCollected
<1>2. ASSUME NEW kind, NEW picked \in SUBSET Hashes, Ask(kind, picked) PROVE CollectInv'
  <2>1. details' = {} /\ request'.phase = "details" /\ request'.picked = picked
    BY <1>2 DEF Ask, CollectInv
  <2>2. Answered' = {}  BY <2>1 DEF Answered
  <2>3. Working' = picked  BY <1>2 DEF Ask, Working, NoReader
  <2>4. \A h \in Hashes : reader'[h].phase # "holding"  BY <1>2 DEF Ask, NoReader
  <2> QED  BY <2>1, <2>2, <2>3, <2>4 DEF CollectInv, AnsweredOnce
<1>3. CASE \E n \in 1 .. Cardinality(Hashes) : AskLatest(n)
  <2>1. PICK n \in 1 .. Cardinality(Hashes) : Ask("list", Latest(n))
    BY <1>3 DEF AskLatest
  <2>2. Latest(n) \in SUBSET Hashes  BY DEF Latest, Listed
  <2> QED  BY <1>2, <2>1, <2>2
<1>4. ASSUME NEW h \in Hashes, AskOne(h) PROVE CollectInv'
  BY <1>2, <1>4 DEF AskOne
<1>5. CASE AskFails
  BY <1>5, SameCollected DEF AskFails, answerVars
<1>6. ASSUME NEW h \in Hashes, ReadRecord(h) \/ ReadFails(h) PROVE CollectInv'
  BY <1>6, ProceedCollect DEF ReadRecord, ReadFails
<1>lock. ASSUME NEW h \in Hashes, LockDetails(h) PROVE CollectInv'
  <2>1. /\ reader' = [reader EXCEPT ![h] = [phase |-> "holding", next |-> reader[h].next,
                                             raw |-> reader[h].raw, base |-> details]]
        /\ reader[h].phase = "append" /\ UNCHANGED <<details, request>>
        /\ \A g \in Hashes : reader[g].phase # "holding"
    BY <1>lock DEF LockDetails, ReadSlice
  <2>2. \A g \in Hashes \ {h} : reader'[g] = reader[g]  BY <2>1 DEF TypeOK
  <2>3. reader'[h].phase = "holding" /\ reader'[h].base = details
    BY <2>1 DEF TypeOK, Reader
  <2>4. Working' = Working /\ Answered' = Answered /\ Working \subseteq Hashes
    BY <2>1, <2>2, <2>3 DEF Working, Answered
  <2>5. \A g, k \in Working : reader'[g].phase = "holding" =>
          reader'[g].base = details /\ (reader'[k].phase = "holding" => g = k)
    BY <2>1, <2>2, <2>3, <2>4
  <2> QED  BY <2>1, <2>4, <2>5 DEF CollectInv, AnsweredOnce
<1>7. ASSUME NEW h \in Hashes, AppendDetails(h) PROVE CollectInv'
  <2> DEFINE new == [hash |-> h, raw |-> reader[h].raw]
  <2>hold. h \in Working /\ reader[h].base = details
    BY <1>7 DEF AppendDetails, Working, CollectInv
  <2>1. details' = details \cup {new} /\ request' = request
    BY <1>7, <2>hold DEF AppendDetails
  <2>2. h \in Working  BY <1>7 DEF AppendDetails, Working
  <2>3. Working' = Working \ {h}
    <3>1. reader' = [reader EXCEPT ![h] = NoReader]  BY <1>7 DEF AppendDetails
    <3>2. reader'[h].phase = "idle"  BY <3>1 DEF NoReader, TypeOK
    <3>3. \A g \in Hashes \ {h} : reader'[g] = reader[g]  BY <3>1 DEF TypeOK
    <3> QED  BY <3>2, <3>3 DEF Working
  <2>4. Answered' = Answered \cup {h}
    <3>1. new.hash = h  OBVIOUS
    <3> HIDE DEF new
    <3> QED  BY <2>1, <3>1 DEF Answered
  <2>5. h \notin Answered  BY <2>2 DEF CollectInv
  <2>6. AnsweredOnce'
    <3>1. \A d \in details : d.hash # h  BY <2>5 DEF Answered
    <3>2. new.hash = h  OBVIOUS
    <3>3. \A d, e \in details : d.hash = e.hash => d = e
      BY DEF CollectInv, AnsweredOnce
    <3> HIDE DEF new
    <3>4. \A d, e \in details \cup {new} : d.hash = e.hash => d = e
      BY <3>1, <3>2, <3>3
    <3> QED  BY <2>1, <3>4 DEF AnsweredOnce
  <2>7. request.phase = "details"  BY <2>2 DEF CollectInv
  <2>8. \A g \in Working' : reader'[g].phase # "holding"
    <3>1. \A g \in Working' : g \in Working \ {h} /\ reader'[g] = reader[g]
      BY <1>7, <2>3 DEF AppendDetails, Working, TypeOK
    <3>2. Holds(h)  BY <1>7 DEF AppendDetails, Holds
    <3>3. \A g \in Working : Holds(g) => g = h
      BY <2>2, <3>2, HoldsIsCollected DEF HoldInv
    <3> QED  BY <3>1, <3>3 DEF Holds
  <2> HIDE DEF new
  <2> QED  BY <2>1, <2>2, <2>3, <2>4, <2>6, <2>7, <2>8 DEF CollectInv
<1>8. ASSUME NEW h \in Hashes, Summarise(h) \/ SummariseFails(h) PROVE CollectInv'
  BY <1>8, SameCollected DEF Summarise, SummariseFails
<1>9. CASE DetailsDone \/ SummariesDone
  <2>1. Working = {}
    BY <1>9 DEF DetailsDone, SummariesDone, Working, CollectInv
  <2>2. Working' = Working /\ Answered' = Answered /\ details' = details
    BY <1>9 DEF DetailsDone, SummariesDone, Working, Answered
  <2>3. request'.picked = request.picked /\ request'.phase \in {"summaries", "answered"}
    BY <1>9 DEF DetailsDone, SummariesDone, TypeOK
  <2> QED  BY <2>1, <2>2, <2>3 DEF CollectInv, AnsweredOnce
<1>10. CASE Respond
  <2>1. Working = {} /\ Working' = Working
    BY <1>10 DEF Respond, Working, CollectInv
  <2>2. details' = {} /\ Answered' = {}  BY <1>10 DEF Respond, Answered
  <2>3. request'.phase = "idle" /\ request'.picked = {}
    BY <1>10 DEF Respond, NoRequest
  <2> QED  BY <2>1, <2>2, <2>3 DEF CollectInv, AnsweredOnce
<1>11. CASE UNCHANGED vars
  BY <1>11, SameCollected DEF vars
<1> QED
  BY <1>1, <1>3, <1>4, <1>5, <1>6, <1>lock, <1>7, <1>8, <1>9, <1>10, <1>11
  DEF Next, ReaderStep, RequestStep

-----------------------------------------------------------------------------
(* What the goroutines have read.                                          *)

(* What a client has had since the request came in is only added to.       *)
HadGrows == \A c \in Clients, h \in Hashes : had[c][h] \subseteq had'[c][h]

LEMMA GenuineStays ==
  ASSUME HadGrows, faults > 0 => faults' > 0,
         NEW c \in Clients, NEW h \in Hashes, NEW rec, Genuine(rec, c, h)
  PROVE  Genuine(rec, c, h)'
BY DEF HadGrows, Genuine

LEMMA EndpointsAreClients ==
  /\ Len(Endpoints) \in Nat /\ DOMAIN Endpoints = 1 .. Len(Endpoints)
  /\ \A i \in DOMAIN Endpoints : Endpoints[i] \in Clients
BY ConstantsAssumption

(* The answers stay genuine.                                               *)
LEMMA AnswersStay ==
  ASSUME TypeOK, AnswersAreOfTheRequest, details' = details,
         HadGrows, faults > 0 => faults' > 0
  PROVE  AnswersAreOfTheRequest'
<1> SUFFICES ASSUME NEW d \in details, NEW i \in DOMAIN Endpoints
             PROVE  Genuine(d.raw[Endpoints[i]], Endpoints[i], d.hash)'
  BY DEF AnswersAreOfTheRequest
<1>1. d.hash \in Hashes /\ Endpoints[i] \in Clients
  BY EndpointsAreClients DEF TypeOK, Answer
<1>2. PICK rec : rec = d.raw[Endpoints[i]]
  OBVIOUS
<1>3. Genuine(rec, Endpoints[i], d.hash)
  BY <1>2 DEF AnswersAreOfTheRequest
<1>4. Genuine(rec, Endpoints[i], d.hash)'
  BY <1>1, <1>3, GenuineStays
<1> QED
  BY <1>2, <1>4

(* What is known of one goroutine.                                         *)
ReaderOf(s, h) ==
  /\ \A i \in DOMAIN Endpoints :
       LET rec == s.raw[Endpoints[i]] IN
         IF i < s.next THEN Genuine(rec, Endpoints[i], h) ELSE rec = NoRecord
  /\ s.phase \in {"append", "holding"} => s.next > Len(Endpoints)

LEMMA ReadInvParts ==
  ReadInv <=> /\ \A c \in Clients, h \in request.picked : recs[c][h] \in had[c][h]
              /\ \A h \in Working : ReaderOf(reader[h], h)
              /\ AnswersAreOfTheRequest
BY DEF ReadInv, ReaderOf

LEMMA ReadInvNext ==
  ASSUME \A c \in Clients, h \in request'.picked : recs'[c][h] \in had'[c][h],
         \A h \in Working' : ReaderOf(reader[h], h)',
         AnswersAreOfTheRequest'
  PROVE  ReadInv'
BY DEF ReadInv, ReaderOf

(* A goroutine that does nothing stays as it is.                           *)
LEMMA ReaderStays ==
  ASSUME HadGrows, faults > 0 => faults' > 0,
         NEW h \in Hashes, NEW s, ReaderOf(s, h)
  PROVE  ReaderOf(s, h)'
<1> SUFFICES ASSUME NEW i \in DOMAIN Endpoints
             PROVE  IF i < s.next THEN Genuine(s.raw[Endpoints[i]], Endpoints[i], h)'
                                  ELSE s.raw[Endpoints[i]] = NoRecord
  BY DEF ReaderOf, Genuine
<1>1. CASE i < s.next
  <2>1. Genuine(s.raw[Endpoints[i]], Endpoints[i], h)
    BY <1>1 DEF ReaderOf
  <2>2. PICK rec : rec = s.raw[Endpoints[i]]
    OBVIOUS
  <2>3. Genuine(rec, Endpoints[i], h)'
    BY <2>1, <2>2, GenuineStays, EndpointsAreClients
  <2> QED  BY <1>1, <2>2, <2>3
<1>2. CASE ~(i < s.next)
  BY <1>2 DEF ReaderOf
<1> QED
  BY <1>1, <1>2

LEMMA AllReadersStay ==
  ASSUME TypeOK, ReadInv, HadGrows, faults > 0 => faults' > 0
  PROVE  \A h \in Hashes :
           reader'[h] = reader[h] /\ reader[h].phase # "idle" => ReaderOf(reader[h], h)'
<1> SUFFICES ASSUME NEW h \in Hashes, reader'[h] = reader[h], reader[h].phase # "idle"
             PROVE  ReaderOf(reader[h], h)'
  OBVIOUS
<1>1. PICK s : s = reader[h]
  OBVIOUS
<1>2. ReaderOf(s, h)
  BY <1>1, ReadInvParts DEF Working
<1>3. ReaderOf(s, h)'
  BY <1>2, ReaderStays
<1> QED
  BY <1>1, <1>3 DEF ReaderOf, Genuine

(* A step that starts, moves and ends no goroutine.                        *)
LEMMA SameRead ==
  ASSUME TypeOK, ReadInv, UNCHANGED <<reader, details>>, request'.picked = request.picked,
         HadGrows, faults > 0 => faults' > 0,
         \A c \in Clients, h \in request.picked : recs'[c][h] \in had'[c][h]
  PROVE  ReadInv'
<1>1. AnswersAreOfTheRequest'
  BY AnswersStay DEF ReadInv
<1>2. Working \subseteq Hashes /\ Working' = Working
  BY DEF Working
<1>3. \A h \in Working' : ReaderOf(reader[h], h)'
  BY <1>2, AllReadersStay DEF Working
<1> QED
  BY <1>1, <1>3, ReadInvNext

(* A goroutine that has read the next client.                              *)
LEMMA ProceedRead ==
  ASSUME TypeOK, ReadInv, NEW h \in Hashes, reader[h].phase = "read",
         UNCHANGED <<recs, request, details, had>>, faults > 0 => faults' > 0,
         NEW c \in Clients, c = NextClient(h), NEW rec, Genuine(rec, c, h)',
         NEW raw \in [Clients -> Record], Proceed(h, raw), raw[c] = rec,
         \A d \in Clients \ {c} : raw[d] = reader[h].raw[d]
  PROVE  ReadInv'
<1>1. HadGrows
  BY DEF HadGrows
<1>n. PICK n : n = reader[h].next
  OBVIOUS
<1> DEFINE new == [phase |-> IF n = Len(Endpoints) THEN "append" ELSE "read",
                   next |-> n + 1, raw |-> raw, base |-> {}]
<1>2. reader' = [reader EXCEPT ![h] = new]
  BY <1>n DEF Proceed
<1>3. n \in DOMAIN Endpoints /\ Endpoints[n] = c
  BY <1>n, EndpointsAreClients DEF TypeOK, Reader, NextClient
<1>4. ReaderOf(reader[h], h)
  BY ReadInvParts DEF Working
<1>5. ASSUME NEW i \in DOMAIN Endpoints
      PROVE  IF i < n + 1 THEN Genuine(raw[Endpoints[i]], Endpoints[i], h)'
                          ELSE raw[Endpoints[i]] = NoRecord
  <2>0. n \in Int /\ i \in Int
    BY <1>3, EndpointsAreClients
  <2>1. CASE i = n
    <3>1. Endpoints[i] = c /\ raw[Endpoints[i]] = rec /\ i < n + 1
      BY <1>3, <2>0, <2>1
    <3> QED  BY <3>1
  <2>2. CASE i # n
    <3>1. Endpoints[i] \in Clients \ {c}
      BY <1>3, <2>2, ConstantsAssumption, EndpointsAreClients
    <3>2. raw[Endpoints[i]] = reader[h].raw[Endpoints[i]]
      BY <3>1
    <3>3. PICK r : r = raw[Endpoints[i]]
      OBVIOUS
    <3>4. IF i < n THEN Genuine(r, Endpoints[i], h) ELSE r = NoRecord
      BY <1>n, <1>4, <3>2, <3>3 DEF ReaderOf
    <3>5. Genuine(r, Endpoints[i], h) => Genuine(r, Endpoints[i], h)'
      BY <1>1, <3>1, GenuineStays
    <3>6. i < n <=> i < n + 1
      BY <2>0, <2>2
    <3> QED  BY <3>3, <3>4, <3>5, <3>6
  <2> QED  BY <2>1, <2>2
<1>6. n \in Nat /\ Len(Endpoints) \in Nat
  BY <1>3, EndpointsAreClients
<1>7. reader'[h] = new /\ \A g \in Hashes \ {h} : reader'[g] = reader[g]
  BY <1>2 DEF TypeOK
<1>8. ReaderOf(new, h)'
  <2>1. new.raw = raw /\ new.next = n + 1 /\ (new.phase \in {"append", "holding"} => n = Len(Endpoints))
    OBVIOUS
  <2> HIDE DEF new
  <2>2. new.phase \in {"append", "holding"} => new.next > Len(Endpoints)
    BY <1>6, <2>1
  <2>3. \A i \in DOMAIN Endpoints :
          IF i < new.next THEN Genuine(new.raw[Endpoints[i]], Endpoints[i], h)'
                          ELSE new.raw[Endpoints[i]] = NoRecord
    BY <1>5, <2>1
  <2> QED  BY <2>2, <2>3 DEF ReaderOf
<1>9. \A g \in Working' : ReaderOf(reader[g], g)'
  <2> HIDE DEF new
  <2>1. \A g \in Working' : g \in Hashes /\ reader'[g].phase # "idle"
    BY DEF Working
  <2>2. ASSUME NEW g \in Working', g # h  PROVE ReaderOf(reader[g], g)'
    <3>1. reader'[g] = reader[g] /\ reader[g].phase # "idle"
      BY <1>7, <2>1, <2>2
    <3> QED  BY <1>1, <2>1, <3>1, AllReadersStay
  <2>3. ReaderOf(reader[h], h)'
    BY <1>7, <1>8 DEF ReaderOf
  <2> QED  BY <2>2, <2>3
<1>10. AnswersAreOfTheRequest'
  BY <1>1, AnswersStay DEF ReadInv
<1>11. \A d \in Clients, g \in request'.picked : recs'[d][g] \in had'[d][g]
  BY DEF ReadInv
<1> QED
  BY <1>9, <1>10, <1>11, ReadInvNext

LEMMA ReadStep == TypeOK /\ CollectInv /\ ReadInv /\ [Next]_vars => ReadInv'
<1> SUFFICES ASSUME TypeOK, CollectInv, ReadInv, [Next]_vars PROVE ReadInv'  OBVIOUS
<1>type. TypeOK'  BY TypeStep
<1>0. had' = had => HadGrows
  BY DEF HadGrows
<1>1. Fault => (faults > 0 => faults' > 0)
  BY DEF Fault, TypeOK
<1>2. Working \subseteq Hashes /\ Working \subseteq request.picked /\ request.picked \subseteq Hashes
  BY DEF CollectInv, Working, TypeOK
<1>3. ASSUME UNCHANGED <<recs, had, reader, details>>, request'.picked = request.picked,
             faults > 0 => faults' > 0
      PROVE  ReadInv'
  <2>1. \A c \in Clients, h \in request.picked : recs'[c][h] \in had'[c][h]
    BY <1>3 DEF ReadInv
  <2> QED  BY <1>0, <1>3, <2>1, SameRead
<1>4. CASE Pipelines
  <2>1. UNCHANGED <<reader, details, request, faults>>
    BY <1>4 DEF Pipelines, Detect, StoreRecord, UpdateRecord, CountWrite, answerVars
  <2>2. ASSUME NEW h \in Hashes, NEW t \in 0 .. MaxTime, Detect(h, t)  PROVE ReadInv'
    BY <1>3, <2>1, <2>2 DEF Detect, Shared!List
  <2>3. ASSUME NEW c \in Clients, NEW h \in Hashes, NEW s, NEW tx, Shared!Put(c, h, s, tx),
               See(c, h)
        PROVE  ReadInv'
    <3>1. PICK rec : rec = recs'[c][h] /\ recs' = [recs EXCEPT ![c][h] = rec]
      BY <2>3 DEF Shared!Put, TypeOK
    <3>2. had' = IF h \in request.picked THEN [had EXCEPT ![c][h] = had[c][h] \cup {rec}] ELSE had
      BY <2>3, <3>1 DEF See
    <3>3. HadGrows
      BY <3>2 DEF HadGrows, TypeOK
    <3>4. \A d \in Clients, g \in request.picked : recs'[d][g] \in had'[d][g]
      <4> SUFFICES ASSUME NEW d \in Clients, NEW g \in request.picked
                   PROVE  recs'[d][g] \in had'[d][g]
        OBVIOUS
      <4>1. recs[d][g] \in had[d][g] /\ g \in Hashes
        BY <1>2 DEF ReadInv
      <4>2. CASE d = c /\ g = h
        BY <3>1, <3>2, <4>1, <4>2 DEF TypeOK
      <4>3. CASE ~(d = c /\ g = h)
        <5>1. recs'[d][g] = recs[d][g]
          BY <3>1, <4>1, <4>3 DEF TypeOK
        <5> QED  BY <3>3, <4>1, <5>1 DEF HadGrows
      <4> QED  BY <4>2, <4>3
    <3> QED  BY <2>1, <3>3, <3>4, SameRead
  <2>4. ASSUME NEW c \in Clients, NEW h \in Hashes, StoreRecord(c, h)  PROVE ReadInv'
    BY <2>3, <2>4 DEF StoreRecord, Shared!Store
  <2>5. ASSUME NEW c \in Clients, NEW h \in Hashes, NEW s, NEW tx, UpdateRecord(c, h, s, tx)
        PROVE  ReadInv'
    BY <2>3, <2>5 DEF UpdateRecord, Shared!Update
  <2> QED  BY <1>4, <2>2, <2>4, <2>5 DEF Pipelines
<1>5. ASSUME NEW kind, NEW picked \in SUBSET Hashes, Ask(kind, picked)  PROVE ReadInv'
  <2>1. details' = {} /\ recs' = recs /\ request'.picked = picked
    BY <1>5 DEF Ask, CollectInv, redisVars
  <2>2. AnswersAreOfTheRequest'
    BY <2>1 DEF AnswersAreOfTheRequest
  <2>3. \A c \in Clients, h \in request'.picked : recs'[c][h] \in had'[c][h]
    BY <1>5, <2>1 DEF Ask
  <2>4. ASSUME NEW h \in Working'  PROVE ReaderOf(reader[h], h)'
    <3>1. h \in picked /\ reader'[h] = [NoReader EXCEPT !.phase = "read"]
      BY <1>5, <2>4 DEF Ask, Working, NoReader
    <3>2. /\ reader'[h].phase = "read" /\ reader'[h].next = 1
          /\ \A c \in Clients : reader'[h].raw[c] = NoRecord
      BY <3>1 DEF NoReader
    <3>3. \A i \in DOMAIN Endpoints : ~(i < 1) /\ Endpoints[i] \in Clients
      BY EndpointsAreClients
    <3> QED  BY <3>2, <3>3 DEF ReaderOf
  <2> QED  BY <2>2, <2>3, <2>4, ReadInvNext
<1>6. CASE \E n \in 1 .. Cardinality(Hashes) : AskLatest(n)
  <2>1. PICK n \in 1 .. Cardinality(Hashes) : Ask("list", Latest(n))
    BY <1>6 DEF AskLatest
  <2>2. Latest(n) \in SUBSET Hashes  BY DEF Latest, Listed
  <2> QED  BY <1>5, <2>1, <2>2
<1>7. ASSUME NEW h \in Hashes, AskOne(h)  PROVE ReadInv'
  BY <1>5, <1>7 DEF AskOne
<1>8. ASSUME NEW h \in Hashes, ReadRecord(h)  PROVE ReadInv'
  <2>c. PICK c : c = NextClient(h)
    OBVIOUS
  <2> DEFINE new == [reader[h].raw EXCEPT ![c] = recs[c][h]]
  <2>raw. PICK raw : raw = new
    OBVIOUS
  <2>1. /\ reader[h].phase = "read" /\ Proceed(h, raw)
        /\ UNCHANGED <<recs, request, details, had, faults>>
    BY <1>8, <2>c, <2>raw DEF ReadRecord, redisVars
  <2>2. c \in Clients
    BY <2>c, <2>1, EndpointsAreClients DEF TypeOK, Reader, NextClient
  <2>3. h \in request.picked
    BY <1>2, <2>1 DEF Working
  <2>4. PICK rec : rec = recs[c][h] /\ rec \in had[c][h] /\ rec \in Record
    BY <2>2, <2>3 DEF ReadInv, TypeOK
  <2>5. Genuine(rec, c, h)'
    BY <2>1, <2>4 DEF Genuine
  <2>6. /\ raw \in [Clients -> Record] /\ raw[c] = rec
        /\ \A e \in Clients \ {c} : raw[e] = reader[h].raw[e]
    BY <2>2, <2>4, <2>raw DEF TypeOK, Reader
  <2> QED  BY <2>c, <2>1, <2>2, <2>5, <2>6, ProceedRead
<1>9. ASSUME NEW h \in Hashes, ReadFails(h)  PROVE ReadInv'
  <2>c. PICK c, raw : c = NextClient(h) /\ raw = reader[h].raw
    OBVIOUS
  <2>1. /\ reader[h].phase = "read" /\ Proceed(h, raw) /\ faults' > 0
        /\ UNCHANGED <<recs, request, details, had>>
    BY <1>9, <2>c DEF ReadFails, redisVars, Fault, TypeOK
  <2>2. c \in Clients /\ reader[h].next \in DOMAIN Endpoints /\ c = Endpoints[reader[h].next]
    BY <2>c, <2>1, EndpointsAreClients DEF TypeOK, Reader, NextClient
  <2>3. ReaderOf(reader[h], h)
    BY <2>1, ReadInvParts DEF Working
  <2>4. ~(reader[h].next < reader[h].next)
    BY <2>2, EndpointsAreClients
  <2>5. raw[c] = NoRecord
    BY <2>c, <2>2, <2>3, <2>4 DEF ReaderOf
  <2>6. raw \in [Clients -> Record]
    BY <2>c DEF TypeOK, Reader
  <2>7. PICK rec : rec = NoRecord
    OBVIOUS
  <2>8. Genuine(rec, c, h)'
    BY <2>1, <2>7 DEF Genuine
  <2> QED  BY <2>c, <2>1, <2>2, <2>5, <2>6, <2>7, <2>8, ProceedRead
<1>lock. ASSUME NEW h \in Hashes, LockDetails(h)  PROVE ReadInv'
  <2>1. /\ reader' = [reader EXCEPT ![h] = [phase |-> "holding", next |-> reader[h].next,
                                             raw |-> reader[h].raw, base |-> details]]
        /\ reader[h].phase = "append" /\ UNCHANGED <<recs, request, details, had, faults>>
    BY <1>lock DEF LockDetails, ReadSlice, redisVars
  <2>2. HadGrows  BY <1>0, <2>1
  <2>3. ReaderOf(reader[h], h)
    BY <2>1, ReadInvParts DEF Working
  <2>4. PICK s, t : s = reader[h] /\ t = reader'[h]
    OBVIOUS
  <2>5. ReaderOf(s, h)'
    BY <2>1, <2>2, <2>3, <2>4, ReaderStays
  <2>6. t.raw = s.raw /\ t.next = s.next /\ s.phase = "append"
    BY <2>1, <2>4 DEF TypeOK, Reader
  <2>7. ReaderOf(t, h)'
    BY <2>5, <2>6 DEF ReaderOf
  <2>8. ReaderOf(reader[h], h)'
    BY <2>4, <2>7 DEF ReaderOf
  <2>9. \A g \in Working' : g \in Hashes /\ (g # h => reader'[g] = reader[g] /\ reader[g].phase # "idle")
    BY <2>1 DEF Working, TypeOK
  <2>10. \A g \in Working' : ReaderOf(reader[g], g)'
    BY <2>1, <2>2, <2>8, <2>9, AllReadersStay
  <2>11. AnswersAreOfTheRequest'
    BY <2>1, <2>2, AnswersStay DEF ReadInv
  <2>12. \A c \in Clients, g \in request'.picked : recs'[c][g] \in had'[c][g]
    BY <2>1 DEF ReadInv
  <2> QED  BY <2>10, <2>11, <2>12, ReadInvNext
<1>10. ASSUME NEW h \in Hashes, AppendDetails(h)  PROVE ReadInv'
  <2> DEFINE new == [hash |-> h, raw |-> reader[h].raw]
  <2>hold. reader[h].phase = "holding" /\ reader[h].base = details
    BY <1>10 DEF AppendDetails, Working, CollectInv
  <2>1. /\ details' = details \cup {new}
        /\ reader' = [reader EXCEPT ![h] = NoReader]
        /\ UNCHANGED <<recs, request, had, faults>>
    BY <1>10, <2>hold DEF AppendDetails, redisVars
  <2>2. HadGrows  BY <1>0, <2>1
  <2>3. ReaderOf(reader[h], h)
    BY <2>hold, ReadInvParts DEF Working
  <2>4. \A i \in DOMAIN Endpoints : i < reader[h].next
    BY <2>hold, <2>3, EndpointsAreClients DEF ReaderOf, TypeOK, Reader
  <2>5. \A i \in DOMAIN Endpoints : Genuine(new.raw[Endpoints[i]], Endpoints[i], new.hash)
    BY <2>3, <2>4 DEF ReaderOf
  <2>6. AnswersAreOfTheRequest
    BY DEF ReadInv
  <2> HIDE DEF new
  <2>7. AnswersAreOfTheRequest'
    BY <2>1, <2>5, <2>6 DEF AnswersAreOfTheRequest, Genuine
  <2>8. \A g \in Working' : reader'[g] = reader[g] /\ reader[g].phase # "idle"
    BY <2>1 DEF TypeOK, Working, NoReader
  <2>9. \A g \in Working' : g \in Hashes
    BY DEF Working
  <2>10. \A g \in Working' : ReaderOf(reader[g], g)'
    BY <2>1, <2>2, <2>8, <2>9, AllReadersStay
  <2>11. \A c \in Clients, g \in request'.picked : recs'[c][g] \in had'[c][g]
    BY <2>1 DEF ReadInv
  <2> QED  BY <2>7, <2>10, <2>11, ReadInvNext
<1>11. CASE DetailsDone \/ SummariesDone
  <2>1. request'.picked = request.picked
    BY <1>11 DEF DetailsDone, SummariesDone, TypeOK
  <2>2. UNCHANGED <<recs, had, reader, details, faults>>
    BY <1>11 DEF DetailsDone, SummariesDone, redisVars
  <2> QED  BY <1>3, <2>1, <2>2
<1>12. CASE Respond
  <2>1. Working' = {}
    BY <1>12 DEF Respond, Working, CollectInv
  <2>2. details' = {} /\ request'.picked = {}
    BY <1>12 DEF Respond, NoRequest
  <2> QED  BY <2>1, <2>2 DEF ReadInv, AnswersAreOfTheRequest
<1>13. CASE AskFails \/ \E h \in Hashes : Summarise(h) \/ SummariseFails(h)
  <2>1. UNCHANGED <<recs, had, reader, details, request>> /\ (faults > 0 => faults' > 0)
    BY <1>1, <1>13 DEF AskFails, Summarise, SummariseFails, redisVars, answerVars
  <2> QED  BY <1>3, <2>1
<1>14. CASE UNCHANGED vars
  BY <1>3, <1>14 DEF vars
<1> QED
  BY <1>4, <1>6, <1>7, <1>8, <1>9, <1>lock, <1>10, <1>11, <1>12, <1>13,
     <1>14
  DEF Next, ReaderStep, RequestStep

-----------------------------------------------------------------------------
(* What the summaries cover.                                               *)

(* A hash that the primary client had still has a record: it has been seen.*)
LEMMA PrimaryHas ==
  ASSUME ReadInv, NEW h \in PrimaryHad
  PROVE  recs[Primary][h].status # "none"
BY PrimaryIsClient DEF ReadInv, PrimaryHad

(* Writers do not add to the hashes that the primary client had.           *)
LEMMA PrimaryHadShrinks ==
  ASSUME TypeOK, request'.picked = request.picked, HadGrows
  PROVE  PrimaryHad' \subseteq PrimaryHad
BY PrimaryIsClient DEF HadGrows, PrimaryHad, TypeOK

LEMMA SummaryStep == TypeOK /\ CollectInv /\ ReadInv /\ SummaryInv /\ [Next]_vars => SummaryInv'
<1> SUFFICES ASSUME TypeOK, CollectInv, ReadInv, SummaryInv, [Next]_vars PROVE SummaryInv'
  OBVIOUS
<1>0. had' = had => HadGrows
  BY DEF HadGrows
<1>flt. Fault => faults' # 0  BY DEF Fault, TypeOK
<1>2. ASSUME UNCHANGED <<request, pending, summaries>>, HadGrows,
             faults' = faults \/ faults' # 0
      PROVE  SummaryInv'
  <2>1. PrimaryHad' \subseteq PrimaryHad
    BY <1>2, PrimaryHadShrinks
  <2> QED  BY <1>2, <2>1 DEF SummaryInv
<1>3. CASE Pipelines
  <2>1. UNCHANGED <<request, pending, summaries, faults>>
    BY <1>3 DEF Pipelines, Detect, StoreRecord, UpdateRecord, CountWrite, answerVars
  <2>2. HadGrows
    <3>1. ASSUME NEW c \in Clients, NEW h \in Hashes, See(c, h)  PROVE HadGrows
      BY <3>1 DEF See, HadGrows, TypeOK
    <3> QED  BY <1>0, <1>3, <3>1 DEF Pipelines, Detect, StoreRecord, UpdateRecord
  <2> QED  BY <1>2, <2>1, <2>2
<1>4. ASSUME NEW kind, NEW picked, Ask(kind, picked) PROVE SummaryInv'
  <2>1. request'.phase = "details" /\ pending' = {}
    BY <1>4 DEF Ask, SummaryInv
  <2> QED  BY <2>1 DEF SummaryInv
<1>5. ASSUME NEW h \in Hashes, Summarise(h) PROVE SummaryInv'
  <2>1. request' = request /\ had' = had /\ faults' = faults
    BY <1>5 DEF Summarise, redisVars
  <2>2. h \in pending /\ pending' = pending \ {h}  BY <1>5 DEF Summarise
  <2>3. h \in PrimaryHad => h \in summaries'  BY <1>5, PrimaryHas DEF Summarise
  <2>4. summaries \subseteq summaries'  BY <1>5 DEF Summarise
  <2>5. PrimaryHad' \subseteq PrimaryHad  BY <1>0, <2>1, PrimaryHadShrinks
  <2> QED
    BY <2>1, <2>2, <2>3, <2>4, <2>5 DEF SummaryInv
<1>6. ASSUME NEW h \in Hashes, SummariseFails(h) PROVE SummaryInv'
  <2>1. request' = request /\ faults' # 0
    BY <1>6, <1>flt DEF SummariseFails, redisVars
  <2>2. h \in pending /\ pending' = pending \ {h}  BY <1>6 DEF SummariseFails
  <2> QED  BY <2>1, <2>2 DEF SummaryInv
<1>7. CASE DetailsDone
  <2>1. Working = {}  BY <1>7 DEF DetailsDone, Working
  <2>2. request.picked = Answered  BY <2>1 DEF CollectInv
  <2>3. request'.picked = request.picked /\ request'.kind = request.kind
    BY <1>7 DEF DetailsDone, TypeOK
  <2>4. CASE request.kind = "list"
    <3>1. request'.phase = "summaries" /\ pending' = Answered
      BY <1>7, <2>4 DEF DetailsDone, Answered, TypeOK
    <3> QED  BY <2>2, <2>3, <3>1 DEF SummaryInv, PrimaryHad
  <2>5. CASE request.kind # "list"
    <3>1. request'.phase = "answered" /\ pending' = {}
      BY <1>7, <2>5 DEF DetailsDone, SummaryInv, TypeOK
    <3> QED  BY <2>3, <2>5, <3>1 DEF SummaryInv
  <2> QED  BY <2>4, <2>5
<1>8. CASE SummariesDone
  <2>1. /\ request'.picked = request.picked /\ request'.kind = request.kind
        /\ request'.phase = "answered" /\ request.phase = "summaries"
    BY <1>8 DEF SummariesDone, TypeOK
  <2>2. pending = {} /\ UNCHANGED <<pending, summaries, had, faults>>
    BY <1>8 DEF SummariesDone
  <2>3. PrimaryHad' \subseteq PrimaryHad  BY <1>0, <2>1, <2>2, PrimaryHadShrinks
  <2> QED  BY <2>1, <2>2, <2>3 DEF SummaryInv
<1>9. CASE Respond
  <2>1. request'.phase = "idle" /\ pending' = pending /\ pending = {}
    BY <1>9 DEF Respond, NoRequest, SummaryInv
  <2> QED  BY <2>1 DEF SummaryInv
<1>10. CASE AskFails
  BY <1>0, <1>2, <1>10, <1>flt DEF AskFails, answerVars
<1>11. ASSUME NEW h \in Hashes, ReadRecord(h) \/ ReadFails(h) \/ LockDetails(h) \/ AppendDetails(h)
       PROVE  SummaryInv'
  BY <1>0, <1>2, <1>11, <1>flt DEF ReadRecord, ReadFails, LockDetails, ReadSlice, AppendDetails
<1>12. CASE UNCHANGED vars
  BY <1>0, <1>2, <1>12 DEF vars
<1> QED
  BY <1>3, <1>4, <1>5, <1>6, <1>7, <1>8, <1>9, <1>10, <1>11, <1>12
  DEF Next, AskLatest, AskOne, ReaderStep, RequestStep

-----------------------------------------------------------------------------
(* The theorems.                                                           *)

(* The inductive invariant holds in every reachable state.                 *)
THEOREM Inductive == Spec => []IInv
<1>1. Init => IInv
  <2>1. Init => ReadInv
    BY DEF Init, NoRequest, NoReader, Working, AnswersAreOfTheRequest, ReadInv
  <2> QED  BY <2>1, InitType, InitCollect DEF IInv
<1>2. IInv /\ [Next]_vars => IInv'
  BY TypeStep, CollectStep, ReadStep, SummaryStep DEF IInv
<1> QED  BY <1>1, <1>2, PTL DEF Spec

(* GetLatestNTransactions: whatever the goroutines read and in whatever    *)
(* order they end, there is one answer for each hash that was picked.      *)
THEOREM AnswersAreComplete == Spec => []OneAnswerPerHash
<1>1. IInv => OneAnswerPerHash
  BY DEF IInv, CollectInv, AnsweredOnce, OneAnswerPerHash, Answered
<1> QED  BY <1>1, Inductive, PTL

(* GetTxDetails: each record in an answer is one that the client has had   *)
(* since the request came in; a client is left out only if it had none     *)
(* then or the command failed.                                             *)
THEOREM AnswersAreGenuine == Spec => []AnswersAreOfTheRequest
<1>1. IInv => AnswersAreOfTheRequest
  BY DEF IInv, ReadInv
<1> QED  BY <1>1, Inductive, PTL

(* GetLatestTxSummaries: the second read of the primary client loses no    *)
(* transaction that it had when the request came in.                       *)
THEOREM SummariesAreComplete == Spec => []SummariesCoverPrimary
<1>1. IInv => SummariesCoverPrimary
  BY DEF IInv, SummaryInv, SummariesCoverPrimary
<1> QED  BY <1>1, Inductive, PTL

(* GetTxDetails: the fields that differ are those on which the records that*)
(* were read do not agree; the common ones are the others, if the primary  *)
(* client has a record, and otherwise only fields on which all agree.      *)
THEOREM AnswersSplit == Spec => []AnswersSplitFields
<1>1. TypeOK => AnswersSplitFields
  <2> SUFFICES ASSUME TypeOK, NEW d \in details
               PROVE  Splits(TxMaps(d.raw), Primary) /\ Splits(MetaMaps(d.raw), Primary)
    BY DEF AnswersSplitFields
  <2>1. d.raw \in [Clients -> Record]  BY DEF TypeOK, Answer
  <2> QED  BY <2>1, MapsHaveNoNil, ComputeSplits
<1> QED  BY <1>1, TypeCorrect, PTL

=============================================================================
