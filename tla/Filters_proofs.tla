-------------------------- MODULE Filters_proofs --------------------------
(***************************************************************************)
(* Proofs about Filters, for any transactions, details and number of       *)
(* goroutines.                                                             *)
(***************************************************************************)
EXTENDS Filters, TLAPS

LEMMA DetailsTyped ==
  ASSUME TypeOK, NEW h \in Hashes
  PROVE  /\ tx[h] \in Details
         /\ tx[h].gas \in Nat /\ tx[h].nonce \in Nat /\ tx[h].type \in Nat
<1>1. tx[h] \in Details
  BY DEF TypeOK
<1>2. tx[h].gas \in Prices /\ tx[h].nonce \in Nonces /\ tx[h].type \in Types
  BY <1>1 DEF Details
<1> QED
  BY <1>1, <1>2, ConstantsAssumption

(* Int64 and Float have integer values (redis_storage.go:215).             *)
LEMMA Int64Typed == ASSUME NEW p \in Int PROVE Int64(p) \in Int
<1>1. 2 * Half \in Nat /\ 2 * Half > 0 /\ p + Half \in Int
  BY ConstantsAssumption
<1> DEFINE n == 2 * Half
<1> HIDE DEF n
<1>2. (p + Half) % n \in Int
  BY <1>1 DEF n
<1> QED
  BY <1>2, ConstantsAssumption DEF Int64, n

LEMMA FloatTyped == ASSUME NEW n \in Int PROVE Float(n) \in Int
BY DEF Float

(* A score is exact up to 2^53: such a price is its own low 64 bits.       *)
LEMMA ExactScore ==
  ASSUME NEW p \in Nat, p <= Exact
  PROVE  Float(Int64(p)) = p
<1> DEFINE n == 2 * Half
<1>1. n \in Nat /\ p + Half \in 0 .. (n - 1) /\ Half \in Int
  BY ConstantsAssumption
<1> HIDE DEF n
<1>2. (p + Half) % n = p + Half
  BY <1>1
<1>3. Int64(p) = p
  BY <1>1, <1>2 DEF Int64, n
<1> QED
  BY <1>3, ConstantsAssumption DEF Float

LEMMA ScoresTyped ==
  ASSUME TypeOK, NEW h \in Hashes, NEW full \in BOOLEAN, NEW k \in Indexes
  PROVE  /\ Scores(Content(h, full))[k] \in Int
         /\ full => Scores(Content(h, full)) = Scores(tx[h])
<1>1. PICK d : d = Content(h, full)
  OBVIOUS
<1>2. d.gas \in Int /\ d.nonce \in Int /\ d.type \in Int
  BY <1>1, DetailsTyped DEF Content, Bare, Unknown
<1>3. Float(Int64(d.gas)) \in Int /\ Float(d.nonce) \in Int
  BY <1>2, Int64Typed, FloatTyped
<1> HIDE DEF Float, Int64
<1>4. Scores(d)[k] \in Int
  BY <1>2, <1>3 DEF Scores, Indexes
<1> QED
  BY <1>1, <1>4 DEF Content

LEMMA WorkerTyped ==
  ASSUME TypeOK, NEW w \in Workers
  PROVE  /\ worker[w] \in Update
         /\ worker[w].full \in BOOLEAN /\ worker[w].todo \in SUBSET Indexes
         /\ ~Busy(w, NoHash) => worker[w].hash \in Hashes
BY DEF TypeOK, Update, Busy

LEMMA IdleTyped ==
  /\ Idle \in Update /\ Idle.hash = NoHash
  /\ \A h \in Hashes : Idle.hash # h
BY ConstantsAssumption DEF Idle, Update

-----------------------------------------------------------------------------
LEMMA InitIInv == Init => IInv
<1> SUFFICES ASSUME Init PROVE IInv
  OBVIOUS
<1>1. TypeOK
  BY IdleTyped, ConstantsAssumption DEF Init, TypeOK
<1>2. \A w \in Workers, h \in Hashes : ~Busy(w, h)
  BY IdleTyped DEF Init, Busy
<1>3. IndexInv
  BY DEF Init, IndexInv, Indexes
<1> QED
  BY <1>1, <1>2, <1>3 DEF IInv, WorkerInv

LEMMA StoreKeeps ==
  ASSUME IInv, NEW h \in Hashes, StoreTransaction(h)
  PROVE  IInv'
<1>1. TypeOK /\ WorkerInv /\ IndexInv
  BY DEF IInv
<1>2. /\ \A g \in Hashes : recs'[g] = "full" => recs[g] = "full"
      /\ UNCHANGED <<tx, worker, index, failed, crossed, saves>>
  BY <1>1 DEF StoreTransaction, TypeOK
<1>3. TypeOK'
  BY <1>1 DEF StoreTransaction, TypeOK
<1>4. WorkerInv'
  BY <1>1, <1>2 DEF WorkerInv, Busy
<1>5. IndexInv'
  BY <1>1, <1>2 DEF IndexInv, Covered, Coming, Busy
<1> QED
  BY <1>3, <1>4, <1>5 DEF IInv

LEMMA SaveKeeps ==
  ASSUME IInv, NEW w \in Workers, NEW h \in Hashes, NEW full \in BOOLEAN, Save(w, h, full)
  PROVE  IInv'
<1>1. TypeOK /\ WorkerInv /\ IndexInv
  BY DEF IInv
<1> DEFINE new == [hash |-> h, full |-> full, todo |-> Commands(full)]
<1>2. /\ worker' = [worker EXCEPT ![w] = new] /\ Busy(w, NoHash)
      /\ UNCHANGED <<tx, index, failed>>
  BY DEF Save
<1>3. /\ new \in Update /\ new.hash = h /\ new.full = full /\ new.todo = Commands(full)
      /\ Commands(full) # {} /\ "nonce" \in Commands(full) /\ "type" \in Commands(full)
      /\ ("gas" \in Commands(full) <=> full)
  BY DEF Commands, Indexes, Update
<1> HIDE DEF new
<1>4. worker'[w] = new /\ \A v \in Workers \ {w} : worker'[v] = worker[v]
  BY <1>1, <1>2 DEF TypeOK
<1>5. \A g \in Hashes : ~Busy(w, g)
  BY <1>2, ConstantsAssumption DEF Busy
<1>6. \A v \in Workers, g \in Hashes :
        Busy(v, g)' <=> IF v = w THEN g = h ELSE Busy(v, g)
  BY <1>3, <1>4 DEF Busy
<1>7. /\ recs'[h] = "full" <=> full
      /\ \A g \in Hashes \ {h} : recs'[g] = recs[g] /\ crossed'[g] = crossed[g]
  BY <1>1 DEF Save, TypeOK
<1>8. ~(crossed'[h]) => \A u \in Workers : Busy(u, h) => ~crossed[h] /\ worker[u].full = full
  BY <1>1 DEF Save, TypeOK
<1>9. TypeOK'
  <2>1. crossed' \in [Hashes -> BOOLEAN]
    <3> DEFINE c == \E u \in Workers : Busy(u, h) /\ (crossed[h] \/ worker[u].full # full)
    <3>1. c \in BOOLEAN
      OBVIOUS
    <3>2. crossed' = [crossed EXCEPT ![h] = c]
      BY DEF Save
    <3> HIDE DEF c
    <3> QED  BY <1>1, <3>1, <3>2 DEF TypeOK
  <2>2. saves' \in 0 .. MaxSaves
    BY <1>1, ConstantsAssumption DEF Save, TypeOK
  <2>3. recs' \in [Hashes -> {"none", "bare", "full"}]
    BY <1>1 DEF Save, TypeOK
  <2>4. worker' \in [Workers -> Update]
    BY <1>1, <1>2, <1>3 DEF TypeOK
  <2> QED
    BY <1>1, <1>2, <2>1, <2>2, <2>3, <2>4 DEF TypeOK
<1>10. WorkerInv'
  <2> SUFFICES ASSUME NEW v \in Workers, NEW g \in Hashes, Busy(v, g)'
               PROVE  /\ worker'[v].todo # {}
                      /\ "gas" \in worker'[v].todo => worker'[v].full
                      /\ ~(crossed'[g]) =>
                           /\ recs'[g] = "full" => worker'[v].full
                           /\ \A u \in Workers : Busy(u, g)' => worker'[u].full = worker'[v].full
    BY DEF WorkerInv
  <2>1. CASE g = h
    <3>1. ~(crossed'[h]) => \A u \in Workers : Busy(u, h)' => worker'[u].full = full
      BY <1>3, <1>4, <1>6, <1>8
    <3>2. v # w => Busy(v, h) /\ worker'[v] = worker[v]
      BY <1>4, <1>6, <2>1
    <3>3. worker'[v].todo # {} /\ ("gas" \in worker'[v].todo => worker'[v].full)
      BY <1>1, <1>3, <1>4, <3>2 DEF WorkerInv
    <3>4. ~(crossed'[h]) => worker'[v].full = full
      BY <2>1, <3>1
    <3> QED
      BY <1>7, <2>1, <3>1, <3>3, <3>4
  <2>2. CASE g # h
    <3>1. v # w /\ Busy(v, g) /\ worker'[v] = worker[v]
      BY <1>4, <1>6, <2>2
    <3>2. \A u \in Workers : Busy(u, g)' => Busy(u, g) /\ worker'[u] = worker[u]
      BY <1>4, <1>6, <2>2
    <3> QED
      BY <1>1, <1>7, <2>2, <3>1, <3>2 DEF WorkerInv
  <2> QED  BY <2>1, <2>2
<1>11. IndexInv'
  <2>1. ASSUME NEW g \in Hashes, NEW k \in Indexes, Covered(g, k)  PROVE Covered(g, k)'
    <3>1. Coming(g, k) => Coming(g, k)'
      BY <1>4, <1>5, <1>6 DEF Coming
    <3> QED
      BY <1>2, <2>1, <3>1 DEF Covered, Scores
  <2>2. ASSUME full, NEW k \in Indexes  PROVE Covered(h, k)'
    <3>1. k \in Commands(full)
      BY <2>2 DEF Commands
    <3> QED
      BY <1>3, <1>4, <1>6, <3>1 DEF Covered, Coming
  <2>3. "gas" \in Indexes /\ "nonce" \in Indexes /\ "type" \in Indexes
    BY DEF Indexes
  <2> HIDE DEF Covered
  <2>4. \A g \in Hashes : index'[g].gas \in {NoScore, Scores(tx'[g]).gas}
    BY <1>1, <1>2 DEF IndexInv
  <2> SUFFICES ASSUME NEW g \in Hashes, recs'[g] = "full"
               PROVE  /\ Covered(g, "gas")'
                      /\ ~(crossed'[g]) => Covered(g, "nonce")' /\ Covered(g, "type")'
    BY <2>4 DEF IndexInv
  <2>5. CASE g = h
    BY <1>7, <2>2, <2>3, <2>5
  <2>6. CASE g # h
    <3>1. recs[g] = "full" /\ crossed'[g] = crossed[g]
      BY <1>7, <2>6
    <3> QED
      BY <1>1, <2>1, <2>3, <3>1 DEF IndexInv
  <2> QED  BY <2>5, <2>6
<1> QED
  BY <1>9, <1>10, <1>11 DEF IInv

(* Both ways in which an update of h goes on: a command is executed, or    *)
(* all that are left have failed.  The commands that are gone have given   *)
(* the hash its scores, or are remembered as failed.                       *)
Progress(w, h, gone, new) ==
  /\ Busy(w, h)
  /\ gone \subseteq worker[w].todo
  /\ \/ new = Idle /\ gone = worker[w].todo
     \/ /\ new \in Update /\ new.hash = h /\ new.full = worker[w].full
        /\ new.todo = worker[w].todo \ gone /\ new.todo # {}
  /\ worker' = [worker EXCEPT ![w] = new]
  /\ \A g \in Hashes \ {h} : index'[g] = index[g] /\ failed'[g] = failed[g]
  /\ \A k \in Indexes \ gone :
       index'[h][k] = index[h][k] /\ (k \in failed[h] => k \in failed'[h])
  /\ \A k \in gone : \/ k \in failed'[h] /\ index'[h][k] = index[h][k]
                     \/ index'[h][k] = Scores(Content(h, worker[w].full))[k]

LEMMA ProgressKeeps ==
  ASSUME IInv, NEW w \in Workers, NEW h \in Hashes, NEW gone, NEW new, Progress(w, h, gone, new),
         UNCHANGED <<tx, recs, crossed, saves>>, TypeOK'
  PROVE  IInv'
<1> USE DEF Progress
<1>1. TypeOK /\ WorkerInv /\ IndexInv
  BY DEF IInv
<1>2. worker'[w] = new /\ \A v \in Workers \ {w} : worker'[v] = worker[v]
  BY <1>1 DEF TypeOK
<1>3. \A v \in Workers, g \in Hashes :
        Busy(v, g)' => /\ Busy(v, g) /\ worker'[v].full = worker[v].full
                       /\ worker'[v].todo \subseteq worker[v].todo
                       /\ worker'[v].todo # {} \/ v # w
  BY <1>2, IdleTyped DEF Busy
<1>4. WorkerInv'
  <2> SUFFICES ASSUME NEW v \in Workers, NEW g \in Hashes, Busy(v, g)'
               PROVE  /\ worker'[v].todo # {}
                      /\ "gas" \in worker'[v].todo => worker'[v].full
                      /\ ~crossed[g] =>
                           /\ recs[g] = "full" => worker'[v].full
                           /\ \A u \in Workers : Busy(u, g)' => worker'[u].full = worker'[v].full
    BY DEF WorkerInv
  <2>1. Busy(v, g) /\ worker'[v].full = worker[v].full /\ worker'[v].todo \subseteq worker[v].todo
    BY <1>3
  <2>2. worker'[v].todo # {}
    BY <1>1, <1>2, <1>3, <2>1 DEF WorkerInv
  <2> QED
    BY <1>1, <1>3, <2>1, <2>2 DEF WorkerInv
<1>5. h \in Hashes /\ gone \subseteq Indexes /\ worker[w].full \in BOOLEAN
  BY <1>1, WorkerTyped
<1>6. ASSUME NEW g \in Hashes, NEW k \in Indexes, Covered(g, k),
             g = h /\ k \in gone => worker[w].full
      PROVE  Covered(g, k)'
  <2>1. CASE g = h /\ k \in gone
    <3>1. k \in failed'[h] \/ index'[h][k] = Scores(tx[h])[k]
      BY <1>1, <1>5, <1>6, <2>1, ScoresTyped
    <3> QED  BY <2>1, <3>1 DEF Covered
  <2>2. CASE ~(g = h /\ k \in gone)
    <3>1. index'[g][k] = index[g][k] /\ (k \in failed[g] => k \in failed'[g])
      BY <2>2
    <3>2. ASSUME Coming(g, k)  PROVE Coming(g, k)'
      <4>1. PICK v \in Workers : Busy(v, g) /\ k \in worker[v].todo
        BY <3>2 DEF Coming
      <4>2. CASE v # w
        BY <1>2, <4>1, <4>2 DEF Coming, Busy
      <4>3. CASE v = w
        <5>1. g = h /\ k \notin gone
          BY <2>2, <4>1, <4>3 DEF Busy
        <5>2. k \in new.todo /\ new.hash = h
          BY <4>1, <4>3, <5>1
        <5> QED  BY <1>2, <5>1, <5>2 DEF Coming, Busy
      <4> QED  BY <4>2, <4>3
    <3> HIDE DEF Coming
    <3> QED  BY <1>6, <3>1, <3>2 DEF Covered
  <2> QED  BY <2>1, <2>2
<1>7. "gas" \in Indexes /\ "nonce" \in Indexes /\ "type" \in Indexes
  BY DEF Indexes
<1>8. "gas" \in gone => worker[w].full
  BY <1>1 DEF WorkerInv
<1>9. recs[h] = "full" /\ ~crossed[h] => worker[w].full
  BY <1>1 DEF WorkerInv
<1>10. \A g \in Hashes : index'[g].gas \in {NoScore, Scores(tx[g]).gas}
  <2> SUFFICES ASSUME NEW g \in Hashes PROVE index'[g].gas \in {NoScore, Scores(tx[g]).gas}
    OBVIOUS
  <2>1. index[g].gas \in {NoScore, Scores(tx[g]).gas}
    BY <1>1 DEF IndexInv
  <2>2. CASE g = h /\ "gas" \in gone
    <3>1. Scores(Content(h, worker[w].full)).gas = Scores(tx[h]).gas
      BY <1>1, <1>5, <1>7, <1>8, <2>2, ScoresTyped
    <3> QED  BY <2>1, <2>2, <3>1
  <2>3. CASE ~(g = h /\ "gas" \in gone)
    BY <1>7, <2>1, <2>3
  <2> QED  BY <2>2, <2>3
<1>11. IndexInv'
  <2> SUFFICES ASSUME NEW g \in Hashes, recs[g] = "full"
               PROVE  /\ Covered(g, "gas")'
                      /\ ~crossed[g] => Covered(g, "nonce")' /\ Covered(g, "type")'
    BY <1>10 DEF IndexInv
  <2> QED
    BY <1>1, <1>6, <1>7, <1>8, <1>9 DEF IndexInv
<1> QED
  BY <1>4, <1>11 DEF IInv

LEMMA FirstIsLeft ==
  ASSUME NEW todo \in SUBSET Indexes, todo # {}
  PROVE  First(todo) \in todo
BY DEF First, Indexes

LEMMA ZAddKeeps ==
  ASSUME IInv, NEW w \in Workers, ZAdd(w)
  PROVE  IInv'
<1>1. TypeOK /\ WorkerInv /\ ~Busy(w, NoHash)
  BY DEF IInv, ZAdd
<1>2. PICK h \in Hashes, todo \in SUBSET Indexes, full \in BOOLEAN :
        h = worker[w].hash /\ todo = worker[w].todo /\ full = worker[w].full
  BY <1>1, WorkerTyped
<1>3. Busy(w, h) /\ todo # {}
  BY <1>1, <1>2 DEF Busy, WorkerInv
<1>4. PICK k \in Indexes : k = First(todo) /\ k \in todo
  BY <1>3, FirstIsLeft
<1>5. PICK score \in Int : score = Scores(Content(h, full))[k]
  BY <1>1, ScoresTyped
<1> DEFINE new == IF todo = {k} THEN Idle ELSE [hash |-> h, full |-> full, todo |-> todo \ {k}]
<1>6. /\ index' = [index EXCEPT ![h][k] = score]
      /\ failed' = [failed EXCEPT ![h] = failed[h] \ {k}]
      /\ worker' = [worker EXCEPT ![w] = new]
      /\ UNCHANGED <<tx, recs, crossed, saves>>
  <2>1. /\ index' = [index EXCEPT ![h][k] = score]
        /\ failed' = [failed EXCEPT ![h] = failed[h] \ {k}]
        /\ Advance(w, k)
        /\ UNCHANGED <<tx, recs, crossed, saves>>
    <3>1. failed' = [failed EXCEPT ![h] = failed[h] \ {k}]
      BY <1>2, <1>4 DEF ZAdd
    <3>2. Advance(w, k) /\ UNCHANGED <<tx, recs, crossed, saves>>
      BY <1>2, <1>4 DEF ZAdd
    <3>3. index' = [index EXCEPT ![h][k] = score]
      BY <1>2, <1>4, <1>5 DEF ZAdd
    <3> QED  BY <3>1, <3>2, <3>3
  <2>2. worker' = [worker EXCEPT ![w] = new]
    BY <1>2, <2>1 DEF Advance
  <2> QED  BY <2>1, <2>2
<1>7. \/ new = Idle /\ todo = {k}
      \/ /\ new \in Update /\ new.hash = h /\ new.full = full
         /\ new.todo = todo \ {k} /\ new.todo # {}
  <2>1. worker[w] \in Update
    BY <1>1, WorkerTyped
  <2> QED  BY <1>2, <1>4, <2>1 DEF Update
<1>8. new \in Update
  BY <1>7, IdleTyped
<1> HIDE DEF new
<1>9. TypeOK'
  <2> DEFINE S == Int \cup {NoScore}
  <2>1. index \in [Hashes -> [Indexes -> S]] /\ score \in S
    BY <1>1 DEF TypeOK
  <2> HIDE DEF S
  <2>2. index' \in [Hashes -> [Indexes -> S]]
    BY <1>6, <2>1
  <2>3. failed' \in [Hashes -> SUBSET Indexes]
    BY <1>1, <1>6 DEF TypeOK
  <2>4. worker' \in [Workers -> Update]
    BY <1>1, <1>6, <1>8 DEF TypeOK
  <2> QED
    BY <1>1, <1>6, <2>2, <2>3, <2>4 DEF TypeOK, S
<1>10. /\ \A g \in Hashes \ {h} : index'[g] = index[g] /\ failed'[g] = failed[g]
       /\ \A l \in Indexes \ {k} : index'[h][l] = index[h][l]
       /\ index'[h][k] = score /\ failed'[h] = failed[h] \ {k}
  BY <1>1, <1>6 DEF TypeOK
<1>11. PICK gone \in SUBSET todo : gone = {k}
  BY <1>4
<1>12. \A l \in Indexes \ gone :
         index'[h][l] = index[h][l] /\ (l \in failed[h] => l \in failed'[h])
  BY <1>10, <1>11
<1>13. \A l \in gone : \/ l \in failed'[h] /\ index'[h][l] = index[h][l]
                       \/ index'[h][l] = Scores(Content(h, worker[w].full))[l]
  BY <1>2, <1>5, <1>10, <1>11
<1>14. /\ gone \subseteq worker[w].todo
       /\ \/ new = Idle /\ gone = worker[w].todo
          \/ /\ new \in Update /\ new.hash = h /\ new.full = worker[w].full
             /\ new.todo = worker[w].todo \ gone /\ new.todo # {}
  BY <1>2, <1>7, <1>11
<1>15. Progress(w, h, gone, new)
  BY <1>3, <1>6, <1>10, <1>12, <1>13, <1>14 DEF Progress
<1> QED
  BY <1>6, <1>9, <1>15, ProgressKeeps

LEMMA IndexFailsKeeps ==
  ASSUME IInv, NEW w \in Workers, IndexFails(w)
  PROVE  IInv'
<1>1. TypeOK /\ WorkerInv /\ ~Busy(w, NoHash)
  BY DEF IInv, IndexFails
<1>2. PICK h \in Hashes, gone \in SUBSET Indexes :
        h = worker[w].hash /\ gone = worker[w].todo
  BY <1>1, WorkerTyped
<1>3. Busy(w, h) /\ gone # {}
  BY <1>1, <1>2 DEF Busy, WorkerInv
<1>4. /\ failed' = [failed EXCEPT ![h] = failed[h] \cup gone]
      /\ worker' = [worker EXCEPT ![w] = Idle]
      /\ UNCHANGED <<tx, recs, index, crossed, saves>>
  BY <1>2 DEF IndexFails
<1>5. TypeOK'
  <2>1. failed' \in [Hashes -> SUBSET Indexes]
    BY <1>1, <1>4 DEF TypeOK
  <2>2. worker' \in [Workers -> Update]
    BY <1>1, <1>4, IdleTyped DEF TypeOK
  <2> QED  BY <1>1, <1>4, <2>1, <2>2 DEF TypeOK
<1>6. /\ \A g \in Hashes \ {h} : failed'[g] = failed[g]
      /\ failed'[h] = failed[h] \cup gone
  BY <1>1, <1>4 DEF TypeOK
<1>7. \A l \in Indexes \ gone :
        index'[h][l] = index[h][l] /\ (l \in failed[h] => l \in failed'[h])
  BY <1>4, <1>6
<1>8. \A l \in gone : l \in failed'[h] /\ index'[h][l] = index[h][l]
  BY <1>4, <1>6
<1>9. Progress(w, h, gone, Idle)
  BY <1>2, <1>3, <1>4, <1>6, <1>7, <1>8 DEF Progress
<1> QED
  BY <1>4, <1>5, <1>9, ProgressKeeps

LEMMA StepKeeps == IInv /\ [Next]_vars => IInv'
<1>1. ASSUME IInv, UNCHANGED vars  PROVE IInv'
  <2>1. TypeOK'
    BY <1>1 DEF IInv, vars, TypeOK
  <2>2. WorkerInv'
    BY <1>1 DEF IInv, vars, WorkerInv, Busy
  <2>3. IndexInv'
    BY <1>1 DEF IInv, vars, IndexInv, Covered, Coming, Busy
  <2> QED  BY <2>1, <2>2, <2>3 DEF IInv
<1> QED
  BY <1>1, StoreKeeps, SaveKeeps, ZAddKeeps, IndexFailsKeeps DEF Next

(* The inductive invariant holds.                                          *)
THEOREM Inductive == Spec => []IInv
  BY InitIInv, StepKeeps, PTL DEF Spec

(* For prices up to 2^53 the gas index and the filters agree, whatever     *)
(* updates have crossed (redis_storage.go:94-98, 206-235, 264-273).        *)
THEOREM GasIndexIsRight == Spec => []GasRangesAgree
<1>1. IInv => GasRangesAgree
  <2> SUFFICES ASSUME IInv, NEW h \in Hashes, NEW c \in OnGas, tx[h].gas <= Exact
               PROVE  /\ h \in GasRange(c) => Within(tx[h].gas, c)
                      /\ (recs[h] = "full" /\ Quiet(h) /\ "gas" \notin failed[h])
                         => (h \in GasRange(c) <=> h \in FilterTransactions(c))
    BY DEF GasRangesAgree
  <2>1. TypeOK /\ IndexInv
    BY DEF IInv
  <2>2. PICK p \in Nat : p = tx[h].gas
    BY <2>1, DetailsTyped
  <2>3. Scores(tx[h]).gas = p /\ p # NoScore
    BY <2>2, ExactScore, ConstantsAssumption DEF Scores
  <2>4. index[h].gas \in {NoScore, p}
    BY <2>1, <2>3 DEF IndexInv
  <2>5. h \in GasRange(c) <=> index[h].gas = p /\ Within(p, c)
    BY <2>3, <2>4 DEF GasRange
  <2>6. ASSUME recs[h] = "full", Quiet(h), "gas" \notin failed[h]
        PROVE  h \in GasRange(c) <=> h \in FilterTransactions(c)
    <3>1. index[h].gas = p
      BY <2>1, <2>3, <2>6 DEF IndexInv, Covered, Coming, Quiet
    <3>2. Stored(h).gas = p /\ h \in Listed
      BY <2>2, <2>6 DEF Stored, Content, Listed
    <3>3. PICK lo \in Prices \cup {Unknown}, hi \in Prices \cup {Unknown} :
            c = Criteria(lo, hi, 0, 0, {}, {}, {})
      BY DEF OnGas
    <3>4. /\ c.minGas = lo /\ c.maxGas = hi /\ c.minNonce = 0 /\ c.maxNonce = 0
          /\ c.from = {} /\ c.to = {} /\ c.types = {}
      BY <3>3 DEF Criteria
    <3>5. lo \in Int /\ hi \in Int /\ (lo = Unknown => p >= lo) /\ p # Unknown
      BY ConstantsAssumption DEF Unknown
    <3>6. matchesFilter(Stored(h), c) <=> Within(p, c)
      BY <3>2, <3>4, <3>5 DEF matchesFilter, Within
    <3> QED
      BY <2>5, <3>1, <3>2, <3>6 DEF FilterTransactions
  <2> QED
    BY <2>2, <2>5, <2>6
<1> QED
  BY <1>1, Inductive, PTL

(* The other indexes follow the last update that no update of the other    *)
(* kind has crossed (redis_storage.go:94-98, 221-231).                     *)
THEOREM LastUpdateCounts == Spec => []LastUpdateIsIndexed
<1>1. IInv => LastUpdateIsIndexed
  BY DEF IInv, IndexInv, Covered, Coming, Quiet, LastUpdateIsIndexed
<1> QED
  BY <1>1, Inductive, PTL

(* No bounds on gas prices hide a transaction that is within them          *)
(* (redis_storage.go:264-273).                                             *)
THEOREM GasFilterIsComplete == Spec => []GasFilterHidesNone
<1>1. IInv => GasFilterHidesNone
  <2> SUFFICES ASSUME IInv, NEW c \in OnGas, NEW h \in Listed, Within(tx[h].gas, c)
               PROVE  h \in FilterTransactions(c)
    BY DEF GasFilterHidesNone
  <2>1. h \in Hashes
    BY DEF Listed
  <2>2. PICK lo \in Prices \cup {Unknown}, hi \in Prices \cup {Unknown} :
          c = Criteria(lo, hi, 0, 0, {}, {}, {})
    BY DEF OnGas
  <2>3. /\ c.minGas = lo /\ c.maxGas = hi /\ c.minNonce = 0 /\ c.maxNonce = 0
        /\ c.from = {} /\ c.to = {} /\ c.types = {}
    BY <2>2 DEF Criteria
  <2>4. Stored(h).gas \in {tx[h].gas, Unknown}
    BY DEF Stored, Content, Bare
  <2>5. tx[h].gas \in Nat /\ lo \in Int /\ hi \in Int
    <3>1. TypeOK
      BY DEF IInv
    <3>2. Unknown \in Int
      BY DEF Unknown
    <3> QED
      BY <2>1, <3>1, <3>2, DetailsTyped, ConstantsAssumption
  <2>6. matchesFilter(Stored(h), c)
    BY <2>3, <2>4, <2>5 DEF matchesFilter, Within, Unknown
  <2> QED
    BY <2>6 DEF FilterTransactions
<1> QED
  BY <1>1, Inductive, PTL

-----------------------------------------------------------------------------
(* Groups and filters                                                      *)

(* Prices below 2^64 stay apart in the keys of groups.                     *)
LEMMA Int64Injective ==
  ASSUME NEW p \in 0 .. (2 * Half - 1), NEW q \in 0 .. (2 * Half - 1), Int64(p) = Int64(q)
  PROVE  p = q
<1> DEFINE n == 2 * Half
<1>1. n \in Nat \ {0} /\ Half \in 1 .. (n - 1) /\ p \in 0 .. (n - 1) /\ q \in 0 .. (n - 1)
  BY ConstantsAssumption
<1>2. ASSUME NEW a \in 0 .. (n - 1)
      PROVE  (a + Half) % n = IF a + Half < n THEN a + Half ELSE a + Half - n
  <2>1. a + Half \in 0 .. (2 * n - 1)
    BY <1>1, <1>2
  <2> HIDE DEF n
  <2>2. CASE a + Half < n
    <3>1. \A b \in 0 .. (n - 1) : b % n = b
      BY <1>1
    <3> QED  BY <1>1, <2>1, <2>2, <3>1
  <2>3. CASE ~(a + Half < n)
    <3>1. \A b \in n .. (2 * n - 1) : b % n = b - n
      BY <1>1
    <3> QED  BY <1>1, <2>1, <2>3, <3>1
  <2> QED  BY <2>2, <2>3
<1>3. (p + Half) % n = (q + Half) % n
  <2>1. (p + Half) % n \in Int /\ (q + Half) % n \in Int
    BY <1>1, <1>2
  <2> QED  BY <1>1, <2>1 DEF Int64
<1> HIDE DEF n
<1> QED
  BY <1>1, <1>2, <1>3

\* Two records with one key agree on all the parts of the key.
LEMMA SameParts ==
  ASSUME NEW g, NEW d, NEW e, getGroupKey(d, g) = getGroupKey(e, g),
         NEW l \in Labels(g), Present(d, l)
  PROVE  Present(e, l) /\ Part(d, l) = Part(e, l)
<1>1. <<l, Part(d, l)>> \in getGroupKey(e, g)
  BY DEF getGroupKey
<1>2. PICK m \in Labels(g) : Present(e, m) /\ <<l, Part(d, l)>> = <<m, Part(e, m)>>
  BY <1>1 DEF getGroupKey
<1> QED
  BY <1>2

\* What one of two such records has, and a filter asks for, the other has.
LEMMA SameAttributes ==
  ASSUME NEW g \in Groupings, NEW d \in Details \cup {Bare}, NEW e \in Details \cup {Bare},
         getGroupKey(d, g) = getGroupKey(e, g), d.gas < 2 * Half, e.gas < 2 * Half
  PROVE  /\ "gas" \in g => d.gas = e.gas
         /\ "nonce" \in g => d.nonce = e.nonce
         /\ "type" \in g => d.type = e.type
         /\ "address" \in g => d.from = e.from /\ d.to = e.to
<1>1. ASSUME "gas" \in g PROVE d.gas = e.gas
  <2>1. "gas" \in Labels(g)
    BY <1>1 DEF Labels
  <2>2. /\ Present(d, "gas") <=> d.gas # Unknown
        /\ Present(e, "gas") <=> e.gas # Unknown
        /\ Part(d, "gas") = Int64(d.gas) /\ Part(e, "gas") = Int64(e.gas)
    BY DEF Present, Part
  <2>3. d.gas \in Nat \cup {Unknown} /\ e.gas \in Nat \cup {Unknown}
    <3>1. Bare.gas = Unknown
      BY DEF Bare
    <3>2. \A f \in Details : f.gas \in Prices
      BY DEF Details
    <3> QED  BY <3>1, <3>2, ConstantsAssumption
  <2>4. CASE d.gas = Unknown
    BY <2>1, <2>2, <2>4, SameParts
  <2>5. CASE d.gas # Unknown
    <3>1. e.gas # Unknown /\ Int64(d.gas) = Int64(e.gas)
      BY <2>1, <2>2, <2>5, SameParts
    <3>2. d.gas \in 0 .. (2 * Half - 1) /\ e.gas \in 0 .. (2 * Half - 1)
      BY <2>3, <2>5, <3>1, ConstantsAssumption
    <3> QED  BY <3>1, <3>2, Int64Injective
  <2> QED  BY <2>4, <2>5
<1>2. ASSUME NEW l \in {"nonce", "type", "from"}, l \in Labels(g) PROVE d[l] = e[l]
  BY <1>2, SameParts DEF Present, Part
<1>3. ASSUME "to" \in Labels(g) PROVE d.to = e.to
  <2>1. /\ Present(d, "to") <=> d.to # NoAddress
        /\ Present(e, "to") <=> e.to # NoAddress
        /\ Part(d, "to") = d.to /\ Part(e, "to") = e.to
    BY DEF Present, Part
  <2> QED  BY <1>3, <2>1, SameParts
<1> QED
  BY <1>1, <1>2, <1>3 DEF Labels

LEMMA FilterRespects ==
  ASSUME NEW g \in Groupings, NEW a \in g, NEW c \in On[a],
         NEW d \in Details \cup {Bare}, NEW e \in Details \cup {Bare},
         getGroupKey(d, g) = getGroupKey(e, g), d.gas < 2 * Half, e.gas < 2 * Half,
         matchesFilter(d, c)
  PROVE  matchesFilter(e, c)
<1>1. a \in {"gas", "nonce", "address", "type"}
  BY DEF Groupings
<1>2. CASE a = "gas"
  <2>1. PICK lo, hi : c = Criteria(lo, hi, 0, 0, {}, {}, {})
    BY <1>2 DEF On, OnGas
  <2> QED  BY <1>2, <2>1, SameAttributes DEF Criteria, matchesFilter
<1>3. CASE a = "nonce"
  <2>1. PICK lo, hi : c = Criteria(Unknown, Unknown, lo, hi, {}, {}, {})
    BY <1>3 DEF On
  <2> QED  BY <1>3, <2>1, SameAttributes DEF Criteria, matchesFilter
<1>4. CASE a = "address"
  <2>1. PICK f, t : c = Criteria(Unknown, Unknown, 0, 0, f, t, {})
    BY <1>4 DEF On
  <2> QED  BY <1>4, <2>1, SameAttributes DEF Criteria, matchesFilter
<1>5. CASE a = "type"
  <2>1. PICK ts : c = Criteria(Unknown, Unknown, 0, 0, {}, {}, ts)
    BY <1>5 DEF On
  <2> QED  BY <1>5, <2>1, SameAttributes DEF Criteria, matchesFilter
<1> QED
  BY <1>1, <1>2, <1>3, <1>4, <1>5

LEMMA StoredTyped ==
  ASSUME TypeOK, NEW h \in Hashes
  PROVE  Stored(h) \in Details \cup {Bare}
BY DetailsTyped DEF Stored, Content

(* A filter on an attribute that is grouped by takes all of a group or     *)
(* none (redis_storage.go:262-317, 354-383).                               *)
THEOREM GroupsAndFiltersAgree == Spec => []GroupsRefineFilters
<1>1. IInv => GroupsRefineFilters
  <2> SUFFICES ASSUME IInv, NEW g \in Groupings, NEW a \in g, NEW c \in On[a],
                      NEW k \in DOMAIN GroupTransactions(g), Fits(GroupTransactions(g)[k])
               PROVE  GroupTransactions(g)[k] \cap FilterTransactions(c)
                        \in {{}, GroupTransactions(g)[k]}
    BY DEF GroupsRefineFilters
  <2>1. GroupTransactions(g)[k] = {h \in Listed : getGroupKey(Stored(h), g) = k}
    BY DEF GroupTransactions
  <2> DEFINE group == GroupTransactions(g)[k]
  <2>2. ASSUME NEW h \in group, NEW i \in group, h \in FilterTransactions(c)
        PROVE  i \in FilterTransactions(c)
    <3>1. /\ h \in Listed /\ i \in Listed /\ h \in Hashes /\ i \in Hashes
          /\ getGroupKey(Stored(h), g) = getGroupKey(Stored(i), g)
      BY <2>1, <2>2 DEF Listed
    <3>2. Stored(h).gas < 2 * Half /\ Stored(i).gas < 2 * Half
      BY <2>2 DEF Fits
    <3>3. Stored(h) \in Details \cup {Bare} /\ Stored(i) \in Details \cup {Bare}
      BY <3>1, StoredTyped DEF IInv
    <3>4. matchesFilter(Stored(h), c)
      BY <2>2 DEF FilterTransactions
    <3>5. matchesFilter(Stored(i), c)
      BY <3>1, <3>2, <3>3, <3>4, FilterRespects
    <3> QED  BY <3>1, <3>5 DEF FilterTransactions
  <2> HIDE DEF group
  <2>3. CASE group \cap FilterTransactions(c) = {}
    BY <2>3 DEF group
  <2>4. CASE group \cap FilterTransactions(c) # {}
    <3>1. group \subseteq FilterTransactions(c)
      BY <2>2, <2>4
    <3> QED  BY <3>1 DEF group
  <2> QED  BY <2>3, <2>4
<1> QED
  BY <1>1, Inductive, PTL

=============================================================================
