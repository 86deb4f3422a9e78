------------------------ MODULE TxLifecycle_proofs ------------------------
(***************************************************************************)
(* More about TxPipeline.  The places that carry a hash are counted: there *)
(* are never more of them than announcements, so a hash announced once has *)
(* one carrier at most.  From this follow that final statuses were true,   *)
(* that the pipeline implements RecordLifecycle as long as nothing is      *)
(* announced twice, and that final records stay.                           *)
(***************************************************************************)
EXTENDS TxPipeline_proofs, FiniteSetTheorems

-----------------------------------------------------------------------------
(* Counting in lists and in sets of goroutines.                            *)

Places(s, h) == {i \in DOMAIN s : s[i] = h}
One(x, y) == IF x = y THEN 1 ELSE 0
OneAt(d, c, x, y) == IF d = c /\ x = y THEN 1 ELSE 0

LEMMA OccurrencesType ==
  ASSUME NEW S, NEW s \in Seq(S), NEW h
  PROVE  /\ IsFiniteSet(Places(s, h))
         /\ Occurrences(s, h) = Cardinality(Places(s, h))
         /\ Occurrences(s, h) \in Nat
<1>1. DOMAIN s = 1 .. Len(s) /\ Len(s) \in Nat
  OBVIOUS
<1>2. IsFiniteSet(1 .. Len(s))
  BY <1>1, FS_Interval
<1>3. IsFiniteSet(Places(s, h))
  BY <1>1, <1>2, FS_Subset DEF Places
<1> QED
  BY <1>3, FS_CardinalityType DEF Occurrences, Places

\* RPUSH: one more of the element that is appended.
LEMMA OccurrencesAppend ==
  ASSUME NEW S, NEW s \in Seq(S), NEW e \in S, NEW h
  PROVE  Occurrences(Append(s, e), h) = Occurrences(s, h) + One(e, h)
<1> DEFINE t == Append(s, e)
           n == Len(s) + 1
<1>1. /\ n \in Nat
      /\ DOMAIN s = 1 .. n - 1
      /\ DOMAIN t = 1 .. n
      /\ \A i \in 1 .. n - 1 : t[i] = s[i]
      /\ t[n] = e
      /\ t \in Seq(S)
      /\ n \in 1 .. n
  OBVIOUS
<1>2. n \notin Places(s, h)
  BY <1>1 DEF Places
<1> HIDE DEF t, n
<1>3. /\ IsFiniteSet(Places(s, h))
      /\ Occurrences(s, h) = Cardinality(Places(s, h))
      /\ Occurrences(s, h) \in Nat
      /\ Occurrences(t, h) = Cardinality(Places(t, h))
  BY <1>1, OccurrencesType
<1>4. CASE e = h
  <2>1. Places(t, h) = Places(s, h) \cup {n}
    <3>1. 1 .. n = (1 .. n - 1) \cup {n}
      BY <1>1
    <3>2. \A i : i \in Places(t, h) <=> i \in Places(s, h) \/ i = n
      BY <1>1, <1>4, <3>1 DEF Places
    <3> QED
      BY <3>2
  <2>2. Cardinality(Places(t, h)) = Cardinality(Places(s, h)) + 1
    BY <1>2, <1>3, <2>1, FS_AddElement
  <2> QED
    BY <1>3, <1>4, <2>2 DEF One, t
<1>5. CASE e # h
  <2>1. Places(t, h) = Places(s, h)
    BY <1>1, <1>5 DEF Places
  <2> QED
    BY <1>3, <1>5, <2>1 DEF One, t
<1> QED
  BY <1>4, <1>5

\* LPOP, or reading a message: one less of the head.
LEMMA OccurrencesPop ==
  ASSUME NEW S, NEW s \in Seq(S), s # <<>>, NEW h
  PROVE  Occurrences(s, h) = Occurrences(Tail(s), h) + One(Head(s), h)
<1> DEFINE t == Tail(s)
           rest == Places(s, h) \ {1}
           f == [i \in Places(t, h) |-> i + 1]
<1>1. /\ Len(s) \in Nat \ {0}
      /\ t \in Seq(S)
      /\ DOMAIN s = 1 .. Len(s)
      /\ DOMAIN t = 1 .. Len(s) - 1
      /\ \A i \in 1 .. Len(s) - 1 : t[i] = s[i + 1]
      /\ Head(s) = s[1]
  OBVIOUS
<1>2. f \in Bijection(Places(t, h), rest)
  <2>1. \A i \in Places(t, h) : i \in Int /\ i + 1 \in rest
    BY <1>1 DEF Places
  <2>2. \A j \in rest : j - 1 \in Places(t, h) /\ f[j - 1] = j
    BY <1>1 DEF Places
  <2>3. f \in Injection(Places(t, h), rest)
    BY <2>1 DEF Injection, IsInjective
  <2>4. f \in Surjection(Places(t, h), rest)
    BY <2>1, <2>2 DEF Surjection
  <2> QED
    BY <2>3, <2>4 DEF Bijection
<1> HIDE DEF f, rest, t
<1>3. /\ IsFiniteSet(Places(s, h))
      /\ Occurrences(s, h) = Cardinality(Places(s, h))
      /\ Occurrences(s, h) \in Nat
      /\ IsFiniteSet(Places(t, h))
      /\ Occurrences(t, h) = Cardinality(Places(t, h))
  BY <1>1, OccurrencesType
<1>4. Cardinality(rest) = Occurrences(t, h)
  <2>1. ExistsBijection(Places(t, h), rest)
    BY <1>2 DEF ExistsBijection
  <2> QED
    BY <1>3, <2>1, FS_Bijection
<1>5. 1 \in Places(s, h) <=> Head(s) = h
  BY <1>1 DEF Places
<1>6. Cardinality(rest) = IF Head(s) = h THEN Occurrences(s, h) - 1 ELSE Occurrences(s, h)
  BY <1>3, <1>5, FS_RemoveElement DEF rest
<1> QED
  BY <1>3, <1>4, <1>6 DEF One, t

\* A hash that is not in a list does not occur in it, and the other way round.
LEMMA OccurrencesNone ==
  ASSUME NEW S, NEW s \in Seq(S), NEW h
  PROVE  Occurrences(s, h) = 0 <=> h \notin ToSet(s)
<1>1. Occurrences(s, h) = 0 <=> Places(s, h) = {}
  BY OccurrencesType, FS_EmptySet
<1>2. Places(s, h) = {} <=> h \notin ToSet(s)
  BY DEF Places, ToSet
<1> QED
  BY <1>1, <1>2

-----------------------------------------------------------------------------
(* The places that carry a hash, as functions of what is in them.          *)

Carrying(b, h) == IF b.phase \in {"list", "store", "push"} /\ b.hash = h THEN 1 ELSE 0
Working(s, h)  == s.phase # "idle" /\ s.hash = h
Busy(slots, h) == {w \in Workers : Working(slots[w], h)}

LEMMA BusyType ==
  ASSUME NEW slots, NEW h
  PROVE  /\ IsFiniteSet(Busy(slots, h))
         /\ Cardinality(Busy(slots, h)) \in Nat
<1>1. IsFiniteSet(Busy(slots, h))
  BY WorkersAssumption, FS_Subset DEF Busy
<1> QED
  BY <1>1, FS_CardinalityType

LEMMA PlacesType ==
  ASSUME TypeOK, NEW c \in Clients, NEW h \in Hashes
  PROVE  /\ Len(announced[c][h]) \in Nat
         /\ Occurrences(wire[c], h) \in Nat
         /\ Carrying(broker[c], h) \in {0, 1}
         /\ Occurrences(queue[c], h) \in Nat
         /\ One(held[c], h) \in {0, 1}
         /\ Cardinality(Busy(worker[c], h)) \in Nat
<1>1. /\ wire[c] \in Seq(Hashes \cup {Garbage})
      /\ queue[c] \in Seq(Hashes)
      /\ announced[c][h] \in Seq(Nat)
  BY DEF TypeOK
<1>2. Occurrences(wire[c], h) \in Nat
  BY <1>1, OccurrencesType
<1>3. Occurrences(queue[c], h) \in Nat
  BY <1>1, OccurrencesType
<1>4. Len(announced[c][h]) \in Nat
  BY <1>1
<1>5. Carrying(broker[c], h) \in {0, 1} /\ One(held[c], h) \in {0, 1}
  BY DEF One, Carrying
<1> QED
  BY <1>2, <1>3, <1>4, <1>5, BusyType

LEMMA TokensCount ==
  ASSUME NEW c \in Clients, NEW h \in Hashes
  PROVE  /\ Tokens(c, h) = Occurrences(wire[c], h) + Carrying(broker[c], h)
              + Occurrences(queue[c], h) + One(held[c], h)
              + Cardinality(Busy(worker[c], h))
         /\ Tokens(c, h)' = Occurrences(wire'[c], h) + Carrying(broker'[c], h)
              + Occurrences(queue'[c], h) + One(held'[c], h)
              + Cardinality(Busy(worker'[c], h))
BY DEF Tokens, Occurrences, BrokerHas, WorkerHas, One, Carrying, Busy, Working

\* A step changes what the places hold by so much, or less for goroutines.
Flow(c, h, a, s, b, q, l, k) ==
  /\ Len(announced'[c][h]) = Len(announced[c][h]) + a
  /\ Occurrences(wire'[c], h) = Occurrences(wire[c], h) + s
  /\ Carrying(broker'[c], h) = Carrying(broker[c], h) + b
  /\ Occurrences(queue'[c], h) = Occurrences(queue[c], h) + q
  /\ One(held'[c], h) = One(held[c], h) + l
  /\ Cardinality(Busy(worker'[c], h)) <= Cardinality(Busy(worker[c], h)) + k

\* A step with a balanced flow keeps a hash within its announcements.
TokensBound(c, h) == Tokens(c, h) <= Len(announced[c][h])

LEMMA FlowKeeps ==
  ASSUME TypeOK, TypeOK', NEW c \in Clients, NEW h \in Hashes,
         NEW a \in Int, NEW s \in Int, NEW b \in Int, NEW q \in Int, NEW l \in Int, NEW k \in Int,
         Flow(c, h, a, s, b, q, l, k), s + b + q + l + k <= a, TokensBound(c, h)
  PROVE  TokensBound(c, h)'
<1> DEFINE S == Occurrences(wire[c], h)
           B == Carrying(broker[c], h)
           Q == Occurrences(queue[c], h)
           L == One(held[c], h)
           K == Cardinality(Busy(worker[c], h))
           N == Len(announced[c][h])
           K2 == Cardinality(Busy(worker'[c], h))
<1>1. S \in Int /\ B \in Int /\ Q \in Int /\ L \in Int /\ K \in Int /\ N \in Int /\ K2 \in Int
  <2>1. S \in Nat /\ B \in {0, 1} /\ Q \in Nat /\ L \in {0, 1} /\ K \in Nat /\ N \in Nat
    BY PlacesType
  <2>2. K2 \in Nat
    BY BusyType
  <2> QED  BY <2>1, <2>2
<1>2. Tokens(c, h) = S + B + Q + L + K
  BY TokensCount
<1>3. /\ Tokens(c, h)' = (S + s) + (B + b) + (Q + q) + (L + l) + K2
      /\ K2 <= K + k
      /\ Len(announced'[c][h]) = N + a
  <2>1. Tokens(c, h)' = Occurrences(wire'[c], h) + Carrying(broker'[c], h)
              + Occurrences(queue'[c], h) + One(held'[c], h)
              + Cardinality(Busy(worker'[c], h))
    BY TokensCount
  <2> QED  BY <2>1 DEF Flow
<1>4. S + B + Q + L + K <= N
  BY <1>2 DEF TokensBound
<1> HIDE DEF S, B, Q, L, K, N, K2
<1>5. Tokens(c, h)' <= Len(announced'[c][h])
  BY <1>1, <1>3, <1>4
<1> QED
  BY <1>5 DEF TokensBound

-----------------------------------------------------------------------------
(* One element more or less in the list of one client.                     *)

LEMMA OneType ==
  ASSUME NEW d, NEW c, NEW x, NEW y
  PROVE  OneAt(d, c, x, y) \in {0, 1}
BY DEF OneAt

LEMMA AppendAt ==
  ASSUME NEW S, NEW f \in [Clients -> Seq(S)], NEW c \in Clients, NEW e \in S,
         NEW d \in Clients, NEW h
  PROVE  Occurrences([f EXCEPT ![c] = Append(@, e)][d], h)
           = Occurrences(f[d], h) + OneAt(d, c, e, h)
<1> DEFINE t == [f EXCEPT ![c] = Append(@, e)][d]
<1>1. Occurrences(f[d], h) \in Nat
  BY OccurrencesType
<1>2. CASE d = c
  <2>1. t = Append(f[d], e)
    BY <1>2
  <2>2. Occurrences(Append(f[d], e), h) = Occurrences(f[d], h) + One(e, h)
    BY OccurrencesAppend
  <2>3. One(e, h) = OneAt(d, c, e, h)
    BY <1>2 DEF One, OneAt
  <2> QED  BY <2>1, <2>2, <2>3
<1>3. CASE d # c
  <2>1. t = f[d] /\ OneAt(d, c, e, h) = 0
    BY <1>3 DEF One, OneAt
  <2> QED  BY <1>1, <2>1
<1> QED
  BY <1>2, <1>3

LEMMA PopAt ==
  ASSUME NEW S, NEW f \in [Clients -> Seq(S)], NEW c \in Clients, f[c] # <<>>,
         NEW d \in Clients, NEW h
  PROVE  Occurrences([f EXCEPT ![c] = Tail(@)][d], h)
           = Occurrences(f[d], h) - OneAt(d, c, Head(f[c]), h)
<1> DEFINE t == [f EXCEPT ![c] = Tail(@)][d]
<1>1. Occurrences(f[d], h) \in Nat
  BY OccurrencesType
<1>2. CASE d = c
  <2>1. t = Tail(f[d]) /\ Tail(f[d]) \in Seq(S)
    BY <1>2, ToSetPop
  <2>2. Occurrences(f[d], h) = Occurrences(t, h) + One(Head(f[d]), h)
    BY <1>2, <2>1, OccurrencesPop
  <2>3. One(Head(f[d]), h) = OneAt(d, c, Head(f[c]), h)
    BY <1>2 DEF One, OneAt
  <2>4. Occurrences(t, h) \in Nat
    BY <2>1, OccurrencesType
  <2>5. OneAt(d, c, Head(f[c]), h) \in Int
    BY OneType
  <2> HIDE DEF t
  <2>6. Occurrences(t, h) = Occurrences(f[d], h) - OneAt(d, c, Head(f[c]), h)
    BY <2>2, <2>3, <2>4, <2>5
  <2> QED  BY <2>6 DEF t
<1>3. CASE d # c
  <2>1. t = f[d] /\ OneAt(d, c, Head(f[c]), h) = 0
    BY <1>3 DEF One, OneAt
  <2> QED  BY <1>1, <2>1
<1> QED
  BY <1>2, <1>3

-----------------------------------------------------------------------------
(* How each step moves a hash from one place to another.                   *)

\* The node announces a hash: it is on the wire once more.
LEMMA AnnounceFlow ==
  ASSUME TypeOK, NEW c \in Clients, NEW h \in Hashes, Announce(c, h),
         NEW d \in Clients, NEW g \in Hashes
  PROVE  LET n == OneAt(d, c, h, g) IN Flow(d, g, n, n, 0, 0, 0, 0)
<1> DEFINE n == OneAt(d, c, h, g)
<1>0. PICK t \in now .. MaxTime : announced' = [announced EXCEPT ![c][h] = Append(@, t)]
  BY DEF Announce
<1>1. /\ wire' = [wire EXCEPT ![c] = Append(@, h)]
      /\ announced' = [announced EXCEPT ![c][h] = Append(@, t)]
      /\ broker' = broker /\ queue' = queue /\ held' = held /\ worker' = worker
  BY <1>0 DEF Announce
<1>2. /\ wire \in [Clients -> Seq(Hashes \cup {Garbage})] /\ h \in Hashes \cup {Garbage}
      /\ t \in Nat
      /\ announced \in [Clients -> [Hashes -> Seq(Nat)]]
  BY ClockType DEF TypeOK
<1>3. Len(announced'[d][g]) = Len(announced[d][g]) + n
  <2>1. announced[d][g] \in Seq(Nat) /\ announced[c][h] \in Seq(Nat)
    BY <1>2
  <2>2. CASE d = c /\ h = g
    <3>1. announced'[d][g] = Append(announced[d][g], t)
      BY <1>1, <1>2, <2>2
    <3>2. n = 1
      BY <2>2 DEF One, OneAt
    <3> QED  BY <1>2, <2>1, <3>1, <3>2
  <2>3. CASE ~(d = c /\ h = g)
    <3>1. announced'[d][g] = announced[d][g]
      BY <1>1, <1>2, <2>3
    <3>2. n = 0
      BY <2>3 DEF One, OneAt
    <3> QED  BY <2>1, <3>1, <3>2
  <2> QED  BY <2>2, <2>3
<1>4. Occurrences(wire'[d], g) = Occurrences(wire[d], g) + n
  <2>1. Occurrences([wire EXCEPT ![c] = Append(@, h)][d], g) = Occurrences(wire[d], g) + n
    <3> DEFINE M == Hashes \cup {Garbage}
    <3>1. wire \in [Clients -> Seq(M)] /\ h \in M
      BY <1>2
    <3> HIDE DEF M
    <3> QED  BY <3>1, AppendAt
  <2> QED  BY <1>1, <2>1
<1>5. /\ Carrying(broker[d], g) \in Int /\ Occurrences(queue[d], g) \in Int
      /\ One(held[d], g) \in Int /\ Cardinality(Busy(worker[d], g)) \in Int
  BY PlacesType
<1> QED
  BY <1>1, <1>3, <1>4, <1>5 DEF Flow

\* A message that is not JSON is no hash.
LEMMA GarbageFlow ==
  ASSUME TypeOK, NEW c \in Clients, SendGarbage(c), NEW d \in Clients, NEW g \in Hashes
  PROVE  Flow(d, g, 0, 0, 0, 0, 0, 0)
<1>1. /\ wire' = [wire EXCEPT ![c] = Append(@, Garbage)]
      /\ announced' = announced /\ broker' = broker /\ queue' = queue
      /\ held' = held /\ worker' = worker
  BY DEF SendGarbage
<1>2. wire \in [Clients -> Seq(Hashes \cup {Garbage})]
  BY DEF TypeOK
<1>3. Occurrences(wire'[d], g) = Occurrences(wire[d], g) + OneAt(d, c, Garbage, g)
  <2>1. Occurrences([wire EXCEPT ![c] = Append(@, Garbage)][d], g)
          = Occurrences(wire[d], g) + OneAt(d, c, Garbage, g)
    <3> DEFINE M == Hashes \cup {Garbage}
    <3>1. wire \in [Clients -> Seq(M)] /\ Garbage \in M
      BY <1>2
    <3> HIDE DEF M
    <3> QED  BY <3>1, AppendAt
  <2> QED  BY <1>1, <2>1
<1>4. OneAt(d, c, Garbage, g) = 0
  <2>1. Garbage # g
    BY ConstantsAssumption
  <2> QED  BY <2>1 DEF One, OneAt
<1> QED
  BY <1>1, <1>3, <1>4, PlacesType DEF Flow

\* A message goes from the websocket to the stream, unless it is garbage.
LEMMA ReceiveFlow ==
  ASSUME TypeOK, NEW c \in Clients, Receive(c), NEW d \in Clients, NEW g \in Hashes
  PROVE  LET n == OneAt(d, c, Head(wire[c]), g) IN Flow(d, g, 0, 0 - n, n, 0, 0, 0)
<1> DEFINE n == OneAt(d, c, Head(wire[c]), g)
<1>1. /\ wire' = [wire EXCEPT ![c] = Tail(@)] /\ wire[c] # <<>>
      /\ broker[c].phase = "reading"
      /\ announced' = announced /\ queue' = queue /\ held' = held /\ worker' = worker
  BY DEF Receive, BrokerAt
<1>2. /\ wire \in [Clients -> Seq(Hashes \cup {Garbage})]
      /\ broker \in [Clients -> BrokerState]
  BY DEF TypeOK
<1>3. Occurrences(wire'[d], g) = Occurrences(wire[d], g) - n
  BY <1>1, <1>2, PopAt
<1>4. Carrying(broker'[d], g) = Carrying(broker[d], g) + n
  <2>1. CASE d = c /\ Head(wire[c]) = Garbage
    <3>1. broker'[c].phase = "top"
      BY <2>1, BrokerStepTypes DEF Receive
    <3>2. Garbage # g
      BY ConstantsAssumption
    <3> QED  BY <1>1, <2>1, <3>1, <3>2 DEF Carrying, OneAt
  <2>2. CASE d = c /\ Head(wire[c]) # Garbage
    <3>1. broker'[c].phase = "list" /\ broker'[c].hash = Head(wire[c])
      BY <1>2, <2>2 DEF Receive, BrokerState
    <3> QED  BY <1>1, <2>2, <3>1 DEF Carrying, OneAt
  <2>3. CASE d # c
    <3>1. broker'[d] = broker[d]
      BY <1>2, <2>3 DEF Receive, BrokerGoto
    <3> QED  BY <2>3, <3>1 DEF Carrying, OneAt
  <2> QED  BY <2>1, <2>2, <2>3
<1>5. Occurrences(wire[d], g) \in Int /\ n \in Int
  BY PlacesType, OneType
<1> HIDE DEF n
<1>6. Flow(d, g, 0, 0 - n, n, 0, 0, 0)
  BY <1>1, <1>3, <1>4, <1>5, PlacesType DEF Flow
<1> QED
  BY <1>6 DEF n

\* The broker queues the hash it carries, or gives it up.
LEMMA PushFlow ==
  ASSUME IInv, NEW c \in Clients, Push(c), NEW d \in Clients, NEW g \in Hashes
  PROVE  LET n == OneAt(d, c, broker[c].hash, g) IN Flow(d, g, 0, 0, 0 - n, n, 0, 0)
<1> DEFINE n == OneAt(d, c, broker[c].hash, g)
<1>1. /\ queue' = [queue EXCEPT ![c] = Append(@, broker[c].hash)]
      /\ broker[c].phase = "push" /\ BrokerGoto(c, "top") /\ broker[c].hash \in Hashes
      /\ announced' = announced /\ wire' = wire /\ held' = held /\ worker' = worker
  BY BrokerBusy DEF Push, BrokerAt, nodeVars
<1>2. TypeOK /\ queue \in [Clients -> Seq(Hashes)] /\ broker \in [Clients -> BrokerState]
  BY DEF IInv, TypeOK
<1>3. Occurrences(queue'[d], g) = Occurrences(queue[d], g) + n
  <2>1. Occurrences([queue EXCEPT ![c] = Append(@, broker[c].hash)][d], g)
          = Occurrences(queue[d], g) + n
    BY <1>1, <1>2, AppendAt
  <2> QED  BY <1>1, <2>1
<1>4. Carrying(broker'[d], g) = Carrying(broker[d], g) + (0 - n)
  BY <1>1, <1>2 DEF Carrying, OneAt, BrokerGoto, BrokerState
<1>5. /\ n \in Int
      /\ Len(announced[d][g]) \in Int /\ Occurrences(wire[d], g) \in Int
      /\ Carrying(broker[d], g) \in Int /\ Occurrences(queue[d], g) \in Int
      /\ One(held[d], g) \in Int /\ Cardinality(Busy(worker[d], g)) \in Int
  BY <1>2, PlacesType, OneType
<1> HIDE DEF n
<1>6. Flow(d, g, 0, 0, 0 - n, n, 0, 0)
  BY <1>1, <1>3, <1>4, <1>5 DEF Flow
<1> QED
  BY <1>6 DEF n

LEMMA PushFailsFlow ==
  ASSUME IInv, NEW c \in Clients, PushFails(c), NEW d \in Clients, NEW g \in Hashes
  PROVE  LET n == OneAt(d, c, broker[c].hash, g) IN Flow(d, g, 0, 0, 0 - n, 0, 0, 0)
<1> DEFINE n == OneAt(d, c, broker[c].hash, g)
<1>1. /\ broker[c].phase = "push" /\ BrokerGoto(c, "top")
      /\ announced' = announced /\ wire' = wire /\ queue' = queue /\ held' = held
      /\ worker' = worker
  BY DEF PushFails, BrokerAt, nodeVars
<1>2. TypeOK /\ broker \in [Clients -> BrokerState]
  BY DEF IInv, TypeOK
<1>3. Carrying(broker'[d], g) = Carrying(broker[d], g) + (0 - n)
  BY <1>1, <1>2 DEF Carrying, OneAt, BrokerGoto, BrokerState
<1> HIDE DEF n
<1>4. Flow(d, g, 0, 0, 0 - n, 0, 0, 0)
  BY <1>1, <1>2, <1>3, PlacesType DEF Flow
<1> QED
  BY <1>4 DEF n

\* The loop takes the head of the queue, or loses it.
LEMMA PopFlow ==
  ASSUME IInv, NEW c \in Clients, Pop(c), NEW d \in Clients, NEW g \in Hashes
  PROVE  LET n == OneAt(d, c, Head(queue[c]), g) IN Flow(d, g, 0, 0, 0, 0 - n, n, 0)
<1> DEFINE n == OneAt(d, c, Head(queue[c]), g)
<1>1. /\ queue' = [queue EXCEPT ![c] = Tail(@)] /\ queue[c] # <<>>
      /\ held[c] = NoHash /\ held' = [held EXCEPT ![c] = Head(queue[c])]
      /\ announced' = announced /\ wire' = wire /\ broker' = broker /\ worker' = worker
  BY DEF Pop, nodeVars
<1>2. /\ TypeOK /\ queue \in [Clients -> Seq(Hashes)]
      /\ held \in [Clients -> Hashes \cup {NoHash}] /\ g # NoHash
  BY ConstantsAssumption DEF IInv, TypeOK
<1>3. Occurrences(queue'[d], g) = Occurrences(queue[d], g) - n
  BY <1>1, <1>2, PopAt
<1>4. One(held'[d], g) = One(held[d], g) + n
  BY <1>1, <1>2 DEF One, OneAt
<1>5. /\ n \in Int
      /\ Len(announced[d][g]) \in Int /\ Occurrences(wire[d], g) \in Int
      /\ Carrying(broker[d], g) \in Int /\ Occurrences(queue[d], g) \in Int
      /\ One(held[d], g) \in Int /\ Cardinality(Busy(worker[d], g)) \in Int
  BY <1>2, PlacesType, OneType
<1> HIDE DEF n
<1>6. Flow(d, g, 0, 0, 0, 0 - n, n, 0)
  BY <1>1, <1>3, <1>4, <1>5 DEF Flow
<1> QED
  BY <1>6 DEF n

LEMMA PopLostFlow ==
  ASSUME IInv, NEW c \in Clients, PopLost(c), NEW d \in Clients, NEW g \in Hashes
  PROVE  LET n == OneAt(d, c, Head(queue[c]), g) IN Flow(d, g, 0, 0, 0, 0 - n, 0, 0)
<1> DEFINE n == OneAt(d, c, Head(queue[c]), g)
<1>1. /\ queue' = [queue EXCEPT ![c] = Tail(@)] /\ queue[c] # <<>>
      /\ announced' = announced /\ wire' = wire /\ broker' = broker /\ worker' = worker
      /\ held' = held
  BY DEF PopLost, nodeVars
<1>2. TypeOK /\ queue \in [Clients -> Seq(Hashes)]
  BY DEF IInv, TypeOK
<1>3. Occurrences(queue'[d], g) = Occurrences(queue[d], g) - n
  BY <1>1, <1>2, PopAt
<1>4. /\ n \in Int
      /\ Len(announced[d][g]) \in Int /\ Occurrences(wire[d], g) \in Int
      /\ Carrying(broker[d], g) \in Int /\ Occurrences(queue[d], g) \in Int
      /\ One(held[d], g) \in Int /\ Cardinality(Busy(worker[d], g)) \in Int
  BY <1>2, PlacesType, OneType
<1> HIDE DEF n
<1>5. Flow(d, g, 0, 0, 0, 0 - n, 0, 0)
  BY <1>1, <1>3, <1>4 DEF Flow
<1> QED
  BY <1>5 DEF n

\* A goroutine that starts is one more, and one that ends is one less; any
\* other step of a goroutine leaves as many as there are.
LEMMA BusyJoins ==
  ASSUME TypeOK, NEW c \in Clients, NEW w \in Workers, NEW s, NEW x, Become(c, w, s),
         worker[c][w].phase = "idle", s.phase # "idle", s.hash = x,
         NEW d \in Clients, NEW g \in Hashes
  PROVE  Cardinality(Busy(worker'[d], g)) <= Cardinality(Busy(worker[d], g)) + OneAt(d, c, x, g)
<1>1. worker' = [worker EXCEPT ![c][w] = s] /\ worker \in [Clients -> [Workers -> Slot]]
  BY DEF Become, TypeOK
<1>2. IsFiniteSet(Busy(worker[d], g)) /\ Cardinality(Busy(worker[d], g)) \in Nat
  BY BusyType
<1>3. CASE d = c /\ x = g
  <2>1. /\ Busy(worker'[d], g) = Busy(worker[d], g) \cup {w}
        /\ w \notin Busy(worker[d], g)
    BY <1>1, <1>3 DEF Busy, Working
  <2>2. Cardinality(Busy(worker'[d], g)) = Cardinality(Busy(worker[d], g)) + 1
    BY <1>2, <2>1, FS_AddElement
  <2> QED  BY <1>2, <1>3, <2>2 DEF OneAt
<1>4. CASE ~(d = c /\ x = g)
  <2>1. Busy(worker'[d], g) = Busy(worker[d], g)
    BY <1>1, <1>4 DEF Busy, Working
  <2> QED  BY <1>2, <1>4, <2>1 DEF OneAt
<1> QED
  BY <1>3, <1>4

LEMMA BusyLeaves ==
  ASSUME TypeOK, NEW c \in Clients, NEW w \in Workers, NEW s, NEW x, Become(c, w, s),
         worker[c][w].phase # "idle", worker[c][w].hash = x, s.phase = "idle",
         NEW d \in Clients, NEW g \in Hashes
  PROVE  Cardinality(Busy(worker'[d], g)) <= Cardinality(Busy(worker[d], g)) + (0 - OneAt(d, c, x, g))
<1>1. worker' = [worker EXCEPT ![c][w] = s] /\ worker \in [Clients -> [Workers -> Slot]]
  BY DEF Become, TypeOK
<1>2. IsFiniteSet(Busy(worker[d], g)) /\ Cardinality(Busy(worker[d], g)) \in Nat
  BY BusyType
<1>3. CASE d = c /\ x = g
  <2>1. /\ Busy(worker'[d], g) = Busy(worker[d], g) \ {w}
        /\ w \in Busy(worker[d], g)
    BY <1>1, <1>3 DEF Busy, Working
  <2>2. Cardinality(Busy(worker'[d], g)) = Cardinality(Busy(worker[d], g)) - 1
    BY <1>2, <2>1, FS_RemoveElement
  <2> QED  BY <1>2, <1>3, <2>2 DEF OneAt
<1>4. CASE ~(d = c /\ x = g)
  <2>1. Busy(worker'[d], g) = Busy(worker[d], g)
    BY <1>1, <1>4 DEF Busy, Working
  <2> QED  BY <1>2, <1>4, <2>1 DEF OneAt
<1> QED
  BY <1>3, <1>4

LEMMA BusyStays ==
  ASSUME TypeOK, NEW c \in Clients, NEW w \in Workers, NEW s, Become(c, w, s),
         worker[c][w].phase # "idle", s.phase = "idle" \/ s.hash = worker[c][w].hash,
         NEW d \in Clients, NEW g \in Hashes
  PROVE  Cardinality(Busy(worker'[d], g)) <= Cardinality(Busy(worker[d], g)) + 0
<1>1. worker' = [worker EXCEPT ![c][w] = s] /\ worker \in [Clients -> [Workers -> Slot]]
  BY DEF Become, TypeOK
<1>2. IsFiniteSet(Busy(worker[d], g)) /\ Cardinality(Busy(worker[d], g)) \in Nat
  BY BusyType
<1>3. Busy(worker'[d], g) \subseteq Busy(worker[d], g)
  BY <1>1 DEF Busy, Working
<1>4. Cardinality(Busy(worker'[d], g)) <= Cardinality(Busy(worker[d], g))
  BY <1>2, <1>3, FS_Subset
<1> QED
  BY <1>2, <1>4

\* The loop hands the hash it holds to a goroutine.
LEMMA SpawnFlow ==
  ASSUME IInv, NEW c \in Clients, NEW w \in Workers, Spawn(c, w),
         NEW d \in Clients, NEW g \in Hashes
  PROVE  LET n == OneAt(d, c, held[c], g) IN Flow(d, g, 0, 0, 0, 0, 0 - n, n)
<1> DEFINE n == OneAt(d, c, held[c], g)
           s == [Idle EXCEPT !.phase = "receipt", !.hash = held[c]]
<1>1. /\ held[c] # NoHash /\ held' = [held EXCEPT ![c] = NoHash]
      /\ worker[c][w].phase = "idle" /\ Become(c, w, s)
      /\ announced' = announced /\ wire' = wire /\ broker' = broker /\ queue' = queue
  BY DEF Spawn, At, nodeVars
<1>2. /\ TypeOK /\ held \in [Clients -> Hashes \cup {NoHash}] /\ g # NoHash
  BY ConstantsAssumption DEF IInv, TypeOK
<1>3. s.phase = "receipt" /\ s.hash = held[c]
  BY DEF Idle
<1>4. One(held'[d], g) = One(held[d], g) + (0 - n)
  BY <1>1, <1>2 DEF One, OneAt
<1>5. Cardinality(Busy(worker'[d], g)) <= Cardinality(Busy(worker[d], g)) + n
  <2> HIDE DEF s
  <2>1. s.phase # "idle"
    BY <1>3
  <2> QED  BY <1>1, <1>2, <1>3, <2>1, BusyJoins
<1>6. /\ n \in Int
      /\ Len(announced[d][g]) \in Int /\ Occurrences(wire[d], g) \in Int
      /\ Carrying(broker[d], g) \in Int /\ Occurrences(queue[d], g) \in Int
  BY <1>2, PlacesType, OneType
<1> HIDE DEF n
<1>7. Flow(d, g, 0, 0, 0, 0, 0 - n, n)
  BY <1>1, <1>4, <1>5, <1>6 DEF Flow
<1> QED
  BY <1>7 DEF n

\* A goroutine puts its hash back and ends.
LEMMA RequeueFlow ==
  ASSUME IInv, NEW c \in Clients, NEW w \in Workers, Requeue(c, w),
         NEW d \in Clients, NEW g \in Hashes
  PROVE  LET n == OneAt(d, c, worker[c][w].hash, g) IN Flow(d, g, 0, 0, 0, n, 0, 0 - n)
<1> DEFINE x == worker[c][w].hash
           n == OneAt(d, c, x, g)
<1>1. /\ queue' = [queue EXCEPT ![c] = Append(@, x)]
      /\ worker[c][w].phase = "requeue" /\ Become(c, w, Idle)
      /\ announced' = announced /\ wire' = wire /\ broker' = broker /\ held' = held
  BY DEF Requeue, At, Finish, nodeVars
<1>2. TypeOK /\ x \in Hashes /\ queue \in [Clients -> Seq(Hashes)]
  BY <1>1, BusySlot DEF TypeOK
<1>3. Occurrences(queue'[d], g) = Occurrences(queue[d], g) + n
  <2>1. Occurrences([queue EXCEPT ![c] = Append(@, x)][d], g)
          = Occurrences(queue[d], g) + n
    BY <1>2, AppendAt
  <2> QED  BY <1>1, <2>1
<1>4. Cardinality(Busy(worker'[d], g)) <= Cardinality(Busy(worker[d], g)) + (0 - n)
  <2>1. Idle.phase = "idle" /\ worker[c][w].phase # "idle"
    BY <1>1 DEF Idle
  <2> QED  BY <1>1, <1>2, <2>1, BusyLeaves
<1>5. /\ n \in Int
      /\ Len(announced[d][g]) \in Int /\ Occurrences(wire[d], g) \in Int
      /\ Carrying(broker[d], g) \in Int /\ Occurrences(queue[d], g) \in Int
      /\ One(held[d], g) \in Int
  BY <1>2, PlacesType, OneType
<1> HIDE DEF n
<1>6. Flow(d, g, 0, 0, 0, n, 0, 0 - n)
  BY <1>1, <1>3, <1>4, <1>5 DEF Flow
<1> QED
  BY <1>6 DEF n

\* What the steps of a goroutine have in common: it keeps its hash or ends,
\* and after indexing a final status it ends.
Moves(c, w, s) ==
  /\ Become(c, w, s)
  /\ worker[c][w].phase # "idle"
  /\ s = Idle \/ (s.phase # "idle" /\ s.hash = worker[c][w].hash)
  /\ worker[c][w].phase = "index" /\ worker[c][w].verdict \in Terminal => s = Idle
  /\ announced' = announced /\ wire' = wire /\ broker' = broker /\ held' = held

LEMMA WorkerMoves ==
  ASSUME IInv, NEW c \in Clients, NEW w \in Workers, WorkerStep(c, w) \/ WorkerFault(c, w)
  PROVE  \E s : Moves(c, w, s)
<1> DEFINE old == worker[c][w]
           To(p) == [old EXCEPT !.phase = p]
           After == IF old.verdict \in {"pending", "queued"} THEN To("requeue") ELSE Idle
<1> USE DEF At, nodeVars
<1>1. old.phase # "idle"
  BY DEF WorkerStep, WorkerFault, AskReceipt, FetchMined, FetchGone, Lookup, Load, Save, Index, Requeue,
         ReceiptNotIndexed, ReceiptFails, FetchFails, LookupFails, UpdateFails, SaveLost, IndexFails,
         RequeueFails, Hang, RpcPhases
<1>2. old \in Slot
  BY <1>1, BusySlot
<1>3. \A p \in Phases : To(p).phase = p /\ To(p).hash = old.hash
  BY <1>2 DEF Slot
<1>4. AskReceipt(c, w) => Moves(c, w, To("fetch")) \/ Moves(c, w, To("lookup"))
  BY <1>1, <1>3 DEF AskReceipt, Goto, Moves, Phases, RpcPhases
<1>5. FetchMined(c, w) => Moves(c, w, [old EXCEPT !.phase = "load", !.verdict = "mined"])
  BY <1>1, <1>2 DEF FetchMined, Decide, Moves, Slot
<1>6. Lookup(c, w) => \E s : Moves(c, w, s)
  <2> SUFFICES ASSUME Lookup(c, w)  PROVE \E s : Moves(c, w, s)
    OBVIOUS
  <2>1. PICK v \in LookupVerdicts(c, old.hash) : Decide(c, w, v)
    BY DEF Lookup
  <2>2. Moves(c, w, [old EXCEPT !.phase = "load", !.verdict = v])
    BY <1>1, <1>2, <2>1 DEF Lookup, Decide, Moves, Slot
  <2> QED  BY <2>2
<1>7. AfterUpdate(c, w) => Become(c, w, After)
  BY DEF AfterUpdate, Goto, Finish
<1>8. After = Idle \/ (After.phase # "idle" /\ After.hash = old.hash)
  BY <1>3 DEF Phases
<1>9. old.verdict \in Terminal => After = Idle
  BY DEF Terminal
<1> HIDE DEF After
<1>10. Load(c, w) => \E s : Moves(c, w, s)
  <2> DEFINE new == [old EXCEPT !.phase = "save",
                                !.buf = Updated(recs[c][old.hash], old.verdict)]
  <2>1. new.phase = "save" /\ new.hash = old.hash
    BY <1>2 DEF Slot
  <2> HIDE DEF new
  <2>2. Load(c, w) => Become(c, w, After) \/ Become(c, w, new)
    BY <1>7 DEF Load, new
  <2>3. Load(c, w) => Moves(c, w, After) \/ Moves(c, w, new)
    BY <1>1, <1>8, <2>1, <2>2 DEF Load, Moves
  <2> QED  BY <2>3
<1>11. Save(c, w) => Moves(c, w, To("index"))
  BY <1>1, <1>3 DEF Save, Goto, Moves, Phases
<1>12. Index(c, w) \/ IndexFails(c, w) \/ UpdateFails(c, w) \/ SaveLost(c, w)
       => Moves(c, w, After)
  BY <1>1, <1>7, <1>8, <1>9 DEF Index, IndexFails, UpdateFails, SaveLost, Moves
<1>13. \/ Requeue(c, w) \/ RequeueFails(c, w) \/ FetchFails(c, w) \/ FetchGone(c, w)
       \/ LookupFails(c, w)
       => Moves(c, w, Idle)
  BY <1>1 DEF Requeue, RequeueFails, FetchFails, FetchGone, LookupFails, Finish, Moves
<1>14. ReceiptNotIndexed(c, w) => Moves(c, w, To("requeue"))
  BY <1>1, <1>3 DEF ReceiptNotIndexed, Goto, Moves, Phases
<1>15. ReceiptFails(c, w) => Moves(c, w, To("lookup"))
  BY <1>1, <1>3 DEF ReceiptFails, Goto, Moves, Phases, RpcPhases
<1>16. Hang(c, w) => Moves(c, w, To("hung"))
  BY <1>1, <1>3 DEF Hang, Goto, Moves, Phases, RpcPhases
<1> QED
  BY <1>4, <1>5, <1>6, <1>10, <1>11, <1>12, <1>13, <1>14, <1>15, <1>16
     DEF WorkerStep, WorkerFault

LEMMA WorkerFlow ==
  ASSUME IInv, NEW c \in Clients, NEW w \in Workers, WorkerStep(c, w) \/ WorkerFault(c, w),
         ~Requeue(c, w), NEW d \in Clients, NEW g \in Hashes
  PROVE  Flow(d, g, 0, 0, 0, 0, 0, 0)
<1>1. PICK s : Moves(c, w, s)
  BY WorkerMoves
<1>2. queue' = queue
  BY DEF WorkerStep, WorkerFault, AskReceipt, FetchMined, FetchGone, Lookup, Load, Save, Index,
         ReceiptNotIndexed, ReceiptFails, FetchFails, LookupFails, UpdateFails, SaveLost, IndexFails,
         RequeueFails, Hang
<1>3. TypeOK
  BY DEF IInv
<1>4. Cardinality(Busy(worker'[d], g)) <= Cardinality(Busy(worker[d], g)) + 0
  <2>1. /\ Become(c, w, s) /\ worker[c][w].phase # "idle"
        /\ s.phase = "idle" \/ s.hash = worker[c][w].hash
    BY <1>1 DEF Moves, Idle
  <2> QED  BY <1>3, <2>1, BusyStays
<1>5. /\ Len(announced[d][g]) \in Int /\ Occurrences(wire[d], g) \in Int
      /\ Carrying(broker[d], g) \in Int /\ Occurrences(queue[d], g) \in Int
      /\ One(held[d], g) \in Int
  BY <1>3, PlacesType
<1> QED
  BY <1>1, <1>2, <1>4, <1>5 DEF Flow, Moves

\* Every other step leaves the places as they are.
StillPlaces(d, g) ==
  /\ announced' = announced /\ wire' = wire /\ queue' = queue /\ held' = held
  /\ worker' = worker
  /\ Carrying(broker'[d], g) = Carrying(broker[d], g)

LEMMA StillFlow ==
  ASSUME TypeOK, NEW d \in Clients, NEW g \in Hashes, StillPlaces(d, g)
  PROVE  Flow(d, g, 0, 0, 0, 0, 0, 0)
<1>1. /\ Len(announced[d][g]) \in Int /\ Occurrences(wire[d], g) \in Int
      /\ Carrying(broker[d], g) \in Int /\ Occurrences(queue[d], g) \in Int
      /\ One(held[d], g) \in Int /\ Cardinality(Busy(worker[d], g)) \in Int
  BY PlacesType
<1> QED
  BY <1>1 DEF Flow, StillPlaces

LEMMA BrokerStill ==
  ASSUME TypeOK, NEW c \in Clients, NEW d \in Clients, NEW g \in Hashes,
         Listen(c) \/ List(c) \/ ListFails(c) \/ Store(c) \/ StoreFails(c) \/ StreamEnds(c)
  PROVE  StillPlaces(d, g)
<1> USE DEF nodeVars, BrokerAt
<1>1. broker \in [Clients -> BrokerState]
  BY DEF TypeOK
<1>2. Carrying(broker'[d], g) = Carrying(broker[d], g)
  <2>1. CASE Listen(c)
    BY <1>1, <2>1 DEF Listen, Carrying, BrokerState
  <2>2. CASE List(c) \/ ListFails(c)
    BY <1>1, <2>2 DEF List, ListFails, BrokerGoto, Carrying, BrokerState
  <2>3. CASE Store(c) \/ StoreFails(c)
    BY <1>1, <2>3 DEF Store, StoreFails, BrokerGoto, Carrying, BrokerState
  <2>4. CASE StreamEnds(c)
    BY <1>1, <2>4 DEF StreamEnds, BrokerGoto, Carrying, BrokerState
  <2> QED  BY <2>1, <2>2, <2>3, <2>4
<1> QED
  BY <1>2 DEF Listen, List, ListFails, Store, StoreFails, StreamEnds, StillPlaces

-----------------------------------------------------------------------------
(* One poller per announcement.                                            *)

LEMMA TokensInit == Init => OnePollerPerAnnouncement
<1> SUFFICES ASSUME Init, NEW c \in Clients, NEW h \in Hashes
             PROVE  Tokens(c, h) <= Len(announced[c][h])
  BY DEF OnePollerPerAnnouncement
<1>1. /\ wire[c] = <<>> /\ queue[c] = <<>> /\ held[c] = NoHash /\ announced[c][h] = <<>>
      /\ broker[c].phase = "top" /\ \A w \in Workers : worker[c][w].phase = "idle"
  BY DEF Init, Idle
<1>2. Occurrences(<<>>, h) = 0
  <2>1. Places(<<>>, h) = {}
    BY DEF Places
  <2> QED  BY <2>1, FS_EmptySet DEF Occurrences, Places
<1>3. Cardinality(Busy(worker[c], h)) = 0
  <2>1. Busy(worker[c], h) = {}
    BY <1>1 DEF Busy, Working
  <2> QED  BY <2>1, FS_EmptySet
<1>4. One(held[c], h) = 0 /\ Carrying(broker[c], h) = 0
  BY <1>1, ConstantsAssumption DEF One, Carrying
<1>5. Tokens(c, h) = 0
  BY <1>1, <1>2, <1>3, <1>4, TokensCount
<1> QED
  BY <1>1, <1>5

LEMMA TokensStep ==
  ASSUME IInv, IInv', OnePollerPerAnnouncement, [Next]_vars
  PROVE  OnePollerPerAnnouncement'
<1> SUFFICES ASSUME NEW d \in Clients, NEW g \in Hashes  PROVE TokensBound(d, g)'
  BY DEF OnePollerPerAnnouncement, TokensBound
<1>0. IInv /\ TypeOK /\ TypeOK' /\ TokensBound(d, g)
  BY DEF IInv, OnePollerPerAnnouncement, TokensBound
<1>1. ASSUME Flow(d, g, 0, 0, 0, 0, 0, 0)  PROVE TokensBound(d, g)'
  BY <1>0, <1>1, FlowKeeps
<1>2. ASSUME NEW c \in Clients, NEW h \in Hashes, Announce(c, h)  PROVE TokensBound(d, g)'
  <2> DEFINE n == OneAt(d, c, h, g)
  <2>1. Flow(d, g, n, n, 0, 0, 0, 0)
    BY <1>0, <1>2, AnnounceFlow
  <2>2. n \in {0, 1}
    BY OneType
  <2> HIDE DEF n
  <2>3. 0 - n \in Int /\ n \in Int
    BY <2>2
  <2> QED  BY <1>0, <2>1, <2>2, <2>3, FlowKeeps
<1>3. ASSUME NEW c \in Clients, Receive(c)  PROVE TokensBound(d, g)'
  <2> DEFINE n == OneAt(d, c, Head(wire[c]), g)
  <2>1. Flow(d, g, 0, 0 - n, n, 0, 0, 0)
    BY <1>0, <1>3, ReceiveFlow
  <2>2. n \in {0, 1}
    BY OneType
  <2> HIDE DEF n
  <2>3. 0 - n \in Int /\ n \in Int
    BY <2>2
  <2> QED  BY <1>0, <2>1, <2>2, <2>3, FlowKeeps
<1>4. ASSUME NEW c \in Clients, Push(c)  PROVE TokensBound(d, g)'
  <2> DEFINE n == OneAt(d, c, broker[c].hash, g)
  <2>1. Flow(d, g, 0, 0, 0 - n, n, 0, 0)
    BY <1>0, <1>4, PushFlow
  <2>2. n \in {0, 1}
    BY OneType
  <2> HIDE DEF n
  <2>3. 0 - n \in Int /\ n \in Int
    BY <2>2
  <2> QED  BY <1>0, <2>1, <2>2, <2>3, FlowKeeps
<1>5. ASSUME NEW c \in Clients, PushFails(c)  PROVE TokensBound(d, g)'
  <2> DEFINE n == OneAt(d, c, broker[c].hash, g)
  <2>1. Flow(d, g, 0, 0, 0 - n, 0, 0, 0)
    BY <1>0, <1>5, PushFailsFlow
  <2>2. n \in {0, 1}
    BY OneType
  <2> HIDE DEF n
  <2>3. 0 - n \in Int /\ n \in Int
    BY <2>2
  <2> QED  BY <1>0, <2>1, <2>2, <2>3, FlowKeeps
<1>6. ASSUME NEW c \in Clients, Pop(c)  PROVE TokensBound(d, g)'
  <2> DEFINE n == OneAt(d, c, Head(queue[c]), g)
  <2>1. Flow(d, g, 0, 0, 0, 0 - n, n, 0)
    BY <1>0, <1>6, PopFlow
  <2>2. n \in {0, 1}
    BY OneType
  <2> HIDE DEF n
  <2>3. 0 - n \in Int /\ n \in Int
    BY <2>2
  <2> QED  BY <1>0, <2>1, <2>2, <2>3, FlowKeeps
<1>7. ASSUME NEW c \in Clients, PopLost(c)  PROVE TokensBound(d, g)'
  <2> DEFINE n == OneAt(d, c, Head(queue[c]), g)
  <2>1. Flow(d, g, 0, 0, 0, 0 - n, 0, 0)
    BY <1>0, <1>7, PopLostFlow
  <2>2. n \in {0, 1}
    BY OneType
  <2> HIDE DEF n
  <2>3. 0 - n \in Int /\ n \in Int
    BY <2>2
  <2> QED  BY <1>0, <2>1, <2>2, <2>3, FlowKeeps
<1>8. ASSUME NEW c \in Clients, NEW w \in Workers, Spawn(c, w)  PROVE TokensBound(d, g)'
  <2> DEFINE n == OneAt(d, c, held[c], g)
  <2>1. Flow(d, g, 0, 0, 0, 0, 0 - n, n)
    BY <1>0, <1>8, SpawnFlow
  <2>2. n \in {0, 1}
    BY OneType
  <2> HIDE DEF n
  <2>3. 0 - n \in Int /\ n \in Int
    BY <2>2
  <2> QED  BY <1>0, <2>1, <2>2, <2>3, FlowKeeps
<1>9. ASSUME NEW c \in Clients, NEW w \in Workers, Requeue(c, w)  PROVE TokensBound(d, g)'
  <2> DEFINE n == OneAt(d, c, worker[c][w].hash, g)
  <2>1. Flow(d, g, 0, 0, 0, n, 0, 0 - n)
    BY <1>0, <1>9, RequeueFlow
  <2>2. n \in {0, 1}
    BY OneType
  <2> HIDE DEF n
  <2>3. 0 - n \in Int /\ n \in Int
    BY <2>2
  <2> QED  BY <1>0, <2>1, <2>2, <2>3, FlowKeeps
<1>10. ASSUME NEW c \in Clients, NEW w \in Workers, WorkerStep(c, w) \/ WorkerFault(c, w),
              ~Requeue(c, w)
       PROVE  TokensBound(d, g)'
  BY <1>1, <1>10, WorkerFlow
<1>11. ASSUME NEW c \in Clients, SendGarbage(c)  PROVE TokensBound(d, g)'
  BY <1>0, <1>1, <1>11, GarbageFlow
<1>12. ASSUME NEW c \in Clients,
              Listen(c) \/ List(c) \/ ListFails(c) \/ Store(c) \/ StoreFails(c) \/ StreamEnds(c)
       PROVE  TokensBound(d, g)'
  BY <1>0, <1>1, <1>12, BrokerStill, StillFlow
<1>13. ASSUME \/ UNCHANGED vars
              \/ \E c \in Clients, h \in Hashes : Mine(c, h) \/ Evict(c, h) \/ Reorg(c, h)
       PROVE  TokensBound(d, g)'
  <2>1. StillPlaces(d, g)
    BY <1>13 DEF vars, Mine, Evict, Reorg, Move, StillPlaces
  <2> QED  BY <1>0, <1>1, <2>1, StillFlow
<1> QED
  BY <1>2, <1>3, <1>4, <1>5, <1>6, <1>7, <1>8, <1>9, <1>10, <1>11, <1>12, <1>13
     DEF Next, Environment, BrokerStep, BrokerFault

\* For any number of clients, hashes, goroutines, announcements and faults,
\* no hash is carried by more places than its node has announced it.
THEOREM OnePoller == Spec => []OnePollerPerAnnouncement
<1>1. IInv /\ IInv' /\ OnePollerPerAnnouncement /\ [Next]_vars => OnePollerPerAnnouncement'
  BY TokensStep
<1> QED
  BY <1>1, TokensInit, Inductive, PTL DEF Spec

-----------------------------------------------------------------------------
(* A hash that is announced once has one carrier at most.                  *)

\* Where a hash is not when one of its places is known.
LEMMA BrokerAlone ==
  ASSUME TypeOK, NEW c \in Clients, NEW h \in Hashes, TokensBound(c, h),
         Len(announced[c][h]) <= 1, BrokerHas(c, h)
  PROVE  /\ announced[c][h] # <<>>
         /\ h \notin ToSet(wire[c])
<1> DEFINE K == Cardinality(Busy(worker[c], h))
           N == Len(announced[c][h])
<1>1. /\ Occurrences(wire[c], h) \in Nat /\ Occurrences(queue[c], h) \in Nat
      /\ One(held[c], h) \in {0, 1} /\ K \in Nat
      /\ N \in Nat /\ N <= 1
  BY PlacesType
<1>2. Carrying(broker[c], h) = 1
  BY DEF BrokerHas, Carrying
<1>3. /\ Tokens(c, h) = Occurrences(wire[c], h) + 1 + Occurrences(queue[c], h)
                          + One(held[c], h) + K
      /\ Tokens(c, h) <= N
  BY <1>2, TokensCount DEF TokensBound
<1> HIDE DEF K, N
<1>4. Occurrences(wire[c], h) = 0 /\ N = 1
  BY <1>1, <1>3
<1>5. h \notin ToSet(wire[c])
  <2> DEFINE M == Hashes \cup {Garbage}
  <2>1. wire[c] \in Seq(M)
    BY DEF TypeOK
  <2> HIDE DEF M
  <2> QED  BY <1>4, <2>1, OccurrencesNone
<1>6. announced[c][h] # <<>>
  BY <1>4 DEF N
<1> QED
  BY <1>5, <1>6

LEMMA WorkerAlone ==
  ASSUME TypeOK, NEW c \in Clients, NEW h \in Hashes, TokensBound(c, h),
         Len(announced[c][h]) <= 1, NEW w \in Workers, WorkerHas(c, w, h)
  PROVE  /\ ~BrokerHas(c, h)
         /\ h \notin ToSet(queue[c])
         /\ held[c] # h
         /\ \A v \in Workers : WorkerHas(c, v, h) => v = w
<1> DEFINE K == Cardinality(Busy(worker[c], h))
<1>1. /\ Occurrences(wire[c], h) \in Nat /\ Occurrences(queue[c], h) \in Nat
      /\ Carrying(broker[c], h) \in {0, 1}
      /\ One(held[c], h) \in {0, 1} /\ K \in Nat /\ Len(announced[c][h]) \in Nat
  BY PlacesType
<1>2. w \in Busy(worker[c], h) /\ IsFiniteSet(Busy(worker[c], h))
  BY BusyType DEF WorkerHas, Busy, Working
<1>3. /\ Cardinality(Busy(worker[c], h) \ {w}) = K - 1
      /\ IsFiniteSet(Busy(worker[c], h) \ {w})
  BY <1>2, FS_RemoveElement
<1>4. Cardinality(Busy(worker[c], h) \ {w}) \in Nat
  BY <1>3, FS_CardinalityType
<1>5. /\ Tokens(c, h) = Occurrences(wire[c], h) + Carrying(broker[c], h)
                          + Occurrences(queue[c], h) + One(held[c], h) + K
      /\ Tokens(c, h) <= Len(announced[c][h])
  BY TokensCount DEF TokensBound
<1> HIDE DEF K
<1>6. /\ Carrying(broker[c], h) = 0 /\ Occurrences(queue[c], h) = 0
      /\ One(held[c], h) = 0 /\ Cardinality(Busy(worker[c], h) \ {w}) = 0
  BY <1>1, <1>3, <1>4, <1>5
<1>7. Busy(worker[c], h) \ {w} = {}
  BY <1>3, <1>6, FS_EmptySet
<1>8. queue[c] \in Seq(Hashes)
  BY DEF TypeOK
<1>9. h \notin ToSet(queue[c])
  BY <1>6, <1>8, OccurrencesNone
<1>10. \A v \in Workers : WorkerHas(c, v, h) => v = w
  BY <1>7 DEF Busy, Working, WorkerHas
<1> QED
  BY <1>6, <1>9, <1>10 DEF Carrying, One, BrokerHas

-----------------------------------------------------------------------------
(* What is known of a hash announced once, from what its record says.      *)

\* Once it has a record, its announcement has gone past StoreTransaction.
Detected(c, h) ==
  /\ announced[c][h] # <<>>
  /\ h \notin ToSet(wire[c])
  /\ ~(broker[c].phase \in {"list", "store"} /\ broker[c].hash = h)

\* Once the record is final, nobody carries it but the goroutine that has
\* written it, which only has to index it.
Final(c, h) ==
  /\ ~BrokerHas(c, h)
  /\ h \notin ToSet(queue[c])
  /\ held[c] # h
  /\ \A w \in Workers : WorkerHas(c, w, h) => At(c, w, "index") /\ worker[c][w].verdict \in Terminal

LifeOf(c, h) ==
  Len(announced[c][h]) <= 1 =>
    /\ recs[c][h].status # "none" => Detected(c, h)
    /\ recs[c][h].status \in Terminal => Final(c, h)
LifeInv == \A c \in Clients, h \in Hashes : LifeOf(c, h)

LEMMA LifeInit == Init => LifeInv
BY DEF Init, LifeInv, LifeOf, NoRecord, Terminal

\* Announcements are never taken back.
LEMMA AnnouncedGrows ==
  ASSUME TypeOK, [Next]_vars, NEW d \in Clients, NEW g \in Hashes
  PROVE  Len(announced[d][g]) <= Len(announced'[d][g])
<1>1. announced \in [Clients -> [Hashes -> Seq(Nat)]]
  BY DEF TypeOK
<1>2. Len(announced[d][g]) \in Nat
  BY <1>1
<1>3. ASSUME NEW c \in Clients, NEW h \in Hashes, Announce(c, h)
      PROVE  Len(announced[d][g]) <= Len(announced'[d][g])
  <2>0. PICK t \in now .. MaxTime :
          announced' = [announced EXCEPT ![c][h] = Append(announced[c][h], t)]
    BY <1>3 DEF Announce
  <2>1. announced' = [announced EXCEPT ![c][h] = Append(announced[c][h], t)] /\ t \in Nat
    BY <2>0, ClockType
  <2>2. CASE d = c /\ g = h
    <3>1. announced'[d][g] = Append(announced[d][g], t)
      BY <1>1, <2>1, <2>2
    <3>2. Len(Append(announced[d][g], t)) = Len(announced[d][g]) + 1
      BY <1>1, <2>1
    <3> QED  BY <1>2, <3>1, <3>2
  <2>3. CASE ~(d = c /\ g = h)
    <3>1. announced'[d][g] = announced[d][g]
      BY <1>1, <2>1, <2>3
    <3> QED  BY <1>2, <3>1
  <2> QED  BY <2>2, <2>3
<1>4. ASSUME announced' = announced
      PROVE  Len(announced[d][g]) <= Len(announced'[d][g])
  BY <1>2, <1>4
<1>5. ASSUME NEW c \in Clients,
             \/ BrokerStep(c) \/ BrokerFault(c) \/ Pop(c) \/ PopLost(c) \/ SendGarbage(c)
             \/ \E h \in Hashes : Mine(c, h) \/ Evict(c, h) \/ Reorg(c, h)
      PROVE  announced' = announced
  BY <1>5 DEF BrokerStep, BrokerFault, Listen, Receive, List, Store, Push, StreamEnds,
              ListFails, StoreFails, PushFails, Pop, PopLost, SendGarbage, Mine, Evict, Reorg, Move,
              nodeVars
<1>6. ASSUME NEW c \in Clients, NEW w \in Workers,
             Spawn(c, w) \/ WorkerStep(c, w) \/ WorkerFault(c, w)
      PROVE  announced' = announced
  BY <1>6 DEF Spawn, WorkerStep, WorkerFault, AskReceipt, FetchMined, FetchGone, Lookup, Load, Save,
              Index, Requeue, ReceiptNotIndexed, ReceiptFails, FetchFails, LookupFails,
              UpdateFails, SaveLost, IndexFails, RequeueFails, Hang, nodeVars
<1>7. UNCHANGED vars => announced' = announced
  BY DEF vars
<1> QED
  BY <1>3, <1>4, <1>5, <1>6, <1>7 DEF Next, Environment

-----------------------------------------------------------------------------
(* LifeInv is inductive, next to IInv and OnePollerPerAnnouncement.  Each  *)
(* lemma takes one hash at one client through the steps of one component.  *)

\* A step that neither writes the record nor brings the hash anywhere new.
LEMMA LifeKept ==
  ASSUME NEW d \in Clients, NEW g \in Hashes, LifeOf(d, g), Len(announced[d][g]) <= 1,
         recs'[d][g].status = recs[d][g].status,
         Detected(d, g) => Detected(d, g)', Final(d, g) => Final(d, g)'
  PROVE  LifeOf(d, g)'
BY DEF LifeOf

LEMMA LifeNode ==
  ASSUME TypeOK, NEW d \in Clients, NEW g \in Hashes, LifeOf(d, g),
         Len(announced[d][g]) <= 1, Len(announced'[d][g]) <= 1, NEW c \in Clients,
         SendGarbage(c) \/ \E h \in Hashes : Announce(c, h) \/ Mine(c, h) \/ Evict(c, h) \/ Reorg(c, h)
  PROVE  LifeOf(d, g)'
<1>1. /\ announced \in [Clients -> [Hashes -> Seq(Nat)]] 
      /\ wire \in [Clients -> Seq(Hashes \cup {Garbage})]
  BY DEF TypeOK
<1>2. /\ broker' = broker /\ queue' = queue /\ held' = held /\ worker' = worker
      /\ recs' = recs
  BY DEF SendGarbage, Announce, Mine, Evict, Reorg, Move
<1>3. Final(d, g) => Final(d, g)'
  BY <1>2 DEF Final, BrokerHas, WorkerHas, At
<1>4. ASSUME NEW h \in Hashes, Announce(c, h)  PROVE LifeOf(d, g)'
  <2>0. PICK t \in now .. MaxTime :
          announced' = [announced EXCEPT ![c][h] = Append(announced[c][h], t)]
    BY <1>4 DEF Announce
  <2>1. /\ wire' = [wire EXCEPT ![c] = Append(wire[c], h)]
        /\ announced' = [announced EXCEPT ![c][h] = Append(announced[c][h], t)]
        /\ t \in Nat
    BY <1>4, <2>0, ClockType DEF Announce
  <2>2. CASE d = c /\ g = h
    <3>1. announced'[d][g] = Append(announced[d][g], t) /\ announced[d][g] \in Seq(Nat)
      BY <1>1, <2>1, <2>2
    <3>2. Len(announced'[d][g]) = Len(announced[d][g]) + 1 /\ Len(announced[d][g]) \in Nat
      BY <1>1, <2>1, <3>1
    <3>3. Len(announced[d][g]) = 0
      BY <3>2
    <3>4. announced[d][g] = <<>>
      BY <3>1, <3>3
    <3>5. recs[d][g].status = "none"
      BY <3>4 DEF LifeOf, Detected
    <3> QED  BY <1>2, <3>5 DEF LifeOf, Terminal
  <2>3. CASE ~(d = c /\ g = h)
    <3>1. announced'[d][g] = announced[d][g]
      BY <1>1, <2>1, <2>3
    <3>2. g \notin ToSet(wire[d]) => g \notin ToSet(wire'[d])
      <4>1. CASE d = c
        <5>1. ToSet(Append(wire[c], h)) = ToSet(wire[c]) \cup {h}
          <6> DEFINE M == Hashes \cup {Garbage}
          <6>1. wire[c] \in Seq(M) /\ h \in M
            BY <1>1
          <6> HIDE DEF M
          <6> QED  BY <6>1, ToSetAppend
        <5>2. wire'[d] = Append(wire[c], h)
          BY <1>1, <2>1, <4>1
        <5> QED  BY <2>3, <4>1, <5>1, <5>2
      <4>2. CASE d # c
        BY <1>1, <2>1, <4>2
      <4> QED  BY <4>1, <4>2
    <3>3. Detected(d, g) => Detected(d, g)'
      BY <1>2, <3>1, <3>2 DEF Detected
    <3> QED  BY <1>2, <1>3, <3>3, LifeKept
  <2> QED  BY <2>2, <2>3
<1>5. CASE SendGarbage(c)
  <2>1. wire' = [wire EXCEPT ![c] = Append(wire[c], Garbage)] /\ announced' = announced
    BY <1>5 DEF SendGarbage
  <2>2. g \notin ToSet(wire[d]) => g \notin ToSet(wire'[d])
    <3>1. CASE d = c
      <4>1. ToSet(Append(wire[c], Garbage)) = ToSet(wire[c]) \cup {Garbage}
        <5> DEFINE M == Hashes \cup {Garbage}
        <5>1. wire[c] \in Seq(M) /\ Garbage \in M
          BY <1>1
        <5> HIDE DEF M
        <5> QED  BY <5>1, ToSetAppend
      <4>2. wire'[d] = Append(wire[c], Garbage) /\ g # Garbage
        BY <1>1, <2>1, <3>1, ConstantsAssumption
      <4> QED  BY <3>1, <4>1, <4>2
    <3>2. CASE d # c
      BY <1>1, <2>1, <3>2
    <3> QED  BY <3>1, <3>2
  <2>3. Detected(d, g) => Detected(d, g)'
    BY <1>2, <2>1, <2>2 DEF Detected
  <2> QED  BY <1>2, <1>3, <2>3, LifeKept
<1>6. ASSUME NEW h \in Hashes, Mine(c, h) \/ Evict(c, h) \/ Reorg(c, h)
      PROVE  LifeOf(d, g)'
  <2>1. wire' = wire /\ announced' = announced
    BY <1>6 DEF Mine, Evict, Reorg, Move
  <2>2. Detected(d, g) => Detected(d, g)'
    BY <1>2, <2>1 DEF Detected
  <2> QED  BY <1>2, <1>3, <2>2, LifeKept
<1> QED
  BY <1>4, <1>5, <1>6

LEMMA LifeBroker ==
  ASSUME IInv, NEW d \in Clients, NEW g \in Hashes, LifeOf(d, g), TokensBound(d, g),
         Len(announced[d][g]) <= 1, NEW c \in Clients, BrokerStep(c) \/ BrokerFault(c)
  PROVE  LifeOf(d, g)'
<1> USE DEF BrokerAt, nodeVars
<1>0. TypeOK /\ broker \in [Clients -> BrokerState]
  BY DEF IInv, TypeOK
<1>1. announced' = announced /\ held' = held /\ worker' = worker
  BY DEF BrokerStep, BrokerFault, Listen, Receive, List, Store, Push, StreamEnds,
         ListFails, StoreFails, PushFails
<1>2. /\ ~BrokerHas(d, g)' /\ queue'[d] = queue[d] => (Final(d, g) => Final(d, g)')
  BY <1>1 DEF Final, WorkerHas, At
<1>3. CASE Receive(c)
  <2>1. /\ wire' = [wire EXCEPT ![c] = Tail(wire[c])] /\ wire[c] # <<>>
        /\ queue' = queue /\ recs' = recs /\ broker[c].phase = "reading"
    BY <1>3 DEF Receive
  <2>2. ToSet(wire[c]) = {Head(wire[c])} \cup ToSet(Tail(wire[c]))
    <3> DEFINE M == Hashes \cup {Garbage}
    <3>1. wire[c] \in Seq(M)
      BY <1>0 DEF TypeOK
    <3> HIDE DEF M
    <3> QED  BY <2>1, <3>1, ToSetPop
  <2>3. ToSet(wire'[d]) \subseteq ToSet(wire[d])
    BY <1>0, <2>1, <2>2 DEF TypeOK
  <2>4. CASE d = c /\ Head(wire[c]) = g
    <3>1. recs[d][g].status = "none"
      BY <2>2, <2>4 DEF LifeOf, Detected
    <3> QED  BY <2>1, <3>1 DEF LifeOf, Terminal
  <2>5. CASE ~(d = c /\ Head(wire[c]) = g)
    <3>1. \/ broker'[d] = broker[d]
          \/ broker'[d].phase = "top"
          \/ broker'[d].phase = "list" /\ broker'[d].hash # g
      BY <1>0, <1>3, <2>5 DEF Receive, BrokerGoto, BrokerState
    <3>2. Detected(d, g) => Detected(d, g)'
      BY <1>1, <2>3, <3>1 DEF Detected
    <3>3. Final(d, g) => Final(d, g)'
      BY <1>1, <1>2, <2>1, <3>1 DEF Final, BrokerHas
    <3> QED  BY <2>1, <3>2, <3>3, LifeKept
  <2> QED  BY <2>4, <2>5
<1>4. CASE Listen(c) \/ StreamEnds(c) \/ List(c) \/ ListFails(c) \/ StoreFails(c) \/ PushFails(c)
  <2>1. wire' = wire /\ queue' = queue /\ recs' = recs
    BY <1>4 DEF Listen, StreamEnds, List, ListFails, StoreFails, PushFails
  <2>2. /\ broker'[d].phase \in {"list", "store"} /\ broker'[d].hash = g
           => broker[d].phase \in {"list", "store"} /\ broker[d].hash = g
        /\ BrokerHas(d, g)' => BrokerHas(d, g)
    <3>1. CASE Listen(c) \/ StreamEnds(c)
      BY <1>0, <3>1 DEF Listen, StreamEnds, BrokerGoto, BrokerState, BrokerHas
    <3>2. CASE List(c) \/ ListFails(c)
      BY <1>0, <3>2 DEF List, ListFails, BrokerGoto, BrokerState, BrokerHas
    <3>3. CASE StoreFails(c) \/ PushFails(c)
      BY <1>0, <3>3 DEF StoreFails, PushFails, BrokerGoto, BrokerState, BrokerHas
    <3> QED  BY <1>4, <3>1, <3>2, <3>3
  <2>3. Detected(d, g) => Detected(d, g)'
    BY <1>1, <2>1, <2>2 DEF Detected
  <2>4. Final(d, g) => Final(d, g)'
    BY <1>2, <2>1, <2>2 DEF Final
  <2> QED  BY <2>1, <2>3, <2>4, LifeKept
<1>5. CASE Store(c)
  <2> DEFINE h == broker[c].hash
  <2>1. /\ broker[c].phase = "store" /\ h \in Hashes
        /\ recs' = [recs EXCEPT ![c][h] = Received(broker[c].stamp)]
        /\ wire' = wire /\ queue' = queue
        /\ broker' = [broker EXCEPT ![c].phase = "push"]
    BY <1>5, BrokerBusy DEF Store, BrokerGoto
  <2>2. CASE d = c /\ g = h
    <3>1. BrokerHas(d, g)
      BY <2>1, <2>2 DEF BrokerHas
    <3>2. announced[d][g] # <<>> /\ g \notin ToSet(wire[d])
      BY <1>0, <3>1, BrokerAlone
    <3>3. Detected(d, g)'
      BY <1>0, <1>1, <2>1, <2>2, <3>2 DEF Detected
    <3>4. recs'[d][g].status = "received"
      BY <1>0, <2>1, <2>2 DEF TypeOK, Received
    <3> QED  BY <3>3, <3>4 DEF LifeOf, Terminal
  <2>3. CASE ~(d = c /\ g = h)
    <3>1. recs'[d][g] = recs[d][g]
      BY <1>0, <2>1, <2>3 DEF TypeOK
    <3>2. broker'[d] = broker[d] \/ (broker'[d].phase = "push" /\ broker'[d].hash # g)
      BY <1>0, <2>1, <2>3 DEF BrokerState
    <3>3. Detected(d, g) => Detected(d, g)'
      BY <1>1, <2>1, <3>2 DEF Detected
    <3>4. Final(d, g) => Final(d, g)'
      BY <1>2, <2>1, <3>2 DEF Final, BrokerHas
    <3> QED  BY <3>1, <3>3, <3>4, LifeKept
  <2> QED  BY <2>2, <2>3
<1>6. CASE Push(c)
  <2> DEFINE h == broker[c].hash
  <2>1. /\ broker[c].phase = "push" /\ h \in Hashes
        /\ recs' = recs /\ wire' = wire
        /\ queue' = [queue EXCEPT ![c] = Append(queue[c], h)]
        /\ broker' = [broker EXCEPT ![c].phase = "top"]
    BY <1>6, BrokerBusy DEF Push, BrokerGoto
  <2>2. broker'[d] = broker[d] \/ broker'[d].phase = "top"
    BY <1>0, <2>1 DEF BrokerState
  <2>3. Detected(d, g) => Detected(d, g)'
    BY <1>1, <2>1, <2>2 DEF Detected
  <2>4. ASSUME Final(d, g)  PROVE Final(d, g)'
    <3>1. ~(d = c /\ g = h)
      BY <2>1, <2>4 DEF Final, BrokerHas
    <3>2. g \notin ToSet(queue'[d])
      <4>1. CASE d = c
        <5>1. ToSet(Append(queue[c], h)) = ToSet(queue[c]) \cup {h}
          BY <1>0, <2>1, ToSetAppend DEF TypeOK
        <5>2. queue'[d] = Append(queue[c], h)
          BY <1>0, <2>1, <4>1 DEF TypeOK
        <5> QED  BY <2>4, <3>1, <4>1, <5>1, <5>2 DEF Final
      <4>2. CASE d # c
        BY <1>0, <2>1, <2>4, <4>2 DEF Final, TypeOK
      <4> QED  BY <4>1, <4>2
    <3>3. ~BrokerHas(d, g)'
      BY <2>2, <2>4 DEF Final, BrokerHas
    <3> QED  BY <1>1, <2>4, <3>2, <3>3 DEF Final, WorkerHas, At
  <2> QED  BY <2>1, <2>3, <2>4, LifeKept
<1> QED
  BY <1>3, <1>4, <1>5, <1>6 DEF BrokerStep, BrokerFault

LEMMA LifeLoop ==
  ASSUME IInv, NEW d \in Clients, NEW g \in Hashes, LifeOf(d, g),
         Len(announced[d][g]) <= 1, NEW c \in Clients,
         Pop(c) \/ PopLost(c) \/ \E w \in Workers : Spawn(c, w)
  PROVE  LifeOf(d, g)'
<1>0. TypeOK /\ g # NoHash
  BY ConstantsAssumption DEF IInv
<1>1. announced' = announced /\ wire' = wire /\ broker' = broker /\ recs' = recs
  BY DEF Pop, PopLost, Spawn, nodeVars
<1>2. Detected(d, g) => Detected(d, g)'
  BY <1>1 DEF Detected
<1>3. ASSUME Pop(c) \/ PopLost(c), Final(d, g)  PROVE Final(d, g)'
  <2>1. /\ queue[c] # <<>> /\ queue' = [queue EXCEPT ![c] = Tail(queue[c])]
        /\ held' = held \/ held' = [held EXCEPT ![c] = Head(queue[c])]
        /\ worker' = worker
    BY <1>3 DEF Pop, PopLost
  <2>2. ToSet(queue[c]) = {Head(queue[c])} \cup ToSet(Tail(queue[c]))
    BY <1>0, <2>1, ToSetPop DEF TypeOK
  <2>3. g \notin ToSet(queue'[d]) /\ held'[d] # g
    BY <1>0, <1>3, <2>1, <2>2 DEF TypeOK, Final
  <2> QED  BY <1>1, <1>3, <2>1, <2>3 DEF Final, BrokerHas, WorkerHas, At
<1>4. ASSUME NEW w \in Workers, Spawn(c, w), Final(d, g)  PROVE Final(d, g)'
  <2> DEFINE s == [Idle EXCEPT !.phase = "receipt", !.hash = held[c]]
  <2>1. /\ queue' = queue /\ held' = [held EXCEPT ![c] = NoHash]
        /\ worker' = [worker EXCEPT ![c][w] = s]
    BY <1>4 DEF Spawn, Become
  <2>2. s.hash = held[c]
    BY DEF Idle
  <2> HIDE DEF s
  <2>3. held'[d] # g
    BY <1>0, <1>4, <2>1 DEF Final, TypeOK
  <2>4. \A v \in Workers : WorkerHas(d, v, g)' => worker'[d][v] = worker[d][v]
    BY <1>0, <1>4, <2>1, <2>2 DEF Final, TypeOK, WorkerHas
  <2> QED  BY <1>1, <1>4, <2>1, <2>3, <2>4 DEF Final, BrokerHas, WorkerHas, At
<1> QED
  BY <1>1, <1>2, <1>3, <1>4, LifeKept

LEMMA LifeWorker ==
  ASSUME IInv, NEW d \in Clients, NEW g \in Hashes, LifeOf(d, g), TokensBound(d, g),
         Len(announced[d][g]) <= 1, NEW c \in Clients, NEW w \in Workers,
         WorkerStep(c, w) \/ WorkerFault(c, w)
  PROVE  LifeOf(d, g)'
<1> DEFINE old == worker[c][w]
<1>0. PICK s : Moves(c, w, s)
  BY WorkerMoves
<1>1. /\ TypeOK /\ old \in Slot /\ old.hash \in Hashes /\ SlotInv(c, old)
      /\ old.phase # "idle"
  BY <1>0, BusySlot DEF Moves
<1>2. /\ announced' = announced /\ wire' = wire /\ broker' = broker /\ held' = held
      /\ worker' = [worker EXCEPT ![c][w] = s]
      /\ s = Idle \/ (s.phase # "idle" /\ s.hash = old.hash)
      /\ old.phase = "index" /\ old.verdict \in Terminal => s = Idle
  BY <1>0 DEF Moves, Become
<1>3. Detected(d, g) => Detected(d, g)'
  BY <1>2 DEF Detected
<1>4. \A v \in Workers : WorkerHas(d, v, g)' =>
        /\ WorkerHas(d, v, g)
        /\ worker'[d][v] = worker[d][v] \/ (d = c /\ v = w)
  BY <1>1, <1>2 DEF WorkerHas, TypeOK, Idle
<1>5. CASE (Save(c, w) \/ SaveLost(c, w)) /\ d = c /\ g = old.hash
  <2>1. /\ old.phase = "save" /\ queue' = queue
        /\ recs' = [recs EXCEPT ![c][old.hash] = old.buf]
    BY <1>5 DEF Save, SaveLost, At
  <2>2. recs'[d][g].status = old.verdict /\ recs[d][g].status # "none"
    BY <1>1, <1>5, <2>1 DEF TypeOK, SlotInv
  <2>3. WorkerHas(d, w, g)
    BY <1>1, <1>5 DEF WorkerHas
  <2>4. /\ ~BrokerHas(d, g) /\ g \notin ToSet(queue[d]) /\ held[d] # g
        /\ \A v \in Workers : WorkerHas(d, v, g) => v = w
    BY <1>1, <2>3, WorkerAlone
  <2>5. old.verdict \in Terminal =>
          \/ worker'[d][w].phase = "index" /\ worker'[d][w].verdict = old.verdict
          \/ worker'[d][w].phase = "idle"
    <3>1. CASE Save(c, w)
      <4>1. worker' = [worker EXCEPT ![c][w] = [old EXCEPT !.phase = "index"]]
        BY <3>1 DEF Save, Goto, Become
      <4> QED  BY <1>1, <1>5, <4>1 DEF TypeOK, Slot
    <3>2. CASE SaveLost(c, w) /\ old.verdict \in Terminal
      <4>1. worker' = [worker EXCEPT ![c][w] = Idle]
        BY <3>2 DEF SaveLost, AfterUpdate, Finish, Become, Terminal
      <4> QED  BY <1>1, <1>5, <4>1 DEF TypeOK, Idle
    <3> QED  BY <1>5, <3>1, <3>2
  <2>6. old.verdict \in Terminal => Final(d, g)'
    BY <1>2, <1>4, <2>1, <2>4, <2>5 DEF Final, BrokerHas, WorkerHas, At
  <2> QED  BY <1>3, <2>2, <2>6 DEF LifeOf
<1>6. CASE ~((Save(c, w) \/ SaveLost(c, w)) /\ d = c /\ g = old.hash)
  <2>1. recs'[d][g].status = recs[d][g].status
    <3>1. CASE Save(c, w) \/ SaveLost(c, w)
      BY <1>1, <1>6, <3>1 DEF Save, SaveLost, TypeOK
    <3>2. CASE ~Save(c, w) /\ ~SaveLost(c, w)
      <4>1. recs' = recs
        BY <3>2 DEF WorkerStep, WorkerFault, AskReceipt, FetchMined, FetchGone, Lookup, Load, Index,
                    Requeue, ReceiptNotIndexed, ReceiptFails, FetchFails, LookupFails,
                    UpdateFails, IndexFails, RequeueFails, Hang
      <4> QED  BY <4>1
    <3> QED  BY <3>1, <3>2
  <2>2. ASSUME Final(d, g)  PROVE Final(d, g)'
    <3>1. \A v \in Workers : WorkerHas(d, v, g)' => worker'[d][v] = worker[d][v]
      BY <1>1, <1>2, <1>4, <2>2 DEF Final, WorkerHas, At, TypeOK, Idle
    <3>2. g \notin ToSet(queue'[d])
      <4>1. CASE Requeue(c, w)
        <5>1. /\ old.phase = "requeue"
              /\ queue' = [queue EXCEPT ![c] = Append(queue[c], old.hash)]
          BY <4>1 DEF Requeue, At
        <5>2. ~(d = c /\ g = old.hash)
          BY <1>1, <2>2, <5>1 DEF Final, WorkerHas, At
        <5>3. CASE d = c
          <6>1. ToSet(Append(queue[c], old.hash)) = ToSet(queue[c]) \cup {old.hash}
            BY <1>1, ToSetAppend DEF TypeOK
          <6>2. queue'[d] = Append(queue[c], old.hash)
            BY <1>1, <5>1, <5>3 DEF TypeOK
          <6> QED  BY <2>2, <5>2, <5>3, <6>1, <6>2 DEF Final
        <5>4. CASE d # c
          BY <1>1, <2>2, <5>1, <5>4 DEF Final, TypeOK
        <5> QED  BY <5>3, <5>4
      <4>2. CASE ~Requeue(c, w)
        <5>1. queue' = queue
          BY <4>2 DEF WorkerStep, WorkerFault, AskReceipt, FetchMined, FetchGone, Lookup, Load, Save,
                      Index, ReceiptNotIndexed, ReceiptFails, FetchFails, LookupFails,
                      UpdateFails, SaveLost, IndexFails, RequeueFails, Hang
        <5> QED  BY <2>2, <5>1 DEF Final
      <4> QED  BY <4>1, <4>2
    <3> QED  BY <1>2, <1>4, <2>2, <3>1, <3>2 DEF Final, BrokerHas, At
  <2> QED  BY <1>3, <2>1, <2>2, LifeKept
<1> QED
  BY <1>5, <1>6

LEMMA LifeStep ==
  ASSUME IInv, OnePollerPerAnnouncement, LifeInv, [Next]_vars
  PROVE  LifeInv'
<1> SUFFICES ASSUME NEW d \in Clients, NEW g \in Hashes, Len(announced'[d][g]) <= 1
             PROVE  LifeOf(d, g)'
  BY DEF LifeInv, LifeOf
<1>1. TypeOK /\ LifeOf(d, g) /\ TokensBound(d, g)
  BY DEF IInv, LifeInv, OnePollerPerAnnouncement, TokensBound
<1>2. Len(announced[d][g]) <= 1
  <2>1. Len(announced[d][g]) \in Nat /\ Len(announced[d][g]) <= Len(announced'[d][g])
    BY <1>1, AnnouncedGrows, PlacesType
  <2>2. Len(announced'[d][g]) \in Nat
    <3>1. TypeOK'
      BY IInvStep DEF IInv
    <3>2. announced'[d][g] \in Seq(Nat)
      BY <3>1 DEF TypeOK
    <3> QED  BY <3>2
  <2> QED  BY <2>1, <2>2
<1>3. ASSUME NEW c \in Clients, Environment(c)  PROVE LifeOf(d, g)'
  BY <1>1, <1>2, <1>3, LifeNode DEF Environment
<1>4. ASSUME NEW c \in Clients, BrokerStep(c) \/ BrokerFault(c)  PROVE LifeOf(d, g)'
  BY <1>1, <1>2, <1>4, LifeBroker
<1>5. ASSUME NEW c \in Clients, Pop(c) \/ PopLost(c) \/ \E w \in Workers : Spawn(c, w)
      PROVE  LifeOf(d, g)'
  BY <1>1, <1>2, <1>5, LifeLoop
<1>6. ASSUME NEW c \in Clients, NEW w \in Workers, WorkerStep(c, w) \/ WorkerFault(c, w)
      PROVE  LifeOf(d, g)'
  BY <1>1, <1>2, <1>6, LifeWorker
<1>7. CASE UNCHANGED vars
  <2>1. /\ announced' = announced /\ wire' = wire /\ broker' = broker /\ queue' = queue
        /\ held' = held /\ worker' = worker /\ recs' = recs
    BY <1>7 DEF vars
  <2> QED  BY <1>1, <2>1 DEF LifeOf, Detected, Final, BrokerHas, WorkerHas, At
<1> QED
  BY <1>3, <1>4, <1>5, <1>6, <1>7 DEF Next

-----------------------------------------------------------------------------
(* Final statuses were true.                                               *)

\* Which steps write a record: HSET is executed whether its reply arrives or not.
Saves(c, w) == Save(c, w) \/ SaveLost(c, w)

LEMMA RecordWriters ==
  ASSUME IInv, [Next]_vars, NEW d \in Clients, NEW g \in Hashes
  PROVE  \/ recs'[d][g] = recs[d][g]
         \/ Store(d) /\ broker[d].hash = g
         \/ \E w \in Workers : Saves(d, w) /\ worker[d][w].hash = g
<1>1. TypeOK
  BY DEF IInv
<1>2. ASSUME NEW c \in Clients, Store(c)
      PROVE  recs'[d][g] = recs[d][g] \/ (Store(d) /\ broker[d].hash = g)
  BY <1>1, <1>2 DEF Store, TypeOK
<1>3. ASSUME NEW c \in Clients, NEW w \in Workers, Saves(c, w)
      PROVE  recs'[d][g] = recs[d][g] \/ (Saves(d, w) /\ worker[d][w].hash = g)
  <2>1. recs' = [recs EXCEPT ![c][worker[c][w].hash] = worker[c][w].buf]
    BY <1>3 DEF Saves, Save, SaveLost
  <2>2. ~(c = d /\ worker[c][w].hash = g) => recs'[d][g] = recs[d][g]
    BY <1>1, <2>1 DEF TypeOK
  <2> QED  BY <1>3, <2>2
<1>4. ASSUME NEW c \in Clients,
             \/ Environment(c) \/ Listen(c) \/ Receive(c) \/ List(c) \/ Push(c)
             \/ BrokerFault(c) \/ Pop(c) \/ PopLost(c)
      PROVE  recs' = recs
  BY <1>4 DEF Environment, Announce, Mine, Evict, Reorg, Move, SendGarbage, Listen, Receive, List, Push,
              BrokerFault, StreamEnds, ListFails, StoreFails, PushFails, Pop, PopLost
<1>5. ASSUME NEW c \in Clients, NEW w \in Workers,
             Spawn(c, w) \/ WorkerStep(c, w) \/ WorkerFault(c, w), ~Saves(c, w)
      PROVE  recs' = recs
  BY <1>5 DEF Saves, Spawn, WorkerStep, AskReceipt, FetchMined, FetchGone, Lookup, Load, Index, Requeue, WorkerFault,
              ReceiptNotIndexed, ReceiptFails, FetchFails, LookupFails, UpdateFails, SaveLost,
              IndexFails, RequeueFails, Hang
<1>6. UNCHANGED vars => recs' = recs
  BY DEF vars
<1> QED
  BY <1>2, <1>3, <1>4, <1>5, <1>6 DEF Next, BrokerStep

\* Whoever has a hash in hand has it from an announcement.
LEMMA BusyAnnounced ==
  ASSUME IInv, OnePollerPerAnnouncement, NEW c \in Clients, NEW w \in Workers,
         worker[c][w].phase # "idle"
  PROVE  worker[c][w].hash \in Hashes /\ announced[c][worker[c][w].hash] # <<>>
<1> DEFINE h == worker[c][w].hash
           K == Cardinality(Busy(worker[c], h))
<1>1. TypeOK /\ h \in Hashes
  BY BusySlot
<1>2. w \in Busy(worker[c], h) /\ IsFiniteSet(Busy(worker[c], h))
  BY BusyType DEF Busy, Working
<1>3. K \in Nat /\ K # 0
  BY <1>2, BusyType, FS_EmptySet
<1>4. /\ Occurrences(wire[c], h) \in Nat /\ Occurrences(queue[c], h) \in Nat
      /\ Carrying(broker[c], h) \in {0, 1} /\ One(held[c], h) \in {0, 1}
      /\ Len(announced[c][h]) \in Nat
  BY <1>1, PlacesType
<1>5. /\ Tokens(c, h) = Occurrences(wire[c], h) + Carrying(broker[c], h)
                          + Occurrences(queue[c], h) + One(held[c], h) + K
      /\ Tokens(c, h) <= Len(announced[c][h])
  BY <1>1, TokensCount DEF OnePollerPerAnnouncement
<1> HIDE DEF K
<1>6. Len(announced[c][h]) # 0
  BY <1>3, <1>4, <1>5
<1> QED
  BY <1>1, <1>6

\* Once a hash is announced, its node has it in the pool or where it has had it
\* since; a goroutine has seen what it is about to record.
PastInv ==
  \A c \in Clients, h \in Hashes :
    announced[c][h] # <<>> => node[c][h] \in {"pool"} \cup past[c][h]
Informed(c, s) ==
  /\ s.phase = "fetch" => WasSo(c, s.hash, "mined")
  /\ s.phase \in {"load", "save"} => WasSo(c, s.hash, s.verdict)
InformedInv == \A c \in Clients, w \in Workers : Informed(c, worker[c][w])
TruthInv == PastInv /\ InformedInv /\ FinalWasTrue

LEMMA TruthInit == Init => TruthInv
BY DEF Init, TruthInv, PastInv, InformedInv, Informed, FinalWasTrue, WasSo, Idle, NoRecord

\* All that touches the node's view of a transaction.
LEMMA NodeMoves ==
  ASSUME [Next]_vars
  PROVE  \/ UNCHANGED <<node, past, announced>>
         \/ \E c \in Clients, h \in Hashes : Announce(c, h)
         \/ \E c \in Clients, h \in Hashes, s \in NodeStates : Move(c, h, s)
<1>1. ASSUME NEW c \in Clients,
             \/ BrokerStep(c) \/ BrokerFault(c) \/ Pop(c) \/ PopLost(c) \/ SendGarbage(c)
      PROVE  UNCHANGED <<node, past, announced>>
  BY <1>1 DEF BrokerStep, BrokerFault, Listen, Receive, List, Store, Push, StreamEnds,
              ListFails, StoreFails, PushFails, Pop, PopLost, SendGarbage, nodeVars
<1>2. ASSUME NEW c \in Clients, NEW w \in Workers,
             Spawn(c, w) \/ WorkerStep(c, w) \/ WorkerFault(c, w)
      PROVE  UNCHANGED <<node, past, announced>>
  BY <1>2 DEF Spawn, WorkerStep, WorkerFault, AskReceipt, FetchMined, FetchGone, Lookup, Load,
              Save, Index, Requeue, ReceiptNotIndexed, ReceiptFails, FetchFails, LookupFails,
              UpdateFails, SaveLost, IndexFails, RequeueFails, Hang, nodeVars
<1>3. ASSUME NEW c \in Clients, NEW h \in Hashes, Mine(c, h) \/ Evict(c, h) \/ Reorg(c, h)
      PROVE  \E s \in NodeStates : Move(c, h, s)
  BY <1>3 DEF Mine, Evict, Reorg, NodeStates
<1>4. UNCHANGED vars => UNCHANGED <<node, past, announced>>
  BY DEF vars
<1> QED
  BY <1>1, <1>2, <1>3, <1>4 DEF Next, Environment

LEMMA PastStep ==
  ASSUME TypeOK, PastInv, [Next]_vars
  PROVE  /\ PastInv'
         /\ \A d \in Clients, g \in Hashes : past[d][g] \subseteq past'[d][g]
<1> SUFFICES ASSUME NEW d \in Clients, NEW g \in Hashes
             PROVE  /\ announced'[d][g] # <<>> => node'[d][g] \in {"pool"} \cup past'[d][g]
                    /\ past[d][g] \subseteq past'[d][g]
  BY DEF PastInv
<1>1. /\ node \in [Clients -> [Hashes -> NodeStates]]
      /\ past \in [Clients -> [Hashes -> SUBSET NodeStates]]
      /\ announced \in [Clients -> [Hashes -> Seq(Nat)]]
      /\ announced[d][g] # <<>> => node[d][g] \in {"pool"} \cup past[d][g]
  BY DEF TypeOK, PastInv
<1>2. ASSUME NEW c \in Clients, NEW h \in Hashes, Announce(c, h)
      PROVE  /\ announced'[d][g] # <<>> => node'[d][g] \in {"pool"} \cup past'[d][g]
             /\ past[d][g] \subseteq past'[d][g]
  <2>1. past' = past /\ node' = [node EXCEPT ![c][h] = "pool"]
    BY <1>2 DEF Announce
  <2>2. PICK t \in now .. MaxTime : announced' = [announced EXCEPT ![c][h] = Append(@, t)]
    BY <1>2 DEF Announce
  <2>3. CASE d = c /\ g = h
    BY <1>1, <2>1, <2>3
  <2>4. CASE ~(d = c /\ g = h)
    BY <1>1, <2>1, <2>2, <2>4
  <2> QED  BY <2>3, <2>4
<1>3. ASSUME NEW c \in Clients, NEW h \in Hashes, NEW s \in NodeStates, Move(c, h, s)
      PROVE  /\ announced'[d][g] # <<>> => node'[d][g] \in {"pool"} \cup past'[d][g]
             /\ past[d][g] \subseteq past'[d][g]
  <2>1. /\ announced' = announced /\ node' = [node EXCEPT ![c][h] = s]
        /\ past' = [past EXCEPT ![c][h] =
                      IF announced[c][h] = <<>> THEN past[c][h] ELSE past[c][h] \cup {s}]
    BY <1>3 DEF Move
  <2>2. CASE d = c /\ g = h
    BY <1>1, <2>1, <2>2
  <2>3. CASE ~(d = c /\ g = h)
    BY <1>1, <2>1, <2>3
  <2> QED  BY <2>2, <2>3
<1> QED
  BY <1>1, <1>2, <1>3, NodeMoves

\* What a goroutine decides on it has just seen at the node.
LEMMA InformedWorker ==
  ASSUME IInv, OnePollerPerAnnouncement, TruthInv, NEW c \in Clients, NEW w \in Workers,
         WorkerStep(c, w) \/ WorkerFault(c, w)
  PROVE  Informed(c, worker'[c][w])
<1> DEFINE old == worker[c][w]
           h == old.hash
<1>1. PICK s : Moves(c, w, s)
  BY WorkerMoves
<1>2. /\ TypeOK /\ old \in Slot /\ h \in Hashes /\ old.phase # "idle"
      /\ announced[c][h] # <<>>
  BY <1>1, BusySlot, BusyAnnounced DEF Moves
<1>3. node[c][h] \in NodeStates /\ node[c][h] \in {"pool"} \cup past[c][h]
  BY <1>2 DEF TypeOK, TruthInv, PastInv
<1>4. Informed(c, old)
  BY DEF TruthInv, InformedInv
<1>5. \A p \in Phases \ {"fetch", "load", "save"} : Goto(c, w, p) => Informed(c, worker'[c][w])
  BY <1>2 DEF Goto, Become, TypeOK, Slot, Informed
<1>6. Finish(c, w) => Informed(c, worker'[c][w])
  BY <1>2 DEF Finish, Become, TypeOK, Idle, Informed
<1>7. AfterUpdate(c, w) => Informed(c, worker'[c][w])
  BY <1>5, <1>6 DEF AfterUpdate, Phases
<1>8. ASSUME AskReceipt(c, w)  PROVE Informed(c, worker'[c][w])
  <2>1. CASE node[c][h] = "mined"
    <3>1. worker' = [worker EXCEPT ![c][w] = [old EXCEPT !.phase = "fetch"]]
      BY <1>8, <2>1 DEF AskReceipt, Goto, Become
    <3>2. worker'[c][w].phase = "fetch" /\ worker'[c][w].hash = h
      BY <1>2, <3>1 DEF TypeOK, Slot
    <3>3. "mined" \in past[c][h]
      BY <1>3, <2>1
    <3> QED  BY <3>2, <3>3 DEF Informed, WasSo
  <2>2. CASE node[c][h] # "mined"
    BY <1>5, <1>8, <2>2 DEF AskReceipt, Phases, RpcPhases
  <2> QED  BY <2>1, <2>2
<1>9. \A v : Decide(c, w, v) /\ WasSo(c, h, v) => Informed(c, worker'[c][w])
  BY <1>2 DEF Decide, Become, TypeOK, Slot, Informed
<1>10. FetchMined(c, w) => Informed(c, worker'[c][w])
  BY <1>4, <1>9 DEF FetchMined, At, Informed
<1>11. ASSUME Lookup(c, w)  PROVE Informed(c, worker'[c][w])
  <2>1. PICK v \in LookupVerdicts(c, h) : Decide(c, w, v)
    BY <1>11 DEF Lookup
  <2>2. WasSo(c, h, v)
    BY <1>3 DEF LookupVerdicts, NodeStates, WasSo
  <2> QED  BY <1>9, <2>1, <2>2
<1>12. ASSUME Load(c, w)  PROVE Informed(c, worker'[c][w])
  <2> DEFINE new == [old EXCEPT !.phase = "save", !.buf = Updated(recs[c][h], old.verdict)]
  <2>1. new.phase = "save" /\ new.hash = h /\ new.verdict = old.verdict
    BY <1>2 DEF Slot
  <2> HIDE DEF new
  <2>2. CASE Become(c, w, new)
    <3>1. worker'[c][w] = new
      BY <1>2, <2>2 DEF Become, TypeOK
    <3>2. WasSo(c, h, old.verdict)
      BY <1>4, <1>12 DEF Load, At, Informed
    <3> QED  BY <2>1, <3>1, <3>2 DEF Informed
  <2> QED  BY <1>7, <1>12, <2>2 DEF Load, new
<1>13. Save(c, w) \/ Index(c, w) \/ Requeue(c, w) \/ FetchGone(c, w)
       => Informed(c, worker'[c][w])
  BY <1>5, <1>6, <1>7 DEF Save, Index, Requeue, FetchGone, Phases
<1>14. ReceiptNotIndexed(c, w) \/ ReceiptFails(c, w) \/ FetchFails(c, w) \/ LookupFails(c, w)
       => Informed(c, worker'[c][w])
  BY <1>5, <1>6 DEF ReceiptNotIndexed, ReceiptFails, FetchFails, LookupFails, Phases, RpcPhases
<1>15. UpdateFails(c, w) \/ SaveLost(c, w) \/ IndexFails(c, w) \/ RequeueFails(c, w) \/ Hang(c, w)
       => Informed(c, worker'[c][w])
  BY <1>5, <1>6, <1>7 DEF UpdateFails, SaveLost, IndexFails, RequeueFails, Hang, Phases
<1> QED
  BY <1>8, <1>10, <1>11, <1>12, <1>13, <1>14, <1>15 DEF WorkerStep, WorkerFault

\* Which goroutine a step moves: none, one, or a new one.
LEMMA SlotMoves ==
  ASSUME IInv, [Next]_vars, NEW d \in Clients, NEW v \in Workers
  PROVE  \/ worker'[d][v] = worker[d][v]
         \/ worker'[d][v].phase = "receipt"
         \/ WorkerStep(d, v) \/ WorkerFault(d, v)
<1>1. TypeOK
  BY DEF IInv
<1>2. ASSUME worker' = worker  PROVE worker'[d][v] = worker[d][v]
  BY <1>2
<1>3. ASSUME NEW c \in Clients, NEW w \in Workers, Spawn(c, w)
      PROVE  worker'[d][v] = worker[d][v] \/ worker'[d][v].phase = "receipt"
  <2> DEFINE s == [Idle EXCEPT !.phase = "receipt", !.hash = held[c]]
  <2>1. worker' = [worker EXCEPT ![c][w] = s] /\ s.phase = "receipt"
    BY <1>3 DEF Spawn, Become, Idle
  <2> HIDE DEF s
  <2> QED  BY <1>1, <2>1 DEF TypeOK
<1>4. ASSUME NEW c \in Clients, NEW w \in Workers, WorkerStep(c, w) \/ WorkerFault(c, w)
      PROVE  worker'[d][v] = worker[d][v] \/ WorkerStep(d, v) \/ WorkerFault(d, v)
  <2>1. PICK s : Moves(c, w, s)
    BY <1>4, WorkerMoves
  <2>2. worker' = [worker EXCEPT ![c][w] = s]
    BY <2>1 DEF Moves, Become
  <2>3. d # c \/ v # w => worker'[d][v] = worker[d][v]
    BY <1>1, <2>2 DEF TypeOK
  <2> QED  BY <1>4, <2>3
<1>5. ASSUME NEW c \in Clients, \/ Environment(c) \/ BrokerStep(c) \/ BrokerFault(c)
                                \/ Pop(c) \/ PopLost(c)
      PROVE  worker' = worker
  BY <1>5 DEF Environment, Announce, Mine, Evict, Reorg, Move, SendGarbage, BrokerStep, Listen, Receive,
              List, Store, Push, BrokerFault, StreamEnds, ListFails, StoreFails, PushFails,
              Pop, PopLost
<1>6. UNCHANGED vars => worker' = worker
  BY DEF vars
<1> QED
  BY <1>2, <1>3, <1>4, <1>5, <1>6 DEF Next

LEMMA TruthStep ==
  ASSUME IInv, OnePollerPerAnnouncement, TruthInv, [Next]_vars
  PROVE  TruthInv'
<1>1. TypeOK /\ PastInv
  BY DEF IInv, TruthInv
<1>2. PastInv' /\ \A d \in Clients, g \in Hashes : past[d][g] \subseteq past'[d][g]
  BY <1>1, PastStep
<1>3. ASSUME NEW d \in Clients, NEW g \in Hashes, NEW st, WasSo(d, g, st)
      PROVE  "mined" \in past'[d][g] \/ st # "mined"
  BY <1>2, <1>3 DEF WasSo
<1>4. ASSUME NEW d \in Clients, NEW g \in Hashes, NEW st, WasSo(d, g, st)
      PROVE  "absent" \in past'[d][g] \/ st # "dropped"
  BY <1>2, <1>4 DEF WasSo
<1>5. ASSUME NEW d \in Clients, NEW v \in Workers
      PROVE  Informed(d, worker[d][v])'
  <2>1. PICK s \in Slot : s = worker'[d][v]
    <3>1. TypeOK'
      BY IInvStep DEF IInv
    <3> QED  BY <3>1 DEF TypeOK
  <2>2. s.phase # "idle" => s.hash \in Hashes
    <3>1. SlotInv(d, worker[d][v])'
      BY IInvStep DEF IInv, WorkerInv
    <3> QED  BY <2>1, <3>1 DEF SlotInv
  <2>3. Informed(d, s) \/ s.phase = "receipt"
    <3>1. worker'[d][v] = worker[d][v] => Informed(d, s)
      BY <2>1 DEF TruthInv, InformedInv
    <3> QED  BY <2>1, <3>1, SlotMoves, InformedWorker
  <2>4. /\ s.phase = "fetch" => "mined" \in past'[d][s.hash]
        /\ s.phase \in {"load", "save"} =>
             /\ s.verdict = "mined" => "mined" \in past'[d][s.hash]
             /\ s.verdict = "dropped" => "absent" \in past'[d][s.hash]
    BY <1>3, <1>4, <2>2, <2>3 DEF Informed
  <2> QED  BY <2>1, <2>4 DEF Informed, WasSo
<1>6. ASSUME NEW d \in Clients, NEW g \in Hashes
      PROVE  WasSo(d, g, recs[d][g].status)'
  <2>1. PICK st : st = recs'[d][g].status
    OBVIOUS
  <2>2. WasSo(d, g, st)
    <3>1. CASE recs'[d][g] = recs[d][g]
      BY <2>1, <3>1 DEF TruthInv, FinalWasTrue
    <3>2. CASE Store(d) /\ broker[d].hash = g
      BY <1>1, <2>1, <3>2 DEF Store, TypeOK, Received, WasSo
    <3>3. ASSUME NEW w \in Workers, Saves(d, w), worker[d][w].hash = g
          PROVE  WasSo(d, g, st)
      <4>1. /\ worker[d][w].phase = "save"
            /\ recs' = [recs EXCEPT ![d][g] = worker[d][w].buf]
        BY <3>3 DEF Saves, Save, SaveLost, At
      <4>2. SlotInv(d, worker[d][w]) /\ Informed(d, worker[d][w])
        BY DEF IInv, WorkerInv, TruthInv, InformedInv
      <4>3. st = worker[d][w].verdict
        BY <1>1, <2>1, <4>1, <4>2 DEF SlotInv, TypeOK
      <4> QED  BY <3>3, <4>1, <4>2, <4>3 DEF Informed
    <3> QED  BY <3>1, <3>2, <3>3, RecordWriters
  <2>3. /\ st = "mined" => "mined" \in past'[d][g]
        /\ st = "dropped" => "absent" \in past'[d][g]
    BY <1>3, <1>4, <2>2
  <2> QED  BY <2>1, <2>3 DEF WasSo
<1> QED
  BY <1>2, <1>5, <1>6 DEF TruthInv, InformedInv, FinalWasTrue

\* For any number of announcements, goroutines, failing commands and
\* reorganisations, "mined" is recorded only of a transaction that has been in
\* a block since it was announced, and "dropped" only of one that was gone.
THEOREM FinalStatusIsTrue == Spec => []FinalWasTrue
<1>1. TruthInv => FinalWasTrue
  BY DEF TruthInv
<1> QED
  BY <1>1, TruthInit, TruthStep, Inductive, OnePoller, PTL DEF Spec

-----------------------------------------------------------------------------
(* Every step of the pipeline is a step of RecordLifecycle, or none.       *)

StatusSeen == [c \in Clients |-> [h \in Hashes |-> recs[c][h].status]]
BlockSeen  == [c \in Clients |-> [h \in Hashes |-> "mined" \in past[c][h]]]

LEMMA StatusPut ==
  ASSUME TypeOK, NEW c \in Clients, NEW h \in Hashes, NEW rec,
         recs' = [recs EXCEPT ![c][h] = rec]
  PROVE  StatusSeen' = [StatusSeen EXCEPT ![c][h] = rec.status]
BY DEF TypeOK, StatusSeen

LEMMA LifecycleStep ==
  ASSUME IInv, OnePollerPerAnnouncement, LifeInv, TruthInv, [Next]_vars, AnnouncedOnce
  PROVE  Lifecycle!Next \/ UNCHANGED Lifecycle!vars
<1>1. TypeOK
  BY DEF IInv
<1>2. StatusSeen' = StatusSeen /\ BlockSeen' = BlockSeen => UNCHANGED Lifecycle!vars
  BY DEF Lifecycle!vars, StatusSeen, BlockSeen
<1>3. UNCHANGED <<recs, past>> => UNCHANGED Lifecycle!vars
  BY DEF Lifecycle!vars
<1>4. ASSUME NEW c \in Clients, Store(c)  PROVE Lifecycle!Next
  <2>1. PICK h \in Hashes : h = broker[c].hash /\ broker[c].phase = "store"
    BY <1>4 DEF IInv, BrokerInv, Store, BrokerAt
  <2>2. recs[c][h].status = "none"
    BY <2>1 DEF LifeInv, LifeOf, Detected, AnnouncedOnce
  <2>3. StatusSeen' = [StatusSeen EXCEPT ![c][h] = "received"] /\ BlockSeen' = BlockSeen
    <3>1. Received(broker[c].stamp).status = "received"
      BY DEF Received
    <3>2. recs' = [recs EXCEPT ![c][h] = Received(broker[c].stamp)] /\ past' = past
      BY <1>4, <2>1 DEF Store, nodeVars
    <3>3. StatusSeen' = [StatusSeen EXCEPT ![c][h] = Received(broker[c].stamp).status]
      BY <1>1, <3>2, StatusPut
    <3> QED  BY <3>1, <3>2, <3>3 DEF BlockSeen
  <2>4. Lifecycle!Detect(c, h)
    BY <2>2, <2>3 DEF Lifecycle!Detect, Lifecycle!Become, StatusSeen, BlockSeen
  <2> QED  BY <2>4 DEF Lifecycle!Next
<1>5. ASSUME NEW c \in Clients, NEW w \in Workers, Saves(c, w)  PROVE Lifecycle!Next
  <2> DEFINE slot == worker[c][w]
  <2>1. slot \in Slot /\ slot.hash \in Hashes /\ SlotInv(c, slot) /\ slot.phase = "save"
    BY <1>5, BusySlot DEF Saves, Save, SaveLost, At
  <2>2. PICK h \in Hashes, s \in {"pending", "queued", "mined", "dropped"} :
          h = slot.hash /\ s = slot.verdict
    BY <2>1 DEF SlotInv, Slot, Verdicts, Terminal
  <2>3. recs[c][h].status \in Open
    <3>1. WorkerHas(c, w, h)
      BY <2>1, <2>2 DEF WorkerHas
    <3>2. recs[c][h].status \notin Terminal
      BY <2>1, <3>1 DEF LifeInv, LifeOf, Final, AnnouncedOnce, At
    <3>3. recs[c][h].status # "none"
      BY <2>1, <2>2 DEF SlotInv
    <3>4. recs[c][h].status \in {"none"} \cup Open \cup Terminal
      BY <1>1 DEF TypeOK, Record
    <3> QED  BY <3>2, <3>3, <3>4
  <2>4. StatusSeen' = [StatusSeen EXCEPT ![c][h] = s] /\ BlockSeen' = BlockSeen
    <3>1. recs' = [recs EXCEPT ![c][h] = slot.buf] /\ past' = past /\ slot.buf.status = s
      BY <1>5, <2>1, <2>2 DEF Saves, Save, SaveLost, SlotInv, nodeVars
    <3>2. StatusSeen' = [StatusSeen EXCEPT ![c][h] = slot.buf.status]
      BY <1>1, <3>1, StatusPut
    <3> QED  BY <3>1, <3>2 DEF BlockSeen
  <2>5. CASE s = "mined"
    <3>1. "mined" \in past[c][h]
      BY <2>1, <2>2, <2>5 DEF TruthInv, InformedInv, Informed, WasSo
    <3>2. Lifecycle!Confirm(c, h)
      BY <2>3, <2>4, <2>5, <3>1
         DEF Lifecycle!Confirm, Lifecycle!Become, Lifecycle!Open, Open, StatusSeen, BlockSeen
    <3> QED  BY <3>2 DEF Lifecycle!Next
  <2>6. CASE s \in {"pending", "queued", "dropped"}
    <3>1. Lifecycle!Observe(c, h)
      BY <2>3, <2>4, <2>6
         DEF Lifecycle!Observe, Lifecycle!Become, Lifecycle!Open, Open, StatusSeen, BlockSeen
    <3> QED  BY <3>1 DEF Lifecycle!Next
  <2> QED  BY <2>5, <2>6
<1>6. ASSUME NEW c \in Clients, NEW h \in Hashes, NEW s \in NodeStates, Move(c, h, s)
      PROVE  Lifecycle!Next \/ UNCHANGED Lifecycle!vars
  <2>1. /\ recs' = recs /\ past \in [Clients -> [Hashes -> SUBSET NodeStates]]
        /\ past' = [past EXCEPT ![c][h] =
                      IF announced[c][h] = <<>> THEN past[c][h] ELSE past[c][h] \cup {s}]
    BY <1>1, <1>6 DEF Move, TypeOK
  <2>2. CASE s = "mined" /\ announced[c][h] # <<>> /\ "mined" \notin past[c][h]
    <3>1. \A d \in Clients, g \in Hashes :
            ("mined" \in past'[d][g]) = (IF d = c /\ g = h THEN TRUE ELSE "mined" \in past[d][g])
      BY <2>1, <2>2
    <3>2. BlockSeen' = [d \in Clients |-> [g \in Hashes |->
                          IF d = c /\ g = h THEN TRUE ELSE "mined" \in past[d][g]]]
      BY <3>1 DEF BlockSeen
    <3>3. [BlockSeen EXCEPT ![c][h] = TRUE]
            = [d \in Clients |-> [g \in Hashes |->
                 IF d = c /\ g = h THEN TRUE ELSE "mined" \in past[d][g]]]
      BY DEF BlockSeen
    <3>4. ~BlockSeen[c][h] /\ StatusSeen' = StatusSeen
      BY <2>1, <2>2 DEF BlockSeen, StatusSeen
    <3>5. Lifecycle!Include(c, h)
      BY <3>2, <3>3, <3>4, Zenon DEF Lifecycle!Include, StatusSeen, BlockSeen
    <3> QED  BY <3>5 DEF Lifecycle!Next
  <2>3. CASE ~(s = "mined" /\ announced[c][h] # <<>> /\ "mined" \notin past[c][h])
    <3>1. \A d \in Clients, g \in Hashes :
            ("mined" \in past'[d][g]) = ("mined" \in past[d][g])
      BY <2>1, <2>3
    <3>2. BlockSeen' = BlockSeen
      BY <3>1, Zenon DEF BlockSeen
    <3> QED  BY <1>2, <2>1, <3>2 DEF StatusSeen
  <2> QED  BY <2>2, <2>3
<1>7. ASSUME NEW c \in Clients, NEW h \in Hashes, Announce(c, h)
      PROVE  UNCHANGED <<recs, past>>
  BY <1>7 DEF Announce
<1>8. ASSUME NEW c \in Clients,
             \/ SendGarbage(c) \/ Listen(c) \/ Receive(c) \/ List(c) \/ Push(c)
             \/ BrokerFault(c) \/ Pop(c) \/ PopLost(c)
      PROVE  UNCHANGED <<recs, past>>
  BY <1>8 DEF SendGarbage, Listen, Receive, List, Push, BrokerFault, StreamEnds, ListFails,
              StoreFails, PushFails, Pop, PopLost, nodeVars
<1>9. ASSUME NEW c \in Clients, NEW w \in Workers,
             Spawn(c, w) \/ WorkerStep(c, w) \/ WorkerFault(c, w), ~Saves(c, w)
      PROVE  UNCHANGED <<recs, past>>
  BY <1>9 DEF Saves, Spawn, WorkerStep, AskReceipt, FetchMined, FetchGone, Lookup, Load, Index, Requeue, WorkerFault,
              ReceiptNotIndexed, ReceiptFails, FetchFails, LookupFails, UpdateFails,
              IndexFails, RequeueFails, Hang, nodeVars
<1>10. UNCHANGED vars => UNCHANGED <<recs, past>>
  BY DEF vars
<1> QED
  BY <1>3, <1>4, <1>5, <1>6, <1>7, <1>8, <1>9, <1>10
     DEF Next, Environment, BrokerStep, Mine, Evict, Reorg, NodeStates

LEMMA OnceBefore ==
  ASSUME IInv, [Next]_vars, AnnouncedOnce'
  PROVE  AnnouncedOnce
<1> SUFFICES ASSUME NEW c \in Clients, NEW h \in Hashes  PROVE Len(announced[c][h]) <= 1
  BY DEF AnnouncedOnce
<1>1. TypeOK /\ TypeOK'
  BY IInvStep DEF IInv
<1>2. /\ Len(announced[c][h]) \in Nat
      /\ Len(announced[c][h]) <= Len(announced'[c][h])
      /\ Len(announced'[c][h]) <= 1
  BY <1>1, AnnouncedGrows, PlacesType DEF AnnouncedOnce
<1>3. Len(announced'[c][h]) \in Nat
  <2>1. announced'[c][h] \in Seq(Nat)
    BY <1>1 DEF TypeOK
  <2> QED  BY <2>1
<1> QED
  BY <1>2, <1>3

\* Until a client announces a hash twice, a record goes through the life
\* cycle of RecordLifecycle: it appears once, "mined" is true, and "mined"
\* and "dropped" are final, for any number of goroutines and faults.
THEOREM LifecycleImplemented == Spec => ImplementsLifecycle
<1>1. Init => Lifecycle!Init
  <2> SUFFICES ASSUME Init  PROVE Lifecycle!Init
    OBVIOUS
  <2>1. StatusSeen = [c \in Clients |-> [h \in Hashes |-> "none"]]
    BY DEF Init, NoRecord, StatusSeen
  <2>2. \A c \in Clients, h \in Hashes : ("mined" \in past[c][h]) = FALSE
    BY DEF Init
  <2>3. BlockSeen = [c \in Clients |-> [h \in Hashes |-> FALSE]]
    BY <2>2 DEF BlockSeen
  <2> QED  BY <2>1, <2>3, Zenon DEF Lifecycle!Init, StatusSeen, BlockSeen
<1>2. Init => LifeInv /\ TruthInv
  BY LifeInit, TruthInit
<1>3. IInv /\ OnePollerPerAnnouncement /\ LifeInv /\ TruthInv /\ [Next]_vars
      => LifeInv' /\ TruthInv'
  BY LifeStep, TruthStep
<1>4. IInv /\ OnePollerPerAnnouncement /\ LifeInv /\ TruthInv /\ [Next]_vars
      => [AnnouncedOnce' => Lifecycle!Next]_(Lifecycle!vars)
  BY OnceBefore, LifecycleStep
<1> QED
  BY <1>1, <1>2, <1>3, <1>4, Inductive, OnePoller, PTL DEF Spec, ImplementsLifecycle

-----------------------------------------------------------------------------
(* Final records.                                                          *)

\* What a hash announced once excludes: to store a record while there is one
\* or while a goroutine saves it, and a second goroutine that saves it.
LEMMA WritersAlone ==
  ASSUME IInv, OnePollerPerAnnouncement, LifeInv, NEW d \in Clients, NEW g \in Hashes,
         Len(announced[d][g]) <= 1
  PROVE  /\ Store(d) /\ broker[d].hash = g =>
              /\ recs[d][g].status = "none"
              /\ \A v \in Workers : ~WorkerHas(d, v, g)
         /\ \A w \in Workers : Saves(d, w) /\ worker[d][w].hash = g =>
              \A v \in Workers : WorkerHas(d, v, g) => v = w
<1>1. TypeOK /\ TokensBound(d, g) /\ LifeOf(d, g)
  BY DEF IInv, OnePollerPerAnnouncement, TokensBound, LifeInv
<1>2. ASSUME Store(d), broker[d].hash = g
      PROVE  recs[d][g].status = "none" /\ \A v \in Workers : ~WorkerHas(d, v, g)
  <2>1. broker[d].phase = "store" /\ BrokerHas(d, g)
    BY <1>2 DEF Store, BrokerAt, BrokerHas
  <2>2. recs[d][g].status = "none"
    BY <1>1, <1>2, <2>1 DEF LifeOf, Detected
  <2>3. \A v \in Workers : ~WorkerHas(d, v, g)
    BY <1>1, <2>1, WorkerAlone
  <2> QED  BY <2>2, <2>3
<1>3. ASSUME NEW w \in Workers, Saves(d, w), worker[d][w].hash = g
      PROVE  \A v \in Workers : WorkerHas(d, v, g) => v = w
  <2>1. WorkerHas(d, w, g)
    BY <1>3 DEF Saves, Save, SaveLost, At, WorkerHas
  <2> QED  BY <1>1, <2>1, WorkerAlone
<1> QED
  BY <1>2, <1>3

\* Neither StoreTransaction nor updateStoredTx writes over a final record,
\* except where the client has announced the hash again.
THEOREM FinalRecordsStay == Spec => FinalUnlessReannounced
<1>1. Init => LifeInv
  BY LifeInit
<1>2. IInv /\ OnePollerPerAnnouncement /\ LifeInv /\ [Next]_vars => LifeInv'
  BY LifeStep
<1>3. IInv /\ OnePollerPerAnnouncement /\ LifeInv /\ [Next]_vars
      => [\A c \in Clients, h \in Hashes :
            recs[c][h].status \in Terminal /\ recs'[c][h] # recs[c][h]
            => Len(announced[c][h]) >= 2]_vars
  <2> SUFFICES ASSUME IInv, OnePollerPerAnnouncement, LifeInv, [Next]_vars,
                      NEW c \in Clients, NEW h \in Hashes,
                      recs[c][h].status \in Terminal, recs'[c][h] # recs[c][h],
                      ~(Len(announced[c][h]) >= 2)
               PROVE  FALSE
    OBVIOUS
  <2>1. Len(announced[c][h]) <= 1
    <3>1. Len(announced[c][h]) \in Nat
      BY PlacesType DEF IInv
    <3> QED  BY <3>1
  <2>2. ~(Store(c) /\ broker[c].hash = h)
    <3>1. recs[c][h].status # "none"
      BY DEF Terminal
    <3> QED  BY <2>1, <3>1, WritersAlone
  <2>3. ASSUME NEW w \in Workers, Saves(c, w), worker[c][w].hash = h
        PROVE  FALSE
    <3>1. WorkerHas(c, w, h) /\ At(c, w, "save")
      BY <2>3 DEF Saves, Save, SaveLost, At, WorkerHas
    <3>2. WorkerHas(c, w, h) => At(c, w, "index")
      BY <2>1 DEF LifeInv, LifeOf, Final
    <3> QED  BY <3>1, <3>2 DEF At
  <2> QED  BY <2>2, <2>3, RecordWriters
<1> QED
  BY <1>1, <1>2, <1>3, Inductive, OnePoller, PTL DEF Spec, FinalUnlessReannounced

=============================================================================
