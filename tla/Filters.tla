------------------------------ MODULE Filters ------------------------------
(***************************************************************************)
(* What one client's storage offers to look transactions up: the indexes   *)
(* that addToIndexes keeps, FilterTransactions and GroupTransactions       *)
(* (internal/storage/redis_storage.go, internal/model/filters.go).         *)
(*                                                                         *)
(* The records change as in RecordStore: a record gets its details, and    *)
(* can lose them again to a goroutine that writes back an older copy, or   *)
(* to a second announcement.  A hash determines the details.               *)
(***************************************************************************)
EXTENDS Integers

CONSTANTS
  Hashes,
  NoHash,
  Workers,    \* goroutines inside updateStoredTx
  Prices,     \* gas prices
  Nonces,
  Addresses,
  NoAddress,  \* the empty string: the To of a contract creation
  Types,      \* transaction types
  NoScore,    \* a hash that is no member of an index
  Half,       \* half the range of an int64, 2^63
  Exact,      \* the integers up to it have a float64, 2^53
  MaxSaves    \* bound: updates of records

ASSUME ConstantsAssumption ==
  /\ Prices \subseteq Nat /\ Nonces \subseteq Nat /\ Types \subseteq Nat
  /\ NoHash \notin Hashes /\ NoAddress \notin Addresses
  /\ NoScore \notin Int
  /\ Half \in Nat /\ Exact \in Nat /\ Exact < Half
  /\ MaxSaves \in Nat

VARIABLES
  tx,       \* the details of each transaction
  recs,     \* txpool:<client>:meta: no record, one without or one with details
  worker,   \* updates that are saved and not yet indexed
  index,    \* txpool:<client>:index:gas, :nonce and :type
  failed,   \* history: the indexes whose last command for a hash has failed
  crossed,  \* history: an update with details has run beside one without
  saves     \* number of updates so far

vars == <<tx, recs, worker, index, failed, crossed, saves>>

Unknown == -1  \* a gas price that is nil, a bound that is not given

Details == [gas : Prices, nonce : Nonces, from : Addresses,
            to : Addresses \cup {NoAddress}, type : Types]

\* The zero value of model.Tx.
Bare == [gas |-> Unknown, nonce |-> 0, from |-> NoAddress, to |-> NoAddress, type |-> 0]

Content(h, full) == IF full THEN tx[h] ELSE Bare
Stored(h) == Content(h, recs[h] = "full")
Listed == {h \in Hashes : recs[h] # "none"}

\* big.Int.Int64 keeps the low 64 bits.
Int64(p) == ((p + Half) % (2 * Half)) - Half

\* The nearest float64: above Exact only every other integer has one.
Float(n) == IF n \in (0 - Exact) .. Exact THEN n ELSE n - (n % 2)

Indexes == {"gas", "nonce", "type"}
\* The commands of the pipeline that are left are executed in this order.
First(todo) == IF "gas" \in todo THEN "gas" ELSE IF "nonce" \in todo THEN "nonce" ELSE "type"

Update == [hash : Hashes \cup {NoHash}, full : BOOLEAN, todo : SUBSET Indexes]
Idle == [hash |-> NoHash, full |-> FALSE, todo |-> {}]
Busy(w, h) == worker[w].hash = h  \* with NoHash: not busy

Init ==
  /\ tx \in [Hashes -> Details]
  /\ recs = [h \in Hashes |-> "none"]
  /\ worker = [w \in Workers |-> Idle]
  /\ index = [h \in Hashes |-> [k \in Indexes |-> NoScore]]
  /\ failed = [h \in Hashes |-> {}]
  /\ crossed = [h \in Hashes |-> FALSE]
  /\ saves = 0

-----------------------------------------------------------------------------
(* The writers                                                             *)

\* StoreTransaction has nothing to index.
StoreTransaction(h) ==
  /\ recs' = [recs EXCEPT ![h] = "bare"]
  /\ UNCHANGED <<tx, worker, index, failed, crossed, saves>>

\* Faulty variant: the price that a bare record does not have is indexed too.
AllCommands(full) == Indexes

\* There is no ZADD for a gas price that is nil.
Commands(full) == IF full THEN Indexes ELSE Indexes \ {"gas"}

\* The HSET of updateStoredTx, of a record that was read with the details or
\* without.
Save(w, h, full) ==
  /\ Busy(w, NoHash)
  /\ recs[h] # "none"
  /\ saves < MaxSaves
  /\ saves' = saves + 1
  /\ recs' = [recs EXCEPT ![h] = IF full THEN "full" ELSE "bare"]
  /\ worker' = [worker EXCEPT ![w] = [hash |-> h, full |-> full, todo |-> Commands(full)]]
  /\ crossed' = [crossed EXCEPT ![h] =
       \E u \in Workers : Busy(u, h) /\ (@ \/ worker[u].full # full)]
  /\ UNCHANGED <<tx, index, failed>>

\* What the pipeline gives the members of the indexes.
Scores(d) == [gas |-> Float(Int64(d.gas)), nonce |-> Float(d.nonce), type |-> d.type]

\* addToIndexes has gone on to the next command, or has none left.
Advance(w, k) ==
  worker' = [worker EXCEPT ![w] =
    IF @.todo = {k} THEN Idle ELSE [hash |-> @.hash, full |-> @.full, todo |-> @.todo \ {k}]]

\* Faulty variant: ZADD NX, that leaves a member its first score.
ZAddNew(w) ==
  /\ ~Busy(w, NoHash)
  /\ LET h == worker[w].hash
         k == First(worker[w].todo) IN
       /\ index' = [index EXCEPT ![h][k] =
            IF @ = NoScore THEN Scores(Content(h, worker[w].full))[k] ELSE @]
       /\ failed' = [failed EXCEPT ![h] = @ \ {k}]
       /\ Advance(w, k)
  /\ UNCHANGED <<tx, recs, crossed, saves>>

\* One command of the pipeline, which is no transaction: commands of other
\* clients may come between two of them.
ZAdd(w) ==
  /\ ~Busy(w, NoHash)
  /\ LET h == worker[w].hash
         k == First(worker[w].todo) IN
       /\ index' = [index EXCEPT ![h][k] = Scores(Content(h, worker[w].full))[k]]
       /\ failed' = [failed EXCEPT ![h] = @ \ {k}]
       /\ Advance(w, k)
  /\ UNCHANGED <<tx, recs, crossed, saves>>

\* The pipeline fails, with some of its commands executed.  It is logged.
IndexFails(w) ==
  /\ ~Busy(w, NoHash)
  /\ failed' = [failed EXCEPT ![worker[w].hash] = @ \cup worker[w].todo]
  /\ worker' = [worker EXCEPT ![w] = Idle]
  /\ UNCHANGED <<tx, recs, index, crossed, saves>>

Next ==
  \/ \E h \in Hashes : StoreTransaction(h)
  \/ \E w \in Workers :
       \/ \E h \in Hashes, full \in BOOLEAN : Save(w, h, full)
       \/ ZAdd(w) \/ IndexFails(w)

Spec == Init /\ [][Next]_vars

-----------------------------------------------------------------------------
(* The readers: one HGETALL, and then no more Redis                        *)

\* FilterCriteria.  A pattern is the set of addresses it matches, {} if it is
\* no regular expression; a list of them matches what any of them does, so one
\* is enough.  No pattern and no type means that there is no restriction, and
\* criteria that restrict several attributes are conjunctions of these.
Patterns == {{}} \cup {{p} : p \in SUBSET (Addresses \cup {NoAddress})}
Criteria(minGas, maxGas, minNonce, maxNonce, from, to, types) ==
  [minGas |-> minGas, maxGas |-> maxGas, minNonce |-> minNonce, maxNonce |-> maxNonce,
   from |-> from, to |-> to, types |-> types]

OnGas == {Criteria(lo, hi, 0, 0, {}, {}, {}) :
            lo \in Prices \cup {Unknown}, hi \in Prices \cup {Unknown}}
On == [gas |-> OnGas,
       nonce |-> {Criteria(Unknown, Unknown, lo, hi, {}, {}, {}) :
                    lo \in Nonces \cup {0}, hi \in Nonces \cup {0}},
       address |-> {Criteria(Unknown, Unknown, 0, 0, f, t, {}) : f \in Patterns, t \in Patterns},
       type |-> {Criteria(Unknown, Unknown, 0, 0, {}, {}, ts) : ts \in SUBSET Types}]

\* Faulty variant: an unknown gas price counts as too low.
matchesKnown(d, c) ==
  /\ c.minGas # Unknown => d.gas >= c.minGas
  /\ (c.maxGas # Unknown /\ d.gas # Unknown) => d.gas <= c.maxGas
  /\ c.minNonce > 0 => d.nonce >= c.minNonce
  /\ c.maxNonce > 0 => d.nonce <= c.maxNonce
  /\ c.from # {} => \E p \in c.from : d.from \in p
  /\ c.to # {} => \E p \in c.to : d.to \in p
  /\ c.types # {} => d.type \in c.types

\* A bound of 0 on the nonce counts as not given, a gas price that is not
\* known as within any bounds.
matchesFilter(d, c) ==
  /\ (c.minGas # Unknown /\ d.gas # Unknown) => d.gas >= c.minGas
  /\ (c.maxGas # Unknown /\ d.gas # Unknown) => d.gas <= c.maxGas
  /\ c.minNonce > 0 => d.nonce >= c.minNonce
  /\ c.maxNonce > 0 => d.nonce <= c.maxNonce
  /\ c.from # {} => \E p \in c.from : d.from \in p
  /\ c.to # {} => \E p \in c.to : d.to \in p
  /\ c.types # {} => d.type \in c.types

FilterTransactions(c) == {h \in Listed : matchesFilter(Stored(h), c)}

\* GroupingCriteria, as the set of what is grouped by.  The ranges that it
\* also has are not used.
Groupings == SUBSET {"gas", "nonce", "address", "type"}

\* The labels of the parts of a key.
Labels(g) == (g \ {"address"}) \cup (IF "address" \in g THEN {"from", "to"} ELSE {})

Part(d, l) == IF l = "gas" THEN Int64(d.gas) ELSE d[l]

\* Faulty variant: grouping by address looks at the sender only.
PresentSender(d, l) == (l = "gas" => d.gas # Unknown) /\ l # "to"

\* A gas price that is nil and an empty To have no part.
Present(d, l) == (l = "gas" => d.gas # Unknown) /\ (l = "to" => d.to # NoAddress)

\* The parts that are joined to a key, without their order, which is always
\* the same; {} is "default".
getGroupKey(d, g) == {<<l, Part(d, l)>> : l \in {m \in Labels(g) : Present(d, m)}}

GroupTransactions(g) ==
  [k \in {getGroupKey(Stored(h), g) : h \in Listed} |->
    {h \in Listed : getGroupKey(Stored(h), g) = k}]

-----------------------------------------------------------------------------
(* Properties                                                              *)

TypeOK ==
  /\ tx \in [Hashes -> Details]
  /\ recs \in [Hashes -> {"none", "bare", "full"}]
  /\ worker \in [Workers -> Update]
  /\ index \in [Hashes -> [Indexes -> Int \cup {NoScore}]]
  /\ failed \in [Hashes -> SUBSET Indexes]
  /\ crossed \in [Hashes -> BOOLEAN]
  /\ saves \in 0 .. MaxSaves

Quiet(h) == \A w \in Workers : ~Busy(w, h)
Within(p, c) == p >= c.minGas /\ (c.maxGas # Unknown => p <= c.maxGas)
GasRange(c) == {h \in Hashes : index[h].gas # NoScore /\ Within(index[h].gas, c)}

(* For a price that a float64 can hold, a range of the gas index never      *)
(* finds a transaction whose price is outside of it; and when the updates   *)
(* of a record with details have been indexed, it finds the transaction     *)
(* exactly if a filter does: however these updates have crossed with others *)
(* and with those of copies without details, and whatever pipelines have    *)
(* failed before.                                                           *)
GasRangesAgree ==
  \A h \in Hashes, c \in OnGas : tx[h].gas <= Exact =>
    /\ h \in GasRange(c) => Within(tx[h].gas, c)
    /\ (recs[h] = "full" /\ Quiet(h) /\ "gas" \notin failed[h])
       => (h \in GasRange(c) <=> h \in FilterTransactions(c))

(* The other two indexes also get the zero values of a copy without         *)
(* details.  They have the scores of the details of a record once its       *)
(* updates have been indexed, whatever was in them before, unless updates   *)
(* with and without details have crossed and no later one has run by itself.*)
LastUpdateIsIndexed ==
  \A h \in Hashes, k \in {"nonce", "type"} :
    (recs[h] = "full" /\ Quiet(h) /\ ~crossed[h] /\ k \notin failed[h])
    => index[h][k] = Scores(tx[h])[k]

(* The invariant behind them.  An index has a score of the details, or its  *)
(* last command has failed, or somebody is about to bring it: for the gas   *)
(* price of every record with details, for the rest if no update without    *)
(* details has run beside the last one with them.                           *)
Coming(h, k) == \E w \in Workers : Busy(w, h) /\ k \in worker[w].todo
Covered(h, k) == index[h][k] = Scores(tx[h])[k] \/ k \in failed[h] \/ Coming(h, k)

WorkerInv ==
  \A w \in Workers, h \in Hashes : Busy(w, h) =>
    /\ worker[w].todo # {}
    /\ "gas" \in worker[w].todo => worker[w].full
    /\ ~crossed[h] =>
         /\ recs[h] = "full" => worker[w].full
         /\ \A v \in Workers : Busy(v, h) => worker[v].full = worker[w].full

IndexInv ==
  \A h \in Hashes :
    /\ index[h].gas \in {NoScore, Scores(tx[h]).gas}
    /\ recs[h] = "full" =>
         /\ Covered(h, "gas")
         /\ ~crossed[h] => Covered(h, "nonce") /\ Covered(h, "type")

IInv == TypeOK /\ WorkerInv /\ IndexInv

(* A filter on gas prices alone never hides a transaction whose price is    *)
(* within the bounds, not even while its record has no details.             *)
GasFilterHidesNone ==
  \A c \in OnGas : {h \in Listed : Within(tx[h].gas, c)} \subseteq FilterTransactions(c)

Fits(group) == \A h \in group : Stored(h).gas < 2 * Half

(* Groups and filters agree on what tells transactions apart: a filter on   *)
(* an attribute that is grouped by finds all of a group or none of it, as   *)
(* long as the prices fit 64 bits.                                          *)
GroupsRefineFilters ==
  \A a \in DOMAIN On :
    LET found == {FilterTransactions(c) : c \in On[a]} IN
      \A g \in {gr \in Groupings : a \in gr} :
        LET groups == GroupTransactions(g) IN
          \A k \in DOMAIN groups : Fits(groups[k]) =>
            \A f \in found : groups[k] \cap f \in {{}, groups[k]}

=============================================================================
