---------------------------- MODULE RecordStore ----------------------------
(***************************************************************************)
(* What the pipelines of all clients together do to the two kinds of keys  *)
(* that the API reads: the universal set and the records.  TxPipeline      *)
(* implements this module, and Query takes it as its environment, so that  *)
(* Query assumes nothing of the writers that they do not do.               *)
(***************************************************************************)
EXTENDS Integers

CONSTANTS Clients, Hashes

VARIABLES
  universal,  \* txpool:universal, the first detection time of each hash
  recs        \* txpool:<client>:meta, the status and whether there are details

storeVars == <<universal, recs>>

NoTime == -1
Statuses == {"received", "pending", "queued", "mined", "dropped"}

Init ==
  /\ universal = [h \in Hashes |-> NoTime]
  /\ recs = [c \in Clients |-> [h \in Hashes |-> [status |-> "none", tx |-> FALSE]]]

Put(c, h, s, tx) ==
  /\ recs' = [recs EXCEPT ![c][h] = [status |-> s, tx |-> tx]]
  /\ UNCHANGED universal

\* ZADD NX: a hash keeps the time it was listed with first.
List(h, t) ==
  /\ universal[h] = NoTime
  /\ t \in Nat
  /\ universal' = [universal EXCEPT ![h] = t]
  /\ UNCHANGED recs

\* StoreTransaction replaces whatever there is.
Store(c, h) == Put(c, h, "received", FALSE)

\* updateStoredTx needs a record, and never deletes one.  Only "dropped" can
\* leave a record without details, even one that has got them since the
\* goroutine read it.
Update(c, h, s, tx) ==
  /\ recs[c][h].status # "none"
  /\ s # "dropped" => tx
  /\ Put(c, h, s, tx)

Next ==
  \/ \E h \in Hashes : List(h, universal'[h])
  \/ \E c \in Clients, h \in Hashes :
       \/ Store(c, h)
       \/ \E s \in Statuses \ {"received"}, tx \in BOOLEAN : Update(c, h, s, tx)

Spec == Init /\ [][Next]_storeVars
=============================================================================
