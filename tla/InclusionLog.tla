---------------------------- MODULE InclusionLog ----------------------------
(***************************************************************************)
(* What a reader of the FOCIL keys may count on, with streams, scores and  *)
(* goroutines left out: the list of a slot is replaced by a longer one     *)
(* only, which is what updateInclusionScore is there for, and a report is  *)
(* filed of one list that the slot has had and one block that some client  *)
(* has had under the number.  Whether a list is ever replaced is left      *)
(* open: the code as it is never does.                                     *)
(***************************************************************************)
EXTENDS Integers, FiniteSets

CONSTANTS Txs, MaxSlot

VARIABLES
  lists,      \* txpool:inclusion:txns
  reports,    \* txpool:inclusion:report
  published,  \* the lists that a slot has had
  seen        \* the blocks that clients have had under a number

logVars == <<lists, reports, published, seen>>

Slots   == 0 .. MaxSlot
Numbers == 1 .. MaxSlot

Init ==
  /\ lists = [s \in Slots |-> [stored |-> FALSE, txs |-> {}]]
  /\ reports = [n \in Numbers |-> [stored |-> FALSE, included |-> {}, missing |-> {}]]
  /\ published = [s \in Slots |-> {}]
  /\ seen = [n \in Numbers |-> {}]

\* A list comes for a slot that has none, or a shorter one.
Publish(s, txs) ==
  /\ lists[s].stored => Cardinality(txs) > Cardinality(lists[s].txs)
  /\ lists' = [lists EXCEPT ![s] = [stored |-> TRUE, txs |-> txs]]
  /\ published' = [published EXCEPT ![s] = @ \cup {txs}]
  /\ UNCHANGED <<reports, seen>>

See(n, block) ==
  /\ seen' = [seen EXCEPT ![n] = @ \cup {block}]
  /\ UNCHANGED <<lists, reports, published>>

\* A list of slot n - 1 is split by the block.  A later report replaces an
\* earlier one.
File(n, list, block) ==
  /\ list \in published[n - 1]
  /\ block \in seen[n]
  /\ reports' = [reports EXCEPT ![n] =
       [stored |-> TRUE, included |-> list \cap block, missing |-> list \ block]]
  /\ UNCHANGED <<lists, published, seen>>

Next ==
  \/ \E s \in Slots, txs \in SUBSET Txs : Publish(s, txs)
  \/ \E n \in Numbers, block \in SUBSET Txs :
       See(n, block) \/ \E list \in SUBSET Txs : File(n, list, block)

Spec == Init /\ [][Next]_logVars
=============================================================================
