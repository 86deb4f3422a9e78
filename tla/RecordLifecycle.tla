-------------------------- MODULE RecordLifecycle --------------------------
(***************************************************************************)
(* What the tool promises about the record of one transaction at one       *)
(* client, with the queue, the goroutines and the Redis commands left out: *)
(* the statuses of model.TransactionStatus as a state machine.  A record   *)
(* appears as "received"; while it is open, any observation of the mempool *)
(* may replace its status; "mined" is recorded only of a transaction that  *)
(* has been in a block; "mined" and "dropped" are final.                   *)
(***************************************************************************)
CONSTANTS Clients, Hashes

VARIABLES
  status,   \* the recorded status, "none" before the transaction is detected
  inBlock   \* whether the client's node has had the transaction in a block

vars == <<status, inBlock>>

Open == {"received", "pending", "queued"}

Init ==
  /\ status = [c \in Clients |-> [h \in Hashes |-> "none"]]
  /\ inBlock = [c \in Clients |-> [h \in Hashes |-> FALSE]]

Become(c, h, s) == status' = [status EXCEPT ![c][h] = s]

Detect(c, h) ==
  /\ status[c][h] = "none"
  /\ Become(c, h, "received")
  /\ UNCHANGED inBlock

Observe(c, h) ==
  /\ status[c][h] \in Open
  /\ \E s \in {"pending", "queued", "dropped"} : Become(c, h, s)
  /\ UNCHANGED inBlock

Confirm(c, h) ==
  /\ status[c][h] \in Open
  /\ inBlock[c][h]
  /\ Become(c, h, "mined")
  /\ UNCHANGED inBlock

Include(c, h) ==
  /\ ~inBlock[c][h]
  /\ inBlock' = [inBlock EXCEPT ![c][h] = TRUE]
  /\ UNCHANGED status

Next == \E c \in Clients, h \in Hashes :
          Detect(c, h) \/ Observe(c, h) \/ Confirm(c, h) \/ Include(c, h)

Spec == Init /\ [][Next]_vars
=============================================================================
