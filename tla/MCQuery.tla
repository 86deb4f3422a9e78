------------------------------ MODULE MCQuery ------------------------------
(* Query for TLC: two clients, the first of which is the primary one.      *)
EXTENDS Query

CONSTANTS c1, c2
MCClients   == {c1, c2}
MCEndpoints == <<c1, c2>>

=============================================================================
