------------------------------ MODULE MCNoteBus ------------------------------
(* Two children and one finding: enough for two authors of one cluster.      *)
EXTENDS NoteBus

One == [a \in Agents |-> 1]
=============================================================================
