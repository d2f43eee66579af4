------------------------- MODULE MC_CommitterServer -------------------------
(* Model-checking instance of CommitterServer: this node and one peer,    *)
(* two randomness tasks, two DKG epochs, threshold 2.                      *)
EXTENDS CommitterServer

MC_Nodes == {"n1", "n2"}
MC_Requests == {"r1", "r2"}
=============================================================================
