------------------------------ MODULE MCHandoff -------------------------------
(* Values for the constants of Handoff that a .cfg cannot write down.        *)
EXTENDS Handoff

CONSTANTS w, n, m, p

\* A WSL job and a tenant that exceed the tolerance: 2; two small native jobs: 1.
MCUsed == [S \in SUBSET {w, n, m, p} |-> Cardinality(S) + Cardinality(S \cap {w, p})]
=============================================================================
