---------------------------- MODULE MCScheduler -----------------------------
(* Values for the constants of Scheduler that a .cfg cannot write down.      *)
EXTENDS Scheduler

CONSTANTS j1, j2, j3

\* Every job fits the card alone; j1 and j2 together fill it, j3 needs it all.
MCNeed == [j \in Jobs |-> IF j = j3 THEN 3 ELSE IF j = j2 THEN 2 ELSE 1]
=============================================================================
