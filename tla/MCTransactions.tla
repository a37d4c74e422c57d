--------------------------- MODULE MCTransactions ---------------------------
(* Instances of Transactions for TLC: names for the jobs and the requests.  *)
EXTENDS Transactions

CONSTANTS a, b, c, r1, r2
=============================================================================
