------------------------- MODULE MCTransactionSync -------------------------
(***************************************************************************)
(* TransactionSync on small instances.  A tick is an hour: the minimum     *)
(* window is one tick, a day is two.  The overlap is none, which lets the  *)
(* model show a gap of a single tick.                                      *)
(***************************************************************************)
EXTENDS TransactionSync, TLC

CONSTANTS e1, e2, e3, r1, r2, r3

OneEntity == [t \in Txns |-> e1]
MCRequests == {<<"BACKFILL", <<e1>>>>, <<"INCREMENTAL", <<e1>>>>,
               <<"BACKFILL", <<e2, e3>>>>}
Incremental == {<<"INCREMENTAL", <<e1>>>>}
FirstUnreadable == {<<1, 1>>}
RunSymmetry == Permutations(Runs)
=============================================================================
