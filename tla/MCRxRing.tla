------------------------------ MODULE MCRxRing ------------------------------
(***************************************************************************)
(* RxRing on a small ring.  Cap = 3 is the smallest capacity at which the  *)
(* ring can be empty, partly full and full, and wraps at every position.   *)
(* Two entries that differ in both halves show any mixture of two pushes.  *)
(***************************************************************************)
EXTENDS RxRing

TwoEntries == {[byte |-> v, ts |-> v] : v \in {0, 1}}
=============================================================================
