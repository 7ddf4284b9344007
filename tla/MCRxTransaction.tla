-------------------------- MODULE MCRxTransaction ---------------------------
(***************************************************************************)
(* RxTransaction at a scale where micros() wraps at 16 and the half of the *)
(* range that signed order can judge is 7, so that one call crosses the    *)
(* wrap and a rest between two calls crosses the half range.               *)
(***************************************************************************)
EXTENDS RxTransaction
=============================================================================
