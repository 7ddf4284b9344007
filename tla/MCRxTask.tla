------------------------------ MODULE MCRxTask -------------------------------
(***************************************************************************)
(* RxTask with three calls of begin(), so that a task is started, stopped  *)
(* and started again, a failed start is followed by a good one, and bytes  *)
(* cross every boundary between two calls.                                 *)
(***************************************************************************)
EXTENDS RxTask
=============================================================================
