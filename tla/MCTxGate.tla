------------------------------ MODULE MCTxGate ------------------------------
(***************************************************************************)
(* TxGate at a scale where a millisecond is 2 us, micros() wraps every     *)
(* 16 ms and millis() every 32 ms, so that a few calls take the driver     *)
(* across both half ranges and both wraps.  As on the real clocks,         *)
(* millis() wraps later than micros(), and a gate of the greatest length   *)
(* is just under half the range of micros().                               *)
(***************************************************************************)
EXTENDS TxGate

\* Nobody stays away for a turn of millis(): every behaviour is Attended.
ASSUME InstanceAssumption ==
  \A s \in Start : MaxTime - s < (MsWrap - 1) * UsPerMs
=============================================================================
