---------------------------- MODULE MCGigaSerial -----------------------------
(***************************************************************************)
(* GigaSerial with a registry of two slots for three adapters, frames that *)
(* overrun the transmit buffer, and bit times of one or two microseconds,  *)
(* the sleep of a millisecond as long as one character or half of it.      *)
(***************************************************************************)
EXTENDS GigaSerial

RtuFormats == RtuConfigs

\* The instance is one the theorems of GigaSerial_proofs speak of.
ASSUME InstanceAssumption == Legal /\ Prompt
=============================================================================
