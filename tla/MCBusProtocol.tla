--------------------------- MODULE MCBusProtocol ----------------------------
(***************************************************************************)
(* BusProtocol with two requests to one unit and function, one answered by *)
(* an exception, and a broadcast.                                          *)
(***************************************************************************)
EXTENDS BusProtocol

Some == {[unit |-> "slave", fc |-> "read", shape |-> 1, bad |-> FALSE],
         [unit |-> "slave", fc |-> "read", shape |-> 2, bad |-> TRUE],
         [unit |-> "all", fc |-> "write", shape |-> 1, bad |-> FALSE]}
=============================================================================
