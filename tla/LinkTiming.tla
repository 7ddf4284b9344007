----------------------------- MODULE LinkTiming ------------------------------
(***************************************************************************)
(* What begin() derives from the baud rate and the serial format: the time *)
(* of a character, T1.5, T3.5, the envelope of the longest frame, and the  *)
(* delay after a transmission (ModbusRTUComm.cpp:129-189); and the format  *)
(* the GIGA adapter gives to the UART for the same configuration word      *)
(* (GigaSerialFormat.h:24-62).                                             *)
(*                                                                         *)
(* A configuration word is the record of its three fields.                 *)
(***************************************************************************)
EXTENDS Integers

CONSTANTS Second,     \* microseconds in a second, 1000000
          FastBaud,   \* 19200
          FixedTimers,\* MBUS_RTU_TIMING_MODE is SPEC_FIXED_GT19200
          FixedT15, FixedT35,  \* MBUS_RTU_T15/T35_FIXED_GT19200_US
          MaxEnvelope,\* 0x7FFFFFFF
          LongestFrame \* 256

ASSUME LinkAssumption ==
  /\ {Second, FastBaud, FixedT15, FixedT35, LongestFrame} \subseteq Nat \ {0}
  /\ MaxEnvelope \in Nat /\ FixedTimers \in BOOLEAN

Configs == [data : 5 .. 8, parity : {"none", "even", "odd", "mark", "space"},
            stop : {"one", "oneAndHalf", "two"}]

\* The formats of Modbus RTU: eight data bits.
RtuConfigs == {c \in Configs : /\ c.data = 8
                               /\ c.parity \in {"none", "even", "odd"}
                               /\ c.stop \in {"one", "two"}}

HasParity(c) == c.parity \in {"even", "odd"}

\* Defect: two stop bits are counted as one.
BitsPerCharShort(c) == IF c \in RtuConfigs /\ HasParity(c) THEN 11 ELSE 10

\* The switch of begin(); a format it does not know counts ten bits.
BitsPerChar(c) ==
  CASE c \notin RtuConfigs -> 10
    [] HasParity(c) /\ c.stop = "two" -> 12
    [] HasParity(c) /\ c.stop = "one" -> 11
    [] ~HasParity(c) /\ c.stop = "two" -> 11
    [] ~HasParity(c) /\ c.stop = "one" -> 10

\* decodeSerialConfig(): field by field, each with a default.
DecodeSerialConfig(c) ==
  [dataBits |-> IF c.data = 7 THEN 7 ELSE 8,
   parity   |-> IF HasParity(c) THEN c.parity ELSE "none",
   stopBits |-> IF c.stop = "two" THEN 2 ELSE 1]

\* What a UART of that format sends for a character: the start bit too.
WireBits(format) == 1 + format.dataBits + format.stopBits
                      + (IF format.parity = "none" THEN 0 ELSE 1)

CeilDiv(a, b) == (a + b - 1) \div b
Larger(a, b)  == IF a > b THEN a ELSE b
Smaller(a, b) == IF a < b THEN a ELSE b

CharUs(baud, c) == CeilDiv(BitsPerChar(c) * Second, baud)

Fixed(baud) == FixedTimers /\ baud > FastBaud

CharTimeout(baud, c)  == IF Fixed(baud) THEN FixedT15
                         ELSE (3 * CharUs(baud, c) + 1) \div 2
FrameTimeout(baud, c) == IF Fixed(baud) THEN FixedT35
                         ELSE (7 * CharUs(baud, c) + 1) \div 2

\* Defect: the envelope is computed for characters of eleven bits always.
BudgetBitsEleven(c) == 11

BudgetBits(c) == Larger(BitsPerChar(c), 11)

\* _maxFrameReceiveUs: the longest frame with the longest legal pauses.
MaxFrameReceiveUs(baud, c) ==
  Smaller(MaxEnvelope,
          LongestFrame * CeilDiv(BudgetBits(c) * Second, baud)
            + (LongestFrame - 1) * CharTimeout(baud, c)
            + FrameTimeout(baud, c))

PostDelayUs(baud, c) == CharUs(baud, c) + 2
=============================================================================
