----------------------------- MODULE GigaSerial ------------------------------
(***************************************************************************)
(* A transmission of the driver through a GIGA adapter: the write loop     *)
(* with its time-out, the wait for the bytes to leave, the delay, and DE   *)
(* (GigaBufferedSerial.h:47-55, 96-163 and 217-227;                        *)
(* ArduinoModbusRTUPlatform.h:67-83 and 110-126; ModbusRTUComm.cpp:        *)
(* 1572-1585).  It composes the registry, which decides by which of two    *)
(* ways the driver waits, with the timing begin() computed, by which it    *)
(* waits, and with the format the adapter gave to the UART, by which the   *)
(* bytes really leave.                                                     *)
(*                                                                         *)
(* The transmitter of the UART is external: the time until all bytes it    *)
(* has accepted are on the wire, in wireUs.  It takes a byte when there is *)
(* room in its buffer, and sync() succeeds when the buffer is empty, while *)
(* the last character may still be in the shift register.  The owner can   *)
(* be preempted for at most Lag wherever it reads the clock.  What passes  *)
(* between two transmissions is longer than any of these times.            *)
(***************************************************************************)
EXTENDS GigaRegistry, LinkTiming

CONSTANTS Bus,        \* the adapter the driver uses
          UsWrap,     \* micros() wraps at this value (2^32)
          Start,      \* readings of micros() when a transmission begins
          SleepUs,    \* 1000: sleep a millisecond above it
          ShortUs,    \* 50: yield at or below it
          WriteTimeoutUs, FlushTimeoutUs,  \* kWriteTimeoutUs, kFlushTimeoutUs
          TxRoom,     \* bytes the transmit buffer of the UART holds
          Lag,        \* longest preemption, and longest yield
          Bauds, Formats,     \* arguments of begin()
          Frames      \* lengths of frames

ASSUME SerialAssumption ==
  /\ Bus \in Ports /\ Formats \subseteq Configs
  /\ {UsWrap, SleepUs, ShortUs, TxRoom, Lag} \subseteq Nat \ {0}
  /\ ShortUs < SleepUs /\ {WriteTimeoutUs, FlushTimeoutUs} \subseteq Nat
  /\ Start \subseteq 0 .. UsWrap - 1
  /\ Bauds \subseteq Nat \ {0} /\ Frames \subseteq Nat \ {0}

VARIABLES baud, config,  \* what begin() was called with, 0 for "not yet"
          now,       \* micros()
          pc,        \* where the driver is
          left,      \* bytes still to be written
          sent,      \* bytes the adapter accepted
          startUs,   \* startUs of the loop the driver is in
          waitUs,    \* waitUs, what it will delay, or 0
          driver,    \* level of the DE pin
          wireUs,    \* time until the accepted bytes have left
          quietUs,   \* time since they have, up to T3.5 and one
          sure       \* the loop ended by the estimate, or by an empty buffer

link  == <<baud, config>>
place == <<pc, left, sent, startUs, waitUs, sure>>
wire  == <<wireUs, quietUs>>
vars  == <<registry, link, now, place, driver, wire>>

Since(us) == (now - us) % UsWrap
CommChar  == CharUs(baud, config)
WireChar  == CeilDiv(WireBits(DecodeSerialConfig(config)) * Second, baud)
T35       == FrameTimeout(baud, config)

\* Bytes in the buffer: all but the one in the shift register.
Buffered == IF wireUs = 0 THEN 0 ELSE CeilDiv(wireUs, WireChar) - 1
Room     == TxRoom - Buffered

Init == /\ RegistryInit
        /\ baud = 0 /\ config \in Formats
        /\ now = 0 /\ pc = "idle" /\ left = 0 /\ sent = 0
        /\ startUs = 0 /\ waitUs = 0 /\ sure = FALSE
        /\ driver = "low" /\ wireUs = 0 /\ quietUs = 0

-----------------------------------------------------------------------------
\* Construction and destruction, while the driver does nothing.
Administer == /\ pc = "idle" /\ RegistryNext
              /\ UNCHANGED <<link, now, place, driver, wire>>

\* begin(baud, config) of the adapter and of the driver.
Begin(b, c) == /\ pc = "idle" /\ Bus \in alive
               /\ baud' = b /\ config' = c
               /\ UNCHANGED <<registry, now, place, driver, wire>>

\* The true time goes on by d, and the clock with it.
Elapse(d) ==
  /\ now' = (now + d) % UsWrap
  /\ wireUs' = Larger(0, wireUs - d)
  /\ quietUs' = IF wireUs > d THEN 0
                ELSE Smaller(T35 + 1, quietUs + d - wireUs)
  /\ UNCHANGED <<registry, link>>

Stand == UNCHANGED <<registry, link, now, wire>>

\* writeAdu(): DE goes high, and write() begins.
Transmit(n, at) ==
  /\ pc = "idle" /\ Bus \in alive /\ baud # 0
  /\ driver' = "high" /\ pc' = "write" /\ left' = n /\ sent' = 0
  /\ now' = at /\ startUs' = at /\ quietUs' = 0
  /\ UNCHANGED <<registry, link, waitUs, wireUs, sure>>

-----------------------------------------------------------------------------
(* write(): the clock is looked at only when nothing was accepted *)

WriteSome == /\ pc = "write" /\ left > 0 /\ Room > 0
             /\ LET n == Smaller(left, Room)
                IN  /\ left' = left - n /\ sent' = sent + n
                    /\ wireUs' = wireUs + n * WireChar
             /\ quietUs' = 0
             /\ UNCHANGED <<registry, link, now, pc, startUs, waitUs, sure,
                            driver>>

WriteDue == Since(startUs) >= WriteTimeoutUs

WriteStall(d) == /\ pc = "write" /\ left > 0 /\ Room = 0 /\ ~WriteDue
                 /\ Elapse(d)
                 /\ UNCHANGED <<place, driver>>

\* All of it, or what was accepted in time.
WriteDone == /\ pc = "write"
             /\ left = 0 \/ (Room = 0 /\ WriteDue)
             /\ pc' = "lookup"
             /\ Stand /\ UNCHANGED <<left, sent, startUs, waitUs, sure,
                                     driver>>

-----------------------------------------------------------------------------
(* waitForTransmitDrain(): the registry is asked first *)

\* Defect: the estimate is for one character, whatever was accepted.
EstimateOne == Smaller(2 * CommChar, UsWrap - 1)

\* One character more than was accepted, in 64 bits and cut to 32.
Estimate == Smaller((sent + 1) * CommChar, UsWrap - 1)

\* The clock starts after a preemption perhaps.
Lookup(d) == /\ pc = "lookup"
             /\ pc' = IF Registered(Bus)
                      THEN IF sent = 0 THEN "delay" ELSE "wait"
                      ELSE "flush"
             /\ waitUs' = IF pc' = "wait" THEN Estimate ELSE 0
             /\ Elapse(d) /\ startUs' = now'
             /\ sure' = (pc' = "delay")
             /\ UNCHANGED <<left, sent, driver>>

\* An adapter without a slot: flush(), whose time-out nobody hears of.
FlushDone == /\ pc = "flush"
             /\ Buffered = 0 \/ Since(startUs) >= FlushTimeoutUs
             /\ sure' = (Buffered = 0)
             /\ pc' = "delay"
             /\ Stand /\ UNCHANGED <<left, sent, startUs, waitUs, driver>>

FlushWait(d) == /\ pc = "flush"
                /\ Buffered > 0 /\ Since(startUs) < FlushTimeoutUs
                /\ Elapse(d)
                /\ UNCHANGED <<place, driver>>

\* The condition of the loop is one reading of the clock ...
WaitOver == /\ pc = "wait" /\ Since(startUs) >= waitUs
            /\ pc' = "delay" /\ sure' = TRUE /\ waitUs' = 0
            /\ Stand /\ UNCHANGED <<left, sent, startUs, driver>>

\* ... and what remains another, after a preemption perhaps.
WaitAgain(d) == /\ pc = "wait" /\ Since(startUs) < waitUs
                /\ pc' = "pause"
                /\ Elapse(d)
                /\ UNCHANGED <<left, sent, startUs, waitUs, sure, driver>>

\* Unsigned: it is huge when the wait is over by now.
RemainingUs == (waitUs - Since(startUs)) % UsWrap

\* Defect: one sleep for all the milliseconds that remain.
PauseUsWhole == IF RemainingUs >= SleepUs
                THEN (RemainingUs \div SleepUs) * SleepUs
                ELSE IF RemainingUs > ShortUs THEN RemainingUs
                ELSE 1

\* Sleep a millisecond, delay what remains, or yield.
PauseUs == IF RemainingUs >= SleepUs THEN SleepUs
           ELSE IF RemainingUs > ShortUs THEN RemainingUs
           ELSE 1

WaitPause(d) == /\ pc = "pause"
                /\ pc' = "wait"
                /\ Elapse(PauseUs + d)
                /\ UNCHANGED <<left, sent, startUs, waitUs, sure, driver>>

\* The delay after a transmission, and DE goes low.
Delay(d) == /\ pc = "delay"
            /\ Elapse(PostDelayUs(baud, config) + d)
            /\ pc' = "release"
            /\ UNCHANGED <<left, sent, startUs, waitUs, sure, driver>>

Release == /\ pc = "release"
           /\ driver' = "low" /\ pc' = "low"
           /\ Stand /\ UNCHANGED <<left, sent, startUs, waitUs, sure>>

\* writeAdu() goes on; the line falls silent before the next transmission.
Return == /\ pc = "low"
          /\ pc' = "idle" /\ left' = 0 /\ sent' = 0 /\ startUs' = 0
          /\ sure' = FALSE /\ now' = 0
          /\ wireUs' = 0 /\ quietUs' = 0
          /\ UNCHANGED <<registry, link, waitUs, driver>>

Next == \/ Administer
        \/ \E b \in Bauds, c \in Formats : Begin(b, c)
        \/ \E n \in Frames, at \in Start : Transmit(n, at)
        \/ WriteSome \/ WriteDone \/ FlushDone \/ WaitOver
        \/ \E d \in 1 .. Lag : WriteStall(d) \/ FlushWait(d)
        \/ \E d \in 0 .. Lag :
             Lookup(d) \/ WaitAgain(d) \/ WaitPause(d) \/ Delay(d)
        \/ Release \/ Return

Spec == Init /\ [][Next]_vars

-----------------------------------------------------------------------------
TypeOK ==
  /\ RegistryTypeOK
  /\ baud \in Bauds \cup {0} /\ config \in Formats
  /\ now \in 0 .. UsWrap - 1 /\ startUs \in 0 .. UsWrap - 1
  /\ waitUs \in 0 .. UsWrap - 1
  /\ pc \in {"idle", "write", "lookup", "flush", "wait", "pause", "delay",
             "release", "low"}
  /\ {left, sent, wireUs, quietUs} \subseteq Nat
  /\ driver \in {"low", "high"} /\ sure \in BOOLEAN

\* The two tables of formats, in two files, agree on the length of a
\* character for every format of Modbus RTU, and the envelope of begin() is
\* no shorter than the longest frame with the longest legal pauses on the
\* wire (cpp:129-143 and 169-184, GigaSerialFormat.h:29-58).
LinkAgrees ==
  baud # 0 /\ config \in RtuConfigs =>
    /\ BitsPerChar(config) = WireBits(DecodeSerialConfig(config))
    /\ MaxFrameReceiveUs(baud, config) >=
         Smaller(MaxEnvelope, LongestFrame * WireChar
                   + (LongestFrame - 1) * CharTimeout(baud, config))

\* "true means the accepted byteCount is safe to follow with the caller's
\* post-TX delay and DE-low transition" (ModbusRTUPlatform.h:170-171): DE goes
\* low after the last stop bit.  An adapter without a slot whose flush() timed
\* out is the exception (GigaBufferedSerial.h:222-225).
DrainCovers == driver = "low" /\ sure => wireUs = 0

\* The formats are those of Modbus RTU, and an estimate, with what the loop
\* that waits for it may overshoot, is less than a turn of micros(): 257
\* characters of twelve bits take 51 minutes at one baud.
InClock == \A b \in Bauds, c \in Formats, n \in Frames :
             (n + 1) * CharUs(b, c) + SleepUs + 2 * Lag <= UsWrap
Legal == Formats \subseteq RtuConfigs /\ InClock

\* Two characters, a sleep and four preemptions take no longer than T3.5.
Prompt == \A b \in Bauds, c \in Formats :
            2 * CharUs(b, c) + SleepUs + 4 * Lag + 1 <= FrameTimeout(b, c)

\* DE goes low before a slave may answer, T3.5 after the frame, however the
\* owner is preempted between two readings of the clock (146-157).  A frame
\* the buffer cannot hold is out sooner than the estimate knows.
Fits == left = 0 /\ sent <= TxRoom + 1

ReleasedInTime == pc = "low" /\ sure /\ Fits => quietUs <= T35
=============================================================================
