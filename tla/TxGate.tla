------------------------------- MODULE TxGate -------------------------------
(***************************************************************************)
(* When the driver may transmit: the next-TX gate of ModbusRTUComm, the    *)
(* one-shot gaps, the two rules that retire a stale gate, and writeAdu()   *)
(* from its drain to the holdoff it leaves behind (ModbusRTUComm.cpp:      *)
(* 246-289, 313-332, 927-1031 and 1517-1670).                              *)
(*                                                                         *)
(* t is the true time in microseconds since power-up.  The program only    *)
(* sees micros(), which is t modulo 2^32, and millis(), and both wrap; the *)
(* ghost variables keep the true times its decisions are judged by, and no *)
(* guard reads them.  Receive parsing is RxTransaction's: here a drain     *)
(* sees the ring only through _lastRxByteUs, since a line idle for T3.5 is *)
(* a line whose bytes the extractor has all removed.                       *)
(***************************************************************************)
EXTENDS Integers, FiniteSetsExt

CONSTANTS UsWrap,    \* micros() wraps at this value (2^32)
          MsWrap,    \* millis() wraps at this value (2^32)
          UsPerMs,   \* 1000
          MaxGate,   \* kMaxWrapSafeTxIntervalUs
          T35,       \* _frameTimeout
          BaseGap,   \* _baseExtraGapUs
          NoReplyCap,\* _noReplyCapUs
          IdleResetMs,   \* _idleResetMs
          EscapeUs,  \* MBUS_RTU_DRAIN_ESCAPE_US
          ProcUs,    \* processing delays of the no-reply functions
          PreGaps, PostGaps,   \* one-shot gaps the owner may ask for
          Rests,     \* times the owner may stay away
          Lag,       \* longest pass of a polling loop
          Start,     \* true times at which the driver may come up
          MaxTime    \* bound: no call starts after this

ASSUME GateAssumption ==
  /\ {UsWrap, MsWrap, UsPerMs, EscapeUs, Lag, T35} \subseteq Nat \ {0}
  /\ {BaseGap, NoReplyCap, IdleResetMs, MaxTime} \subseteq Nat
  /\ MaxGate \in Nat /\ 2 * MaxGate < UsWrap
  /\ ProcUs \subseteq Nat /\ Rests \subseteq Nat \ {0} /\ Start \subseteq Nat
  /\ PreGaps \subseteq Nat /\ PostGaps \subseteq Nat
  \* T3.5 is below the half range and the 5 s of the watchdog, and 2^32 ms
  \* are 1000 turns of micros(); what begins before a gate is over, a drain
  \* and a pass of the loop, ends before micros() is round.
  /\ T35 <= MaxGate /\ T35 <= UsPerMs * IdleResetMs
  /\ (MsWrap * UsPerMs) % UsWrap = 0
  /\ MaxGate + EscapeUs + Lag + 2 * UsPerMs <= UsWrap

VARIABLES t,          \* true time
          gateUs,     \* _txGateStartedUs
          gateMs,     \* _txGateStartedMs
          gateDur,    \* _txGateDurationUs
          setAt,      \* true time at which the gate was set
          postGap,    \* _oneShotPostGapUs
          trafficMs,  \* _lastTrafficMs
          rxUs,       \* _lastRxByteUs
          pc,         \* where the owner is
          op,         \* the call it is in
          drainUs,    \* drainStartUs
          post,       \* postGapUs, the one-shot writeAdu() consumed
          driver,     \* level of the DE pin
          wire,       \* what the UART still has to shift out
          holdoff,    \* true time left of the holdoff the driver imposed
          preLeft,    \* true time left of the pre-gap the owner asked for
          silence,    \* true time since the last frame, up to T35
          asked,      \* longest post-gap asked for the next frame
          erased      \* a live gate was dropped since the last frame

gate  == <<gateUs, gateMs, gateDur, setAt>>
ages  == <<holdoff, preLeft, silence>>
ghost == <<ages, asked, erased>>
line  == <<driver, wire>>
vars  == <<t, gate, postGap, trafficMs, rxUs, pc, op, drainUs, post, line,
           ghost>>

Micros == t % UsWrap
Millis == (t \div UsPerMs) % MsWrap

\* Unsigned 32-bit subtraction of two clock readings.
UsSince(us) == (Micros - us) % UsWrap
MsSince(ms) == (Millis - ms) % MsWrap

\* Defect: a gap may be longer than the half range the clock can judge.
BoundedNot(us) == us

Bounded(us) == IF us > MaxGate THEN MaxGate ELSE us

Remaining == IF UsSince(gateUs) >= gateDur
             THEN 0 ELSE gateDur - UsSince(gateUs)

Replace(us) == /\ gateUs' = Micros /\ gateMs' = Millis
               /\ gateDur' = Bounded(us) /\ setAt' = t

Extend(us) == IF Bounded(us) > Remaining THEN Replace(us) ELSE UNCHANGED gate

\* Defect: nobody asks millis(), so a dormant gate lives again.
CoarseNeverExpired == FALSE

\* millis() proves that the gate is over although micros() may have wrapped.
CoarseExpired == /\ gateDur # 0
                 /\ MsSince(gateMs) > (gateDur + UsPerMs - 1) \div UsPerMs

\* No traffic for IdleResetMs; 0 stands for "none yet".
Watchdog == trafficMs # 0 /\ MsSince(trafficMs) > IdleResetMs

Live == holdoff > 0 \/ preLeft > 0

-----------------------------------------------------------------------------
\* The driver has just come out of begin().
Init == /\ t \in Start
        /\ gateUs = Micros /\ gateMs = Millis /\ setAt = t
        /\ gateDur = Bounded(T35 + BaseGap)
        /\ postGap = 0 /\ trafficMs = Millis /\ rxUs = 0
        /\ pc = "idle" /\ op = "none" /\ drainUs = 0 /\ post = 0
        /\ driver = "low" /\ wire = "quiet"
        /\ holdoff = Bounded(T35 + BaseGap) /\ preLeft = 0 /\ silence = T35
        /\ asked = 0 /\ erased = FALSE

Less(left, d) == IF left > d THEN left - d ELSE 0

\* The true time goes on by d.
Elapse(d) ==
  /\ t' = t + d
  /\ holdoff' = Less(holdoff, d) /\ preLeft' = Less(preLeft, d)
  /\ silence' = Min({T35, silence + d})

\* What a pass of d microseconds leaves behind: the time, and the stamps of
\* a byte the RX thread pushed (_pushRxByte) when one came in.
Pass(d, rx) ==
  /\ Elapse(d)
  /\ rxUs' = IF rx THEN (t + d) % UsWrap ELSE rxUs
  /\ trafficMs' = IF rx THEN ((t + d) \div UsPerMs) % MsWrap ELSE trafficMs

\* The owner calls nothing for a while.
Rest(d, rx) == /\ pc = "idle" /\ t < MaxTime
               /\ Pass(d, rx)
               /\ UNCHANGED <<gate, postGap, pc, op, drainUs, post, line,
                              asked, erased>>

\* begin() again, after its T3.5 of silence (a Rest): a fresh gate, and the
\* one-shots are forgotten.
Begin == /\ pc = "idle" /\ t < MaxTime
         /\ Replace(T35 + BaseGap)
         /\ postGap' = 0 /\ trafficMs' = Millis /\ rxUs' = 0
         /\ holdoff' = Bounded(T35 + BaseGap) /\ preLeft' = 0 /\ asked' = 0
         /\ UNCHANGED <<t, pc, op, drainUs, post, line, silence, erased>>

\* Nobody asks millis() here: a gate that is over and has come back with micros()
\* keeps its place, and the gap goes with it at the next drain.
Swallowed(us) == ~Live /\ Bounded(us) <= Remaining

SetPreTxGapUsOnce(us) ==
  /\ pc = "idle" /\ us # 0 /\ t < MaxTime
  /\ Extend(us)
  /\ preLeft' = IF Swallowed(us) THEN preLeft ELSE Max({preLeft, Bounded(us)})
  /\ UNCHANGED <<t, postGap, trafficMs, rxUs, pc, op, drainUs, post, line,
                 holdoff, silence, asked, erased>>

SetPostTxGapUsOnce(us) ==
  /\ pc = "idle" /\ us # 0 /\ t < MaxTime
  /\ postGap' = IF Bounded(us) > postGap THEN Bounded(us) ELSE postGap
  /\ asked' = Max({asked, us})
  /\ UNCHANGED <<t, gate, trafficMs, rxUs, pc, op, drainUs, post, line, ages,
                 erased>>

-----------------------------------------------------------------------------
(* _drainToIdle(), entered by writeAdu() and at the end of readAdu() *)

\* The stale-gate rules come first, before any byte is looked at.
DrainCall(o) ==
  /\ pc = "idle" /\ t < MaxTime
  /\ op' = o /\ pc' = "drain" /\ drainUs' = Micros
  /\ IF CoarseExpired \/ Watchdog THEN Replace(0) ELSE UNCHANGED gate
  /\ erased' = (erased \/ (Watchdog /\ Live))
  /\ UNCHANGED <<t, postGap, trafficMs, rxUs, post, line, ages, asked>>

WriteCall == DrainCall("write")
ReadCall  == DrainCall("read")

LineIdle == UsSince(rxUs) >= T35
EscapeDue == UsSince(drainUs) >= EscapeUs

\* Defect: the drain replaces the gate, and erases a longer one.
DrainIdleReplaces ==
  /\ pc = "drain" /\ LineIdle
  /\ Replace(BaseGap)
  /\ holdoff' = Max({holdoff, Bounded(BaseGap)})
  /\ pc' = IF op = "write" THEN "enter" ELSE "readDone"
  /\ drainUs' = 0
  /\ UNCHANGED <<t, postGap, trafficMs, rxUs, op, post, line, preLeft,
                 silence, asked, erased>>

\* RX idle is proved: the gate may only be extended.
DrainIdle == /\ pc = "drain" /\ LineIdle
             /\ Extend(BaseGap)
             /\ holdoff' = Max({holdoff, Bounded(BaseGap)})
             /\ pc' = IF op = "write" THEN "enter" ELSE "readDone"
             /\ drainUs' = 0
             /\ UNCHANGED <<t, postGap, trafficMs, rxUs, op, post, line,
                            preLeft, silence, asked, erased>>

\* Bytes kept coming for EscapeUs: give up and force a known gate.  The call
\* returns false and the one-shot post-gap is still pending.
DrainEscape ==
  /\ pc = "drain" /\ ~LineIdle /\ EscapeDue
  /\ rxUs' = 0 /\ trafficMs' = Millis
  /\ Replace(T35 + BaseGap)
  /\ erased' = (erased \/ Max({holdoff, preLeft}) > Bounded(T35 + BaseGap))
  /\ holdoff' = Max({holdoff, Bounded(T35 + BaseGap)})
  /\ pc' = "idle" /\ op' = "none" /\ drainUs' = 0
  /\ UNCHANGED <<t, postGap, post, line, preLeft, silence, asked>>

DrainLoop(d, rx) ==
  /\ pc = "drain" /\ ~LineIdle /\ ~EscapeDue
  /\ Pass(d, rx)
  /\ UNCHANGED <<gate, postGap, pc, op, drainUs, post, line, asked, erased>>

\* readAdu() stamps the traffic time again when it matched a response.
ReadDone(ok) == /\ pc = "readDone"
                /\ trafficMs' = IF ok THEN Millis ELSE trafficMs
                /\ pc' = "idle" /\ op' = "none"
                /\ UNCHANGED <<t, gate, postGap, rxUs, drainUs, post, line,
                               ghost>>

-----------------------------------------------------------------------------
(* writeAdu() after its drain *)

GateEnter == /\ pc = "enter"
             /\ IF Watchdog THEN Replace(0) ELSE UNCHANGED gate
             /\ erased' = (erased \/ (Watchdog /\ Live))
             /\ pc' = "gate"
             /\ UNCHANGED <<t, postGap, trafficMs, rxUs, op, drainUs, post,
                            line, ages, asked>>

\* One pass of the wait; RX is not looked at again.
GateWait(d, rx) == /\ pc = "gate" /\ Remaining # 0
                   /\ Pass(d, rx)
                   /\ UNCHANGED <<gate, postGap, pc, op, drainUs, post, line,
                                  asked, erased>>

\* The gate is open: consume the one-shot and raise DE.
TxStart == /\ pc = "gate" /\ Remaining = 0
           /\ post' = postGap /\ postGap' = 0
           /\ driver' = "high"
           /\ pc' = "write"
           /\ UNCHANGED <<t, gate, trafficMs, rxUs, op, drainUs, wire, ghost>>

\* The backend accepts the frame, or only a part of it.
TxWrite(whole) ==
  /\ pc = "write"
  /\ wire' = "shifting"
  /\ pc' = IF whole THEN "flush" ELSE "flushPart"
  /\ Elapse(1)
  /\ UNCHANGED <<gate, postGap, trafficMs, rxUs, op, drainUs, post, driver,
                 asked, erased>>

\* Defect: DE is released when the buffer is empty, without the delay.
TxFlushUndelayed(done) ==
  /\ pc \in {"flush", "flushPart"}
  /\ wire' = IF done THEN "lastChar" ELSE wire
  /\ pc' = IF done /\ pc = "flush" THEN "release" ELSE "releaseFail"
  /\ Elapse(1)
  /\ UNCHANGED <<gate, postGap, trafficMs, rxUs, op, drainUs, post, driver,
                 asked, erased>>

\* waitForTransmitDrain(): true once the buffer is out, the last character
\* possibly still in the shift register; false on a time-out.
TxFlush(done) ==
  /\ pc \in {"flush", "flushPart"}
  /\ wire' = IF done THEN "lastChar" ELSE wire
  /\ pc' = IF done /\ pc = "flush" THEN "delay" ELSE "delayFail"
  /\ Elapse(1)
  /\ UNCHANGED <<gate, postGap, trafficMs, rxUs, op, drainUs, post, driver,
                 asked, erased>>

\* _postDelay covers the shift register.
TxDelay == /\ pc \in {"delay", "delayFail"}
           /\ wire' = IF wire = "lastChar" THEN "quiet" ELSE wire
           /\ pc' = IF pc = "delay" THEN "release" ELSE "releaseFail"
           /\ Elapse(1)
           /\ UNCHANGED <<gate, postGap, trafficMs, rxUs, op, drainUs, post,
                          driver, asked, erased>>

TxRelease == /\ pc \in {"release", "releaseFail"}
             /\ driver' = "low"
             /\ silence' = 0
             /\ pc' = IF pc = "release" THEN "sent" ELSE "failed"
             /\ UNCHANGED <<t, gate, postGap, trafficMs, rxUs, op, drainUs,
                            post, wire, holdoff, preLeft, asked, erased>>

\* Holdoff after a function that nobody answers.
NoReplyUs(proc) == LET longest == Max({T35, proc})
                   IN  IF longest > NoReplyCap THEN NoReplyCap ELSE longest

\* The holdoff replaces whatever gate there was.  What the next frame has to
\* wait for is the owed time plus the gaps asked for.
Finish(us, owed) ==
  /\ Replace(us)
  /\ trafficMs' = Millis
  /\ holdoff' = Bounded(owed + BaseGap + asked)
  /\ preLeft' = 0 /\ asked' = 0 /\ erased' = FALSE
  /\ pc' = "idle" /\ op' = "none" /\ post' = 0 /\ wire' = "quiet"
  /\ UNCHANGED <<t, postGap, rxUs, drainUs, driver, silence>>

TxFailed == pc = "failed" /\ Finish(T35 + BaseGap + post, T35)
\* Defect: the gate after a frame leaves out the silence of T3.5.
TxReplyUnspaced == pc = "sent" /\ Finish(BaseGap + post, T35)

TxReply  == pc = "sent" /\ Finish(T35 + BaseGap + post, T35)
TxNoReply(proc) ==
  /\ pc = "sent"
  /\ Finish(NoReplyUs(proc) + BaseGap + post,
            Min({NoReplyCap, Max({T35, proc})}))

\* The bound of the model is reached.
OwnerStops == pc = "idle" /\ t >= MaxTime /\ UNCHANGED vars

Next == \/ \E d \in Rests, rx \in BOOLEAN : Rest(d, rx)
        \/ Begin
        \/ \E us \in PreGaps : SetPreTxGapUsOnce(us)
        \/ \E us \in PostGaps : SetPostTxGapUsOnce(us)
        \/ WriteCall \/ ReadCall
        \/ DrainIdle \/ DrainEscape
        \/ \E d \in 1 .. Lag, rx \in BOOLEAN : DrainLoop(d, rx)
        \/ \E ok \in BOOLEAN : ReadDone(ok)
        \/ GateEnter
        \/ \E d \in 1 .. Lag, rx \in BOOLEAN : GateWait(d, rx)
        \/ TxStart
        \/ \E whole \in BOOLEAN : TxWrite(whole)
        \/ \E done \in BOOLEAN : TxFlush(done)
        \/ TxDelay \/ TxRelease
        \/ TxFailed \/ TxReply
        \/ \E p \in ProcUs : TxNoReply(p)
        \/ OwnerStops

Spec == Init /\ [][Next]_vars

-----------------------------------------------------------------------------
TypeOK ==
  /\ t \in Nat /\ setAt \in Nat
  /\ gateUs \in 0 .. UsWrap - 1 /\ gateMs \in 0 .. MsWrap - 1
  /\ gateDur \in 0 .. MaxGate
  /\ postGap \in 0 .. MaxGate /\ post \in 0 .. MaxGate
  /\ trafficMs \in 0 .. MsWrap - 1
  /\ rxUs \in 0 .. UsWrap - 1 /\ drainUs \in 0 .. UsWrap - 1
  /\ pc \in {"idle", "drain", "readDone", "enter", "gate", "write", "flush",
             "flushPart", "delay", "delayFail", "release", "releaseFail",
             "sent", "failed"}
  /\ op \in {"none", "read", "write"}
  /\ driver \in {"low", "high"}
  /\ wire \in {"quiet", "lastChar", "shifting"}
  /\ {holdoff, preLeft, asked} \subseteq Nat /\ silence \in 0 .. T35
  /\ erased \in BOOLEAN

\* A frame starts only when the holdoff of the previous one, with the
\* post-gap asked for it, is over in true time, however often micros()
\* wrapped since (writeAdu 1537-1546, _drainToIdle 977-984).  The only way
\* round is a rule that drops a live gate on purpose, the idle watchdog or
\* the drain escape.
NoEarlyStart == pc = "write" => holdoff = 0 \/ erased

\* Every drain begins less than a turn of millis() (49.7 days) after the gate
\* was set: the driver is used, or the gate is young.
InTime == pc = "idle" /\ pc' = "drain" => t - setAt < (MsWrap - 1) * UsPerMs
Attended == [][InTime]_vars

\* The driver never waits for a gate that is over: a dormant gate does not
\* come back when micros() wraps (README.md:119-120, 275-289).  It holds for a
\* driver that is Attended.
NotRevived == pc = "gate" /\ Remaining # 0 => Live

\* Two frames are at least T3.5 apart ("Enforce inter-frame silence before
\* transmitting", 1526).
FrameSilence == pc = "write" => silence = T35

\* DE is high for as long as a frame the call reports as sent is on the wire
\* (1572-1585), and low whenever the driver is not sending.
DriverOrder ==
  /\ wire # "quiet" /\ pc # "failed" => driver = "high"
  /\ pc \in {"idle", "drain", "readDone", "enter", "gate"} => driver = "low"

\* A one-shot pre-gap delays the next frame ("One-shot pre-transmit gap (in
\* microseconds) for the next transaction", ModbusRTUComm.h:223) for as long as
\* the clock can judge, whatever reads, drains and longer or shorter gaps come in
\* between.  It is lost only to a gate that came back (Swallowed), and to the two
\* rules that drop a live gate: the idle watchdog drops a gap asked for just now
\* (936-942 and 1531-1535).
PreGapKept == pc = "write" => preLeft = 0 \/ erased
=============================================================================
