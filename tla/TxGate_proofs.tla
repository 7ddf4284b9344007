---------------------------- MODULE TxGate_proofs ----------------------------
(***************************************************************************)
(* Theorems about the next-TX gate, for every length of the gaps, every    *)
(* width of the two clocks and any time the owner stays away: however      *)
(* often micros() and millis() wrap.                                       *)
(***************************************************************************)
EXTENDS TxGate, Clock_proofs

\* The assumptions in which no constants are multiplied.
LEMMA Sizes ==
  /\ {UsWrap, MsWrap, UsPerMs, EscapeUs, Lag, T35} \subseteq Nat \ {0}
  /\ {BaseGap, NoReplyCap, IdleResetMs, MaxTime} \subseteq Nat
  /\ MaxGate \in Nat /\ 2 * MaxGate < UsWrap /\ T35 <= MaxGate
  /\ ProcUs \subseteq Nat /\ Rests \subseteq Nat \ {0} /\ Start \subseteq Nat
  /\ PreGaps \subseteq Nat /\ PostGaps \subseteq Nat
  /\ MaxGate + EscapeUs + Lag + 2 * UsPerMs <= UsWrap
BY GateAssumption

USE Sizes

-----------------------------------------------------------------------------
(* The inductive invariant *)

Sending == {"write", "flush", "flushPart", "delay", "delayFail", "release",
            "releaseFail"}
After   == {"sent", "failed"}

\* The pin and the wire, step by step.
Order == /\ driver = IF pc \in Sending THEN "high" ELSE "low"
         /\ pc \notin {"flush", "flushPart", "delay", "delayFail",
                       "releaseFail", "failed"} => wire = "quiet"
         /\ pc = "delay" => wire = "lastChar"

\* The one-shot post-gap is what was asked for, until a frame consumes it.
Gaps == IF pc \in Sending \cup After THEN postGap = 0 /\ post = Bounded(asked)
                                     ELSE postGap = Bounded(asked)

\* The silence that every frame is preceded by.
Spacing == IF T35 <= NoReplyCap + BaseGap THEN T35 ELSE NoReplyCap + BaseGap

\* The gate may be of the true time g.
Stamped(g) == gateUs = g % UsWrap /\ gateMs = (g \div UsPerMs) % MsWrap

\* A gate of g is not over before x has gone by.
Covers(g, x) == x <= 0 \/ x <= gateDur - (t - g)

Covered(g) == /\ erased \/ (Covers(g, holdoff) /\ Covers(g, preLeft))
              /\ pc \in After \/ Covers(g, Spacing - silence)

\* The drain began at d: millis() saw no gate that is long over, or it would
\* have been dropped.  It may have seen one of the same stamps, of a cycle of
\* millis() later.
Recent(g) ==
  pc = "drain" /\ gateDur # 0
    => \E d \in 0 .. t : \E n \in g .. d + UsPerMs :
         /\ Stamped(n) /\ d - n < gateDur + 2 * UsPerMs
         /\ drainUs = d % UsWrap /\ t - d < EscapeUs + Lag

Held == \E g \in 0 .. t : Stamped(g) /\ Covered(g) /\ Recent(g)

\* The traffic time is not before the last frame.
Traffic == \E h \in 0 .. t : /\ trafficMs = (h \div UsPerMs) % MsWrap
                             /\ \/ pc \in After
                                \/ silence = T35
                                \/ silence >= t - h

IInv == TypeOK /\ Order /\ Gaps /\ Held /\ Traffic

FrameSpacing == pc = "write" => silence >= Spacing

-----------------------------------------------------------------------------
(* Types *)

LEMMA BoundedIs ==
  ASSUME NEW us \in Nat
  PROVE  /\ Bounded(us) \in 0 .. MaxGate
         /\ Bounded(us) = IF us > MaxGate THEN MaxGate ELSE us
BY DEF Bounded

\* Readings of the clocks at a time x.
LEMMA Readings ==
  ASSUME NEW x \in Nat
  PROVE  /\ x % UsWrap \in 0 .. UsWrap - 1
         /\ (x \div UsPerMs) % MsWrap \in 0 .. MsWrap - 1
<1>1. x \div UsPerMs \in Nat
  BY DivOrder
<1>2. x \in Int /\ (x \div UsPerMs) \in Int
  BY <1>1
<1>3. UsWrap \in Nat \ {0} /\ MsWrap \in Nat \ {0}
  OBVIOUS
<1>. QED BY <1>2, <1>3, ModRange, Zenon

\* What is left of the gate.
LEMMA RemainingType ==
  ASSUME TypeOK
  PROVE  /\ UsSince(gateUs) \in Nat /\ Remaining \in 0 .. gateDur
         /\ gateDur \in 0 .. MaxGate /\ Remaining \in 0 .. MaxGate
<1>1. t \in Nat /\ gateUs \in Int /\ gateDur \in 0 .. MaxGate
  BY DEF TypeOK
<1>2. Micros \in Int
  BY <1>1, Readings DEF Micros
<1>3. Micros - gateUs \in Int
  BY <1>1, <1>2
<1>4. UsSince(gateUs) \in 0 .. UsWrap - 1
  <2>1. UsWrap \in Nat \ {0}
    OBVIOUS
  <2>. QED BY <2>1, <1>3, ModRange, Zenon DEF UsSince
<1>. QED BY <1>1, <1>4 DEF Remaining

LEMMA ElapseTyped ==
  ASSUME TypeOK, NEW d \in Nat, Elapse(d)
  PROVE  /\ t' \in Nat /\ holdoff' \in Nat /\ preLeft' \in Nat
         /\ silence' \in 0 .. T35 /\ t' = t + d
         /\ silence' = IF T35 <= silence + d THEN T35 ELSE silence + d
<1>1. t \in Nat /\ holdoff \in Nat /\ preLeft \in Nat /\ silence \in 0 .. T35
  BY DEF TypeOK
<1>2. Min({T35, silence + d}) = IF T35 <= silence + d THEN T35 ELSE silence + d
  BY <1>1, MinOf
<1>. QED BY <1>1, <1>2 DEF Elapse, Less

LEMMA PassTyped ==
  ASSUME TypeOK, NEW d \in Nat, NEW rx \in BOOLEAN, Pass(d, rx)
  PROVE  rxUs' \in 0 .. UsWrap - 1 /\ trafficMs' \in 0 .. MsWrap - 1
<1>1. t + d \in Nat
  BY DEF TypeOK
<1>. QED BY <1>1, Readings DEF Pass, TypeOK

LEMMA ReplaceTyped ==
  ASSUME TypeOK, NEW us \in Nat, Replace(us)
  PROVE  /\ gateUs' \in 0 .. UsWrap - 1 /\ gateMs' \in 0 .. MsWrap - 1
         /\ gateDur' \in 0 .. MaxGate /\ setAt' \in Nat
<1>1. t \in Nat
  BY DEF TypeOK
<1>. QED BY <1>1, Readings, BoundedIs DEF Replace, Micros, Millis

LEMMA ClocksTyped ==
  ASSUME TypeOK
  PROVE  t \in Nat /\ Micros \in 0 .. UsWrap - 1 /\ Millis \in 0 .. MsWrap - 1
BY Readings DEF TypeOK, Micros, Millis

LEMMA ExtendTyped ==
  ASSUME TypeOK, NEW us \in Nat, Extend(us)
  PROVE  /\ gateUs' \in 0 .. UsWrap - 1 /\ gateMs' \in 0 .. MsWrap - 1
         /\ gateDur' \in 0 .. MaxGate /\ setAt' \in Nat
<1>1. CASE Replace(us)
  BY <1>1, ReplaceTyped
<1>2. CASE UNCHANGED gate
  BY <1>2 DEF gate, TypeOK
<1>. QED BY <1>1, <1>2 DEF Extend

LEMMA DrainCallTyped == ASSUME TypeOK, NEW o \in {"read", "write"}, DrainCall(o)
                        PROVE  TypeOK'
<1>1. /\ gateUs' \in 0 .. UsWrap - 1 /\ gateMs' \in 0 .. MsWrap - 1
      /\ gateDur' \in 0 .. MaxGate /\ setAt' \in Nat
  <2>1. CASE Replace(0)
    BY <2>1, ReplaceTyped
  <2>2. CASE UNCHANGED gate
    BY <2>2 DEF gate, TypeOK
  <2>. QED BY <2>1, <2>2 DEF DrainCall
<1>2. erased' \in BOOLEAN
  BY DEF DrainCall, TypeOK
<1>. QED BY <1>1, <1>2, ClocksTyped DEF TypeOK, DrainCall, line, ages

LEMMA FinishTyped ==
  ASSUME TypeOK, NEW us \in Nat, NEW owed \in Nat, Finish(us, owed)
  PROVE  TypeOK'
<1>1. /\ gateUs' \in 0 .. UsWrap - 1 /\ gateMs' \in 0 .. MsWrap - 1
      /\ gateDur' \in 0 .. MaxGate /\ setAt' \in Nat
  BY ReplaceTyped DEF Finish
<1>2. holdoff' \in Nat
  <2>1. owed + BaseGap + asked \in Nat
    BY DEF TypeOK
  <2>. QED BY <2>1, BoundedIs DEF Finish
<1>3. trafficMs' \in 0 .. MsWrap - 1
  BY ClocksTyped DEF Finish
<1>4. /\ preLeft' = 0 /\ asked' = 0 /\ erased' = FALSE /\ pc' = "idle"
      /\ op' = "none" /\ post' = 0 /\ wire' = "quiet"
      /\ UNCHANGED <<t, postGap, rxUs, drainUs, driver, silence>>
  BY DEF Finish
<1>5. 0 \in 0 .. MaxGate
  OBVIOUS
<1>6. t' \in Nat /\ holdoff' \in Nat /\ preLeft' \in Nat /\ asked' \in Nat /\ silence' \in 0 .. T35
      /\ postGap' \in 0 .. MaxGate /\ post' \in 0 .. MaxGate
      /\ rxUs' \in 0 .. UsWrap - 1 /\ drainUs' \in 0 .. UsWrap - 1
  BY <1>2, <1>4, <1>5 DEF TypeOK
<1>7. driver' \in {"low", "high"}
  BY <1>4 DEF TypeOK
<1>. QED BY <1>1, <1>3, <1>4, <1>6, <1>7 DEF TypeOK

\* What a frame that nobody answers has to wait for.
LEMMA NoReplyIs ==
  ASSUME NEW proc \in ProcUs
  PROVE  /\ NoReplyUs(proc) \in Nat
         /\ NoReplyUs(proc) = Min({NoReplyCap, Max({T35, proc})})
         /\ NoReplyUs(proc) >= T35 \/ NoReplyUs(proc) = NoReplyCap
<1>1. proc \in Nat /\ T35 \in Nat /\ NoReplyCap \in Nat
  OBVIOUS
<1>2. Max({T35, proc}) = IF T35 >= proc THEN T35 ELSE proc
  BY <1>1, MaxOf
<1>3. ASSUME NEW m \in Nat PROVE Min({NoReplyCap, m}) = IF NoReplyCap <= m THEN NoReplyCap ELSE m
  BY <1>1, MinOf
<1>4. NoReplyUs(proc) = IF Max({T35, proc}) > NoReplyCap THEN NoReplyCap ELSE Max({T35, proc})
  BY DEF NoReplyUs
<1>5. Max({T35, proc}) \in Nat
  BY <1>1, <1>2
<1>6. Min({NoReplyCap, Max({T35, proc})})
        = IF NoReplyCap <= Max({T35, proc}) THEN NoReplyCap ELSE Max({T35, proc})
  BY <1>3, <1>5
<1>. HIDE DEF NoReplyUs
<1>. QED BY <1>1, <1>2, <1>4, <1>5, <1>6

\* Each step keeps the types.
LEMMA TypedNext == TypeOK /\ [Next]_vars => TypeOK'
<1>. SUFFICES ASSUME TypeOK, [Next]_vars PROVE TypeOK'
  OBVIOUS
<1>1. ASSUME NEW d \in Rests, NEW rx \in BOOLEAN, Rest(d, rx) PROVE TypeOK'
  <2>1. Pass(d, rx) /\ Elapse(d) /\ d \in Nat
    BY <1>1 DEF Rest, Pass
  <2>. QED BY <1>1, <2>1, ElapseTyped, PassTyped DEF TypeOK, Rest, gate, line
<1>2. CASE Begin
  <2>1. Bounded(T35 + BaseGap) \in Nat
    BY BoundedIs
  <2>2. /\ gateUs' \in 0 .. UsWrap - 1 /\ gateMs' \in 0 .. MsWrap - 1
        /\ gateDur' \in 0 .. MaxGate /\ setAt' \in Nat
    BY <1>2, ReplaceTyped DEF Begin
  <2>. QED BY <1>2, <2>1, <2>2, ClocksTyped DEF TypeOK, Begin, line
<1>3. ASSUME NEW us \in PreGaps, SetPreTxGapUsOnce(us) PROVE TypeOK'
  <2>1. us \in Nat /\ Bounded(us) \in Nat /\ preLeft \in Nat
    BY BoundedIs DEF TypeOK
  <2>2. Max({preLeft, Bounded(us)}) \in Nat
    BY <2>1, MaxOf
  <2>3. preLeft' \in Nat
    BY <1>3, <2>1, <2>2 DEF SetPreTxGapUsOnce
  <2>4. /\ gateUs' \in 0 .. UsWrap - 1 /\ gateMs' \in 0 .. MsWrap - 1
        /\ gateDur' \in 0 .. MaxGate /\ setAt' \in Nat
    BY <1>3, <2>1, ExtendTyped DEF SetPreTxGapUsOnce
  <2>. QED BY <1>3, <2>3, <2>4 DEF TypeOK, SetPreTxGapUsOnce, line
<1>4. ASSUME NEW us \in PostGaps, SetPostTxGapUsOnce(us) PROVE TypeOK'
  <2>1. us \in Nat /\ Bounded(us) \in 0 .. MaxGate /\ asked \in Nat
    BY BoundedIs DEF TypeOK
  <2>2. asked' \in Nat
    <3>1. Max({asked, us}) \in Nat
      BY <2>1, MaxOf
    <3>. QED BY <1>4, <3>1 DEF SetPostTxGapUsOnce
  <2>. QED BY <1>4, <2>1, <2>2 DEF TypeOK, SetPostTxGapUsOnce, line, gate, ages
<1>5. CASE WriteCall \/ ReadCall
  BY <1>5, DrainCallTyped DEF WriteCall, ReadCall
<1>6. CASE DrainIdle
  <2>1. Bounded(BaseGap) \in Nat /\ holdoff \in Nat
    BY BoundedIs DEF TypeOK
  <2>2. holdoff' \in Nat
    BY <1>6, <2>1, MaxOf DEF DrainIdle
  <2>3. /\ gateUs' \in 0 .. UsWrap - 1 /\ gateMs' \in 0 .. MsWrap - 1
        /\ gateDur' \in 0 .. MaxGate /\ setAt' \in Nat
    BY <1>6, ExtendTyped DEF DrainIdle
  <2>. QED BY <1>6, <2>2, <2>3 DEF TypeOK, DrainIdle, line
<1>7. CASE DrainEscape
  <2>1. Bounded(T35 + BaseGap) \in Nat /\ holdoff \in Nat
    BY BoundedIs DEF TypeOK
  <2>2. holdoff' \in Nat
    BY <1>7, <2>1, MaxOf DEF DrainEscape
  <2>3. /\ gateUs' \in 0 .. UsWrap - 1 /\ gateMs' \in 0 .. MsWrap - 1
        /\ gateDur' \in 0 .. MaxGate /\ setAt' \in Nat
    BY <1>7, ReplaceTyped DEF DrainEscape
  <2>4. erased' \in BOOLEAN
    BY <1>7 DEF DrainEscape, TypeOK
  <2>. QED BY <1>7, <2>2, <2>3, <2>4, ClocksTyped DEF TypeOK, DrainEscape, line
<1>8. ASSUME NEW d \in 1 .. Lag, NEW rx \in BOOLEAN, DrainLoop(d, rx) PROVE TypeOK'
  <2>1. Pass(d, rx) /\ Elapse(d) /\ d \in Nat
    BY <1>8 DEF DrainLoop, Pass
  <2>. QED BY <1>8, <2>1, ElapseTyped, PassTyped DEF TypeOK, DrainLoop, gate, line
<1>9. ASSUME NEW ok \in BOOLEAN, ReadDone(ok) PROVE TypeOK'
  BY <1>9, ClocksTyped DEF TypeOK, ReadDone, gate, line, ghost, ages
<1>10. CASE GateEnter
  <2>1. /\ gateUs' \in 0 .. UsWrap - 1 /\ gateMs' \in 0 .. MsWrap - 1
        /\ gateDur' \in 0 .. MaxGate /\ setAt' \in Nat
    <3>1. CASE Replace(0)
      BY <3>1, ReplaceTyped
    <3>2. CASE UNCHANGED gate
      BY <3>2 DEF gate, TypeOK
    <3>. QED BY <1>10, <3>1, <3>2 DEF GateEnter
  <2>2. erased' \in BOOLEAN
    BY <1>10 DEF GateEnter, TypeOK
  <2>. QED BY <1>10, <2>1, <2>2 DEF TypeOK, GateEnter, line, ages
<1>11. ASSUME NEW d \in 1 .. Lag, NEW rx \in BOOLEAN, GateWait(d, rx) PROVE TypeOK'
  <2>1. Pass(d, rx) /\ Elapse(d) /\ d \in Nat
    BY <1>11 DEF GateWait, Pass
  <2>. QED BY <1>11, <2>1, ElapseTyped, PassTyped DEF TypeOK, GateWait, gate, line
<1>12. CASE TxStart
  BY <1>12 DEF TypeOK, TxStart, gate, ghost, ages
<1>13. ASSUME NEW whole \in BOOLEAN, TxWrite(whole) PROVE TypeOK'
  BY <1>13, ElapseTyped DEF TypeOK, TxWrite, gate
<1>14. ASSUME NEW done \in BOOLEAN, TxFlush(done) PROVE TypeOK'
  BY <1>14, ElapseTyped DEF TypeOK, TxFlush, gate
<1>15. CASE TxDelay
  BY <1>15, ElapseTyped DEF TypeOK, TxDelay, gate
<1>16. CASE TxRelease
  BY <1>16 DEF TypeOK, TxRelease, gate
<1>17. post \in Nat /\ T35 + BaseGap + post \in Nat
  BY DEF TypeOK
<1>18. CASE TxFailed \/ TxReply
  BY <1>17, <1>18, FinishTyped DEF TxFailed, TxReply
<1>19. ASSUME NEW p \in ProcUs, TxNoReply(p) PROVE TypeOK'
  <2>1. NoReplyUs(p) \in Nat /\ Min({NoReplyCap, Max({T35, p})}) \in Nat
    BY NoReplyIs
  <2>2. NoReplyUs(p) + BaseGap + post \in Nat
    BY <1>17, <2>1
  <2>. QED BY <1>19, <2>1, <2>2, FinishTyped DEF TxNoReply
<1>20. CASE OwnerStops \/ UNCHANGED vars
  BY <1>20 DEF OwnerStops, vars, TypeOK, gate, ages, ghost, line
<1>. QED
  BY <1>1, <1>2, <1>3, <1>4, <1>5, <1>6, <1>7, <1>8, <1>9, <1>10, <1>11, <1>12,
     <1>13, <1>14, <1>15, <1>16, <1>18, <1>19, <1>20 DEF Next

LEMMA TypedInit == Init => TypeOK
<1>. SUFFICES ASSUME Init PROVE TypeOK
  OBVIOUS
<1>1. t \in Nat
  BY DEF Init
<1>2. Micros \in 0 .. UsWrap - 1 /\ Millis \in 0 .. MsWrap - 1
  BY <1>1, Readings DEF Micros, Millis
<1>3. Bounded(T35 + BaseGap) \in 0 .. MaxGate
  BY BoundedIs
<1>4. T35 \in 0 .. T35 /\ 0 \in 0 .. UsWrap - 1 /\ 0 \in 0 .. MaxGate /\ {0} \subseteq Nat
  OBVIOUS
<1>5. /\ gateUs = Micros /\ gateMs = Millis /\ gateDur = Bounded(T35 + BaseGap)
      /\ setAt = t
      /\ postGap = 0 /\ trafficMs = Millis /\ rxUs = 0
      /\ pc = "idle" /\ op = "none" /\ drainUs = 0 /\ post = 0
      /\ driver = "low" /\ wire = "quiet"
      /\ holdoff = Bounded(T35 + BaseGap) /\ preLeft = 0 /\ silence = T35
      /\ asked = 0 /\ erased = FALSE
  BY DEF Init
<1>6. /\ gateUs \in 0 .. UsWrap - 1 /\ gateMs \in 0 .. MsWrap - 1
      /\ gateDur \in 0 .. MaxGate /\ postGap \in 0 .. MaxGate /\ post \in 0 .. MaxGate
      /\ trafficMs \in 0 .. MsWrap - 1 /\ rxUs \in 0 .. UsWrap - 1
      /\ drainUs \in 0 .. UsWrap - 1 /\ silence \in 0 .. T35
  BY <1>2, <1>3, <1>4, <1>5
<1>7. {holdoff, preLeft, asked} \subseteq Nat
  BY <1>3, <1>5
<1>. QED BY <1>1, <1>5, <1>6, <1>7 DEF TypeOK

-----------------------------------------------------------------------------
(* The driver pin, the wire and the one-shot post-gap *)

LEMMA OrderInit == Init => Order /\ Gaps
BY DEF Init, Order, Gaps, Sending, After, Bounded

LEMMA OrderNext == TypeOK /\ Order /\ [Next]_vars => Order'
<1>. SUFFICES ASSUME TypeOK, Order, [Next]_vars PROVE Order'
  OBVIOUS
<1>1. CASE \/ \E d \in Rests, rx \in BOOLEAN : Rest(d, rx)
           \/ Begin \/ \E us \in PreGaps : SetPreTxGapUsOnce(us)
           \/ \E us \in PostGaps : SetPostTxGapUsOnce(us)
           \/ \E d \in 1 .. Lag, rx \in BOOLEAN : DrainLoop(d, rx)
           \/ \E d \in 1 .. Lag, rx \in BOOLEAN : GateWait(d, rx)
           \/ OwnerStops \/ UNCHANGED vars
  <2>1. UNCHANGED <<pc, driver, wire>>
    BY <1>1, Zenon DEF Rest, Begin, SetPreTxGapUsOnce, SetPostTxGapUsOnce, DrainLoop, GateWait,
          OwnerStops, vars, line
  <2>. QED BY <2>1 DEF Order
<1>2. CASE WriteCall \/ ReadCall \/ DrainIdle \/ DrainEscape \/ GateEnter
           \/ \E ok \in BOOLEAN : ReadDone(ok)
  <2>1. /\ pc \in {"idle", "drain", "readDone", "enter"}
        /\ pc' \in {"idle", "drain", "readDone", "enter", "gate"}
        /\ UNCHANGED <<driver, wire>>
    BY <1>2 DEF WriteCall, ReadCall, DrainCall, DrainIdle, DrainEscape, GateEnter, ReadDone, line
  <2>. QED BY <2>1 DEF Order, Sending
<1>3. CASE TxStart
  BY <1>3 DEF TxStart, Order, Sending
<1>4. ASSUME NEW whole \in BOOLEAN, TxWrite(whole) PROVE Order'
  <2>1. pc = "write" /\ pc' \in {"flush", "flushPart"} /\ driver' = driver
    BY <1>4 DEF TxWrite
  <2>. QED BY <2>1 DEF Order, Sending
<1>5. ASSUME NEW done \in BOOLEAN, TxFlush(done) PROVE Order'
  <2>1. /\ pc \in {"flush", "flushPart"} /\ pc' \in {"delay", "delayFail"}
        /\ driver' = driver /\ (pc' = "delay" => wire' = "lastChar")
    BY <1>5 DEF TxFlush
  <2>. QED BY <2>1 DEF Order, Sending
<1>6. CASE TxDelay
  <2>1. /\ pc \in {"delay", "delayFail"} /\ driver' = driver
        /\ wire' = IF wire = "lastChar" THEN "quiet" ELSE wire
        /\ pc' = IF pc = "delay" THEN "release" ELSE "releaseFail"
    BY <1>6 DEF TxDelay
  <2>. QED BY <2>1 DEF Order, Sending
<1>7. CASE TxRelease
  <2>1. /\ pc \in {"release", "releaseFail"} /\ driver' = "low" /\ wire' = wire
        /\ pc' = IF pc = "release" THEN "sent" ELSE "failed"
    BY <1>7 DEF TxRelease
  <2>. QED BY <2>1 DEF Order, Sending
<1>8. CASE TxFailed \/ TxReply \/ \E p \in ProcUs : TxNoReply(p)
  <2>1. /\ pc \in After /\ driver' = driver /\ wire' = "quiet" /\ pc' = "idle"
    BY <1>8 DEF TxFailed, TxReply, TxNoReply, Finish, After
  <2>. QED BY <2>1 DEF Order, Sending, After
<1>. QED BY <1>1, <1>2, <1>3, <1>4, <1>5, <1>6, <1>7, <1>8 DEF Next

LEMMA GapsNext == TypeOK /\ Gaps /\ [Next]_vars => Gaps'
<1>. SUFFICES ASSUME TypeOK, Gaps, [Next]_vars PROVE Gaps'
  OBVIOUS
<1>1. CASE \/ \E d \in Rests, rx \in BOOLEAN : Rest(d, rx)
           \/ \E us \in PreGaps : SetPreTxGapUsOnce(us)
           \/ \E d \in 1 .. Lag, rx \in BOOLEAN : DrainLoop(d, rx)
           \/ \E d \in 1 .. Lag, rx \in BOOLEAN : GateWait(d, rx)
           \/ OwnerStops \/ UNCHANGED vars
  <2>1. UNCHANGED <<pc, postGap, post, asked>>
    BY <1>1, Zenon DEF Rest, SetPreTxGapUsOnce, DrainLoop, GateWait, OwnerStops, vars, line, ghost
  <2>. QED BY <2>1 DEF Gaps, Bounded
<1>2. CASE WriteCall \/ ReadCall \/ DrainIdle \/ DrainEscape \/ GateEnter
           \/ \E ok \in BOOLEAN : ReadDone(ok)
  <2>1. /\ pc \in {"idle", "drain", "readDone", "enter"}
        /\ pc' \in {"idle", "drain", "readDone", "enter", "gate"}
        /\ UNCHANGED <<postGap, asked>>
    BY <1>2 DEF WriteCall, ReadCall, DrainCall, DrainIdle, DrainEscape, GateEnter, ReadDone, ghost
  <2>. QED BY <2>1 DEF Gaps, Sending, After, Bounded
<1>3. CASE Begin
  BY <1>3 DEF Begin, Gaps, Sending, After, Bounded
<1>4. ASSUME NEW us \in PostGaps, SetPostTxGapUsOnce(us) PROVE Gaps'
  <2>1. us \in Nat /\ asked \in Nat
    BY DEF TypeOK
  <2>2. asked' = IF asked >= us THEN asked ELSE us
    <3>1. Max({asked, us}) = IF asked >= us THEN asked ELSE us
      BY <2>1, MaxOf
    <3>. QED BY <1>4, <3>1 DEF SetPostTxGapUsOnce
  <2>3. /\ pc = "idle" /\ pc' = "idle"
        /\ postGap' = IF Bounded(us) > postGap THEN Bounded(us) ELSE postGap
    BY <1>4 DEF SetPostTxGapUsOnce
  <2>4. postGap = Bounded(asked)
    BY <2>3 DEF Gaps, Sending, After
  <2>5. postGap' = Bounded(asked')
    BY <2>1, <2>2, <2>3, <2>4 DEF Bounded
  <2>. QED BY <2>3, <2>5 DEF Gaps, Sending, After, Bounded
<1>5. CASE TxStart
  <2>1. pc = "gate" /\ pc' = "write" /\ post' = postGap /\ postGap' = 0 /\ asked' = asked
    BY <1>5 DEF TxStart, ghost
  <2>. QED BY <2>1 DEF Gaps, Sending, After, Bounded
<1>6. CASE \/ \E whole \in BOOLEAN : TxWrite(whole)
           \/ \E done \in BOOLEAN : TxFlush(done)
           \/ TxDelay \/ TxRelease
  <2>1. /\ pc \in Sending /\ pc' \in Sending \cup After
        /\ UNCHANGED <<postGap, post, asked>>
    BY <1>6 DEF TxWrite, TxFlush, TxDelay, TxRelease, Sending, After
  <2>. QED BY <2>1 DEF Gaps, Bounded
<1>7. CASE TxFailed \/ TxReply \/ \E p \in ProcUs : TxNoReply(p)
  <2>1. pc \in After /\ postGap' = postGap /\ asked' = 0 /\ pc' = "idle"
    BY <1>7 DEF TxFailed, TxReply, TxNoReply, Finish, After
  <2>. QED BY <2>1 DEF Gaps, Sending, After, Bounded
<1>. QED BY <1>1, <1>2, <1>3, <1>4, <1>5, <1>6, <1>7 DEF Next

-----------------------------------------------------------------------------
(* The gate covers the holdoff, the pre-gap and the silence *)

\* What is left by the clock is at least what is left in truth, and exactly
\* that within one turn of the clock.
LEMMA RemainingCovers ==
  ASSUME TypeOK, NEW g \in Int, gateUs = g % UsWrap
  PROVE  /\ g <= t => Remaining >= gateDur - (t - g)
         /\ g <= t /\ t - g < UsWrap /\ Remaining > 0 => Remaining = gateDur - (t - g)
         /\ t < g /\ g - t <= UsPerMs => Remaining = 0
<1>1. t \in Nat /\ t \in Int /\ gateDur \in 0 .. MaxGate /\ UsWrap \in Nat \ {0}
  BY DEF TypeOK
<1> DEFINE s == UsSince(gateUs)
<1>2. s = (t - g) % UsWrap
  BY <1>1, ModDiff, Zenon DEF UsSince, Micros
<1>3. /\ (t - g) % UsWrap \in 0 .. UsWrap - 1
      /\ t - g = UsWrap * ((t - g) \div UsWrap) + ((t - g) % UsWrap)
      /\ (t - g) \div UsWrap \in Int
  <2>1. t - g \in Int
    BY <1>1
  <2>. QED BY <1>1, <2>1, ModRange, Zenon
<1>4. Remaining = IF s >= gateDur THEN 0 ELSE gateDur - s
  BY DEF Remaining
<1> HIDE DEF s
<1>5. ASSUME g <= t PROVE s <= t - g /\ (t - g < UsWrap => s = t - g)
  <2>1. t - g \in Nat
    BY <1>1, <1>5
  <2>. QED BY <1>2, <2>1
<1>6. ASSUME t < g, g - t <= UsPerMs PROVE s >= MaxGate
  <2>1. t - g = UsWrap * (-1) + (UsWrap - (g - t))
    BY <1>1
  <2>2. UsWrap - (g - t) \in 0 .. UsWrap - 1
    BY <1>1, <1>6
  <2>3. t - g \in Int /\ -1 \in Int
    BY <1>1
  <2>4. (t - g) % UsWrap = UsWrap - (g - t)
    BY <1>1, <2>1, <2>2, <2>3, ModIs
  <2>. QED BY <1>1, <1>2, <1>6, <2>4
<1>7. s \in Nat
  BY <1>2, <1>3
<1>. QED BY <1>1, <1>4, <1>5, <1>6, <1>7

\* A gate that millis() takes to be over is over.
LEMMA CoarseIsOver ==
  ASSUME TypeOK, NEW g \in 0 .. t, gateMs = (g \div UsPerMs) % MsWrap, CoarseExpired
  PROVE  t - g > gateDur
<1> DEFINE c == (gateDur + UsPerMs - 1) \div UsPerMs
           q == t \div UsPerMs
           p == g \div UsPerMs
<1>1. t \in Nat /\ g \in Nat /\ gateDur \in Nat /\ UsPerMs \in Nat \ {0} /\ MsWrap \in Nat \ {0} /\ g <= t
  BY DEF TypeOK
<1>2. c \in Nat /\ UsPerMs * c >= gateDur
  BY <1>1, Rounded
<1>3. q \in Nat /\ p \in Nat /\ p <= q
  BY <1>1, DivOrder
<1>4. MsSince(gateMs) = (q - p) % MsWrap
  <2>1. q \in Int /\ p \in Int
    BY <1>3
  <2>. QED BY <1>1, <2>1, ModDiff, Zenon DEF MsSince, Millis
<1>5. MsSince(gateMs) > c
  BY DEF CoarseExpired
<1> HIDE DEF c, q, p
<1>6. (q - p) % MsWrap <= q - p
  <2>1. q - p \in Nat
    BY <1>3
  <2>. QED BY <1>1, <2>1
<1>7. (q - p) % MsWrap \in Int
  BY <1>1, <1>3
<1>8. q - p > c
  BY <1>2, <1>3, <1>4, <1>5, <1>6, <1>7
<1>9. t - g > UsPerMs * c
  BY <1>1, <1>2, <1>8, Coarsely DEF q, p
<1>10. UsPerMs * c \in Int
  BY <1>1, <1>2
<1>. QED BY ONLY <1>1, <1>2, <1>9, <1>10

\* When the watchdog bites, the line has been silent for T3.5.
LEMMA WatchdogIsIdle ==
  ASSUME TypeOK, Traffic, Watchdog, pc \notin After
  PROVE  silence = T35
<1>1. PICK h \in 0 .. t : /\ trafficMs = (h \div UsPerMs) % MsWrap
                          /\ silence = T35 \/ silence >= t - h
  BY DEF Traffic
<1> DEFINE q == t \div UsPerMs
           p == h \div UsPerMs
<1>2. /\ t \in Nat /\ h \in Nat /\ UsPerMs \in Nat \ {0} /\ MsWrap \in Nat \ {0} /\ h <= t
      /\ IdleResetMs \in Nat /\ T35 \in Nat /\ silence \in 0 .. T35
  BY DEF TypeOK
<1>3. q \in Nat /\ p \in Nat /\ p <= q
  BY <1>2, DivOrder
<1>4. MsSince(trafficMs) = (q - p) % MsWrap
  <2>1. q \in Int /\ p \in Int
    BY <1>3
  <2>. QED BY <1>1, <1>2, <2>1, ModDiff, Zenon DEF MsSince, Millis
<1>5. MsSince(trafficMs) > IdleResetMs
  BY DEF Watchdog
<1> HIDE DEF q, p
<1>6. (q - p) % MsWrap <= q - p
  <2>1. q - p \in Nat
    BY <1>3
  <2>. QED BY <1>2, <2>1
<1>7. (q - p) % MsWrap \in Int
  BY <1>2, <1>3
<1>8. q - p > IdleResetMs
  BY <1>2, <1>3, <1>4, <1>5, <1>6, <1>7
<1>9. t - h > UsPerMs * IdleResetMs
  BY <1>2, <1>8, Coarsely DEF q, p
<1>10. T35 <= UsPerMs * IdleResetMs /\ UsPerMs * IdleResetMs \in Int
  BY <1>2, GateAssumption
<1>. QED BY ONLY <1>1, <1>2, <1>9, <1>10

-----------------------------------------------------------------------------
(* The steps of the gate *)

LEMMA SpacingIs == Spacing \in Nat /\ Spacing <= T35 /\ Spacing <= MaxGate
BY DEF Spacing

\* A fresh gate covers what it is as long as.
LEMMA HeldReplace ==
  ASSUME TypeOK, TypeOK', t' = t, NEW us \in Nat, Replace(us),
         erased' \/ (holdoff' <= Bounded(us) /\ preLeft' <= Bounded(us)),
         pc' \in After \/ Spacing - silence' <= Bounded(us),
         pc' = "drain" => us = 0
  PROVE  Held'
<1>1. t \in Nat /\ t \in 0 .. t' /\ t' - t = 0
  BY DEF TypeOK
<1>2. gateUs' = t % UsWrap /\ gateMs' = (t \div UsPerMs) % MsWrap /\ gateDur' = Bounded(us)
  BY DEF Replace, Micros, Millis
<1>3. Bounded(us) \in Nat /\ (us = 0 => Bounded(us) = 0)
  BY BoundedIs
<1>4. gateDur' - (t' - t) = Bounded(us)
  BY <1>1, <1>2, <1>3
<1>5. Stamped(t)' /\ Covered(t)' /\ Recent(t)'
  BY <1>1, <1>2, <1>3, <1>4 DEF Stamped, Covered, Covers, Recent
<1>. QED BY <1>1, <1>5 DEF Held

\* The same gate covers what is left of them.
LEMMA HeldTime ==
  ASSUME TypeOK, Held, NEW d \in Nat, Elapse(d), UNCHANGED <<gate, erased, drainUs>>,
         pc' \in After <=> pc \in After,
         pc' = "drain" => pc = "drain" /\ ~EscapeDue /\ d <= Lag
  PROVE  Held'
<1>1. PICK g \in 0 .. t : Stamped(g) /\ Covered(g) /\ Recent(g)
  BY DEF Held
<1>2. /\ t \in Nat /\ g \in Nat /\ g <= t /\ gateDur \in Nat /\ holdoff \in Nat
      /\ preLeft \in Nat /\ silence \in 0 .. T35
  BY DEF TypeOK
<1>3. t' = t + d /\ silence' = IF T35 <= silence + d THEN T35 ELSE silence + d
  BY ElapseTyped
<1>4. /\ holdoff' = Less(holdoff, d) /\ preLeft' = Less(preLeft, d)
      /\ UNCHANGED <<gateUs, gateMs, gateDur, erased, drainUs>>
  BY DEF Elapse, gate
<1>5. ASSUME NEW x \in Nat, Covers(g, x) PROVE Less(x, d) <= 0 \/ Less(x, d) <= gateDur - (t' - g)
  BY <1>2, <1>3, <1>5 DEF Covers, Less
<1>6. Covered(g)'
  <2>1. erased \/ (Covers(g, holdoff)' /\ Covers(g, preLeft)')
    BY <1>1, <1>2, <1>4, <1>5 DEF Covered, Covers
  <2>2. pc \in After \/ Covers(g, Spacing - silence)'
    BY <1>1, <1>2, <1>3, <1>4, SpacingIs DEF Covered, Covers
  <2>. QED BY <1>4, <2>1, <2>2 DEF Covered
<1>7. Recent(g)'
  <2>. SUFFICES ASSUME pc' = "drain", gateDur' # 0
                PROVE  Recent(g)'
    BY DEF Recent
  <2>0. PICK b \in 0 .. t : \E n \in g .. b + UsPerMs :
          /\ Stamped(n) /\ b - n < gateDur + 2 * UsPerMs
          /\ drainUs = b % UsWrap /\ t - b < EscapeUs + Lag
    BY <1>1, <1>4 DEF Recent
  <2>1. PICK n \in g .. b + UsPerMs :
          /\ Stamped(n) /\ b - n < gateDur + 2 * UsPerMs
          /\ drainUs = b % UsWrap /\ t - b < EscapeUs + Lag
    BY <2>0
  <2>2. UsSince(drainUs) = (t - b) % UsWrap
    <3>1. t \in Int /\ b \in Int /\ UsWrap \in Nat \ {0}
      BY <1>2
    <3>. QED BY <2>1, <3>1, ModDiff, Zenon DEF UsSince, Micros
  <2>3. (t - b) % UsWrap = t - b
    <3>1. t - b \in 0 .. UsWrap - 1
      BY <1>2, <2>1
    <3>2. t - b = UsWrap * 0 + (t - b)
      BY <3>1
    <3>. QED BY <3>1, <3>2, ModIs
  <2>4. UsSince(drainUs) < EscapeUs
    <3>1. ~(UsSince(drainUs) >= EscapeUs)
      BY DEF EscapeDue
    <3>. QED BY <1>2, <2>1, <2>2, <2>3, <3>1
  <2>5. t' - b < EscapeUs + Lag /\ b \in 0 .. t'
    BY <1>2, <1>3, <2>1, <2>2, <2>3, <2>4
  <2>6. Stamped(n)'
    BY <1>4, <2>1 DEF Stamped
  <2>. QED BY <1>4, <2>1, <2>5, <2>6 DEF Recent
<1>8. Stamped(g)' /\ g \in 0 .. t'
  BY <1>1, <1>2, <1>3, <1>4 DEF Stamped
<1>. QED BY <1>6, <1>7, <1>8 DEF Held

\* Steps that leave the gate and the time alone.
LEMMA HeldKept ==
  ASSUME Held, UNCHANGED <<t, gate, holdoff, preLeft, silence, erased>>,
         pc \in After => pc' \in After, pc' # "drain"
  PROVE  Held'
<1>1. PICK g \in 0 .. t : Stamped(g) /\ Covered(g)
  BY DEF Held
<1>2. Stamped(g)' /\ Covered(g)' /\ Recent(g)'
  BY <1>1 DEF Stamped, Covered, Covers, Recent, gate
<1>. QED BY <1>2 DEF Held

\* What is covered fits into what is left by the clock.
LEMMA HeldFits ==
  ASSUME TypeOK, Held
  PROVE  /\ erased \/ (holdoff <= Remaining /\ preLeft <= Remaining)
         /\ pc \in After \/ Spacing - silence <= Remaining
<1>1. PICK g \in 0 .. t : Stamped(g) /\ Covered(g)
  BY DEF Held
<1>2. /\ t \in Nat /\ g \in Int /\ g <= t /\ gateDur \in Nat /\ holdoff \in Nat
      /\ preLeft \in Nat /\ silence \in 0 .. T35
  BY DEF TypeOK
<1>3. gateUs = g % UsWrap
  BY <1>1 DEF Stamped
<1>4. Remaining >= gateDur - (t - g) /\ Remaining \in Nat
  BY <1>2, <1>3, RemainingCovers, RemainingType
<1>. QED BY <1>1, <1>2, <1>4, SpacingIs DEF Covered, Covers

\* A pre-gap: the gate may only be extended.
LEMMA HeldPreGap ==
  ASSUME TypeOK, TypeOK', Held, NEW us \in PreGaps, SetPreTxGapUsOnce(us)
  PROVE  Held'
<1>1. /\ us \in Nat /\ holdoff \in Nat /\ preLeft \in Nat /\ silence \in 0 .. T35
      /\ Bounded(us) \in 0 .. MaxGate
  BY BoundedIs DEF TypeOK
<1>2. Max({preLeft, Bounded(us)}) = IF preLeft >= Bounded(us) THEN preLeft ELSE Bounded(us)
  BY <1>1, MaxOf
<1>3. /\ pc = "idle" /\ pc' = "idle" /\ Extend(us)
      /\ preLeft' = IF Swallowed(us) THEN preLeft
                    ELSE IF preLeft >= Bounded(us) THEN preLeft ELSE Bounded(us)
      /\ UNCHANGED <<t, holdoff, silence, erased>>
  BY <1>2 DEF SetPreTxGapUsOnce
<1>4. Remaining \in Nat /\ gateDur \in 0 .. MaxGate
  BY RemainingType
<1>5. CASE Bounded(us) > Remaining
  <2>1. Replace(us)
    BY <1>3, <1>5 DEF Extend
  <2>2. erased' \/ (holdoff' <= Bounded(us) /\ preLeft' <= Bounded(us))
    BY <1>1, <1>3, <1>4, <1>5, HeldFits
  <2>3. Spacing - silence' <= Bounded(us)
    BY <1>1, <1>3, <1>4, <1>5, HeldFits, SpacingIs DEF After
  <2>. QED BY <1>1, <1>3, <2>1, <2>2, <2>3, HeldReplace
<1>6. CASE Bounded(us) <= Remaining
  <2>1. UNCHANGED gate
    BY <1>1, <1>3, <1>4, <1>6 DEF Extend
  <2>2. CASE ~Live
    <3>1. preLeft' = preLeft
      BY <1>3, <1>6, <2>2 DEF Swallowed
    <3>. QED BY <1>3, <2>1, <3>1, HeldKept
  <2>3. CASE Live
    <3>1. PICK g \in 0 .. t : Stamped(g) /\ Covered(g)
      BY DEF Held
    <3>2. t \in Nat /\ g \in Int /\ g <= t /\ gateUs = g % UsWrap /\ MaxGate < UsWrap
      BY <3>1 DEF Stamped, TypeOK
    <3>3. ASSUME ~erased PROVE Bounded(us) <= gateDur - (t - g)
      <4>1. gateDur - (t - g) > 0
        BY <1>1, <1>4, <2>3, <3>1, <3>2, <3>3 DEF Live, Covered, Covers
      <4>2. Remaining >= gateDur - (t - g) /\ t - g < UsWrap
        BY <1>4, <3>2, <4>1, RemainingCovers
      <4>3. Remaining = gateDur - (t - g)
        BY <1>4, <3>2, <4>1, <4>2, RemainingCovers
      <4>. QED BY <1>6, <4>3
    <3>4. /\ UNCHANGED <<gateUs, gateMs, gateDur, t, holdoff, silence, erased>>
          /\ preLeft' = preLeft \/ preLeft' = Bounded(us)
      BY <1>3, <2>1 DEF gate
    <3>5. Covered(g)'
      BY <1>1, <1>3, <3>1, <3>3, <3>4 DEF Covered, Covers
    <3>6. Stamped(g)' /\ Recent(g)'
      BY <1>3, <3>1, <3>4 DEF Stamped, Recent
    <3>. QED BY <3>4, <3>5, <3>6 DEF Held
  <2>. QED BY <2>2, <2>3
<1>. QED BY <1>1, <1>4, <1>5, <1>6

\* The rules that drop a gate drop one that is over, or say so.
LEMMA HeldDropped ==
  ASSUME TypeOK, TypeOK', Held, Traffic, pc \notin After, CoarseExpired \/ Watchdog,
         Replace(0), UNCHANGED <<t, ages>>, erased' = (erased \/ (Watchdog /\ Live))
  PROVE  Held'
<1>1. PICK g \in 0 .. t : Stamped(g) /\ Covered(g)
  BY DEF Held
<1>2. /\ t \in Nat /\ g \in Int /\ g <= t /\ gateDur \in Nat /\ holdoff \in Nat
      /\ preLeft \in Nat /\ silence \in 0 .. T35 /\ 0 \in Nat
  BY DEF TypeOK
<1>3. Bounded(0) = 0
  BY BoundedIs
<1>4. UNCHANGED <<t, holdoff, preLeft, silence>>
  BY DEF ages
<1>5. ASSUME CoarseExpired PROVE t - g > gateDur
  BY <1>1, <1>5, CoarseIsOver DEF Stamped
<1>6. erased' \/ (holdoff' <= 0 /\ preLeft' <= 0)
  <2>0. (erased => erased') /\ (Watchdog /\ Live => erased')
    BY Zenon DEF TypeOK
  <2>1. CASE Watchdog
    BY <1>2, <1>4, <2>0, <2>1 DEF Live
  <2>2. CASE CoarseExpired
    <3>1. erased \/ (holdoff <= 0 /\ preLeft <= 0)
      BY <1>1, <1>2, <1>5, <2>2 DEF Covered, Covers
    <3>. QED BY <1>4, <2>0, <3>1
  <2>. QED BY <2>1, <2>2
<1>7. Spacing - silence' <= 0
  <2>1. CASE Watchdog
    BY <1>2, <1>4, <2>1, WatchdogIsIdle, SpacingIs
  <2>2. CASE CoarseExpired
    BY <1>1, <1>2, <1>4, <1>5, <2>2, SpacingIs DEF Covered, Covers
  <2>. QED BY <2>1, <2>2
<1>. QED BY <1>2, <1>3, <1>4, <1>6, <1>7, HeldReplace

\* millis() does not let a gate pass that is long over, but for whole turns of
\* its own.
LEMMA RecentDrain ==
  ASSUME TypeOK, NEW g \in 0 .. t, Stamped(g), gateDur # 0, ~CoarseExpired
  PROVE  \E n \in g .. t + UsPerMs : Stamped(n) /\ t - n < gateDur + 2 * UsPerMs
<1> DEFINE c == (gateDur + UsPerMs - 1) \div UsPerMs
           q == t \div UsPerMs
           p == g \div UsPerMs
<1>1. t \in Nat /\ g \in Nat /\ gateDur \in Nat /\ UsPerMs \in Nat \ {0} /\ MsWrap \in Nat \ {0}
      /\ UsWrap \in Nat \ {0} /\ g <= t
  BY DEF TypeOK
<1>2. c \in Nat /\ UsPerMs * c < gateDur + UsPerMs
  BY <1>1, Rounded
<1> DEFINE n == LastTurn(t, g, UsPerMs, MsWrap)
<1>3. /\ n \in Nat /\ g <= n
      /\ (n \div UsPerMs) + TicksSince(t, g, UsPerMs, MsWrap) = q
      /\ (n \div UsPerMs) % MsWrap = p % MsWrap
  <2>1. n \in Nat
    BY <1>1, TurnIs, Zenon
  <2>2. g <= n
    BY <1>1, TurnIs, Zenon
  <2>3. (n \div UsPerMs) + TicksSince(t, g, UsPerMs, MsWrap) = q
    BY <1>1, TurnIs, Zenon
  <2>4. (n \div UsPerMs) % MsWrap = p % MsWrap
    BY ONLY <1>1, TurnIs, ZenonT(40)
  <2>. QED BY <2>1, <2>2, <2>3, <2>4
<1>4. n % UsWrap = g % UsWrap
  BY <1>1, TurnUnseen, GateAssumption
<1>5. MsSince(gateMs) = TicksSince(t, g, UsPerMs, MsWrap)
  <2>1. q \in Int /\ p \in Int
    BY <1>1, DivNat
  <2>. QED BY <1>1, <2>1, ModDiff, Zenon DEF MsSince, Millis, Stamped, TicksSince
<1>6. TicksSince(t, g, UsPerMs, MsWrap) \in 0 .. MsWrap - 1
  <2>1. q - p \in Int
    BY <1>1, DivNat
  <2>. QED BY <1>1, <2>1, ModRange, Zenon DEF TicksSince
<1>7. ~(MsSince(gateMs) > c)
  BY DEF CoarseExpired
<1> DEFINE m == n \div UsPerMs
<1>8. m \in Nat /\ q \in Nat
  BY <1>1, <1>3, DivNat, Zenon
<1> HIDE DEF c, q, p, n
<1>9. q - m <= c /\ q - m \in Nat
  BY <1>2, <1>3, <1>5, <1>6, <1>7, <1>8
<1>10. t - n < UsPerMs * c + UsPerMs
  BY <1>1, <1>2, <1>3, <1>9, Coarsely DEF q
<1>11. n - t < UsPerMs * 0 + UsPerMs
  <2>1. m - q <= 0 /\ 0 \in Nat
    BY <1>8, <1>9
  <2>. QED BY <1>1, <1>3, <2>1, Coarsely DEF q
<1>12. UsPerMs * c \in Int
  BY <1>1, <1>2
<1> HIDE DEF m
<1>13. t - n < gateDur + 2 * UsPerMs /\ n \in g .. t + UsPerMs
  BY ONLY <1>1, <1>2, <1>3, <1>10, <1>11, <1>12
<1>14. Stamped(n)
  BY <1>3, <1>4 DEF Stamped, p
<1>. QED BY <1>13, <1>14

LEMMA HeldDrainCall ==
  ASSUME TypeOK, TypeOK', Held, Traffic, NEW o \in {"read", "write"}, DrainCall(o)
  PROVE  Held'
<1>1. /\ pc = "idle" /\ pc' = "drain" /\ drainUs' = Micros
      /\ erased' = (erased \/ (Watchdog /\ Live))
      /\ UNCHANGED <<t, ages>>
      /\ IF CoarseExpired \/ Watchdog THEN Replace(0) ELSE UNCHANGED gate
  BY DEF DrainCall
<1>2. CASE CoarseExpired \/ Watchdog
  BY <1>1, <1>2, HeldDropped DEF After
<1>3. CASE ~CoarseExpired /\ ~Watchdog
  <2>1. PICK g \in 0 .. t : Stamped(g) /\ Covered(g)
    BY DEF Held
  <2>2. UNCHANGED <<t, gateUs, gateMs, gateDur, holdoff, preLeft, silence>> /\ drainUs' = Micros
    BY <1>1, <1>3 DEF gate, ages
  <2>3. erased' <=> erased
    BY <1>1, <1>3, Zenon DEF TypeOK
  <2>4. Stamped(g)'
    BY <2>1, <2>2 DEF Stamped
  <2>5. Covered(g)'
    BY <1>1, <2>1, <2>2, <2>3 DEF Covered, Covers, After
  <2>6. Recent(g)'
    <3>. SUFFICES ASSUME gateDur' # 0 PROVE Recent(g)'
      BY DEF Recent
    <3>1. PICK n \in g .. t + UsPerMs : Stamped(n) /\ t - n < gateDur + 2 * UsPerMs
      BY <1>3, <2>1, <2>2, RecentDrain
    <3>2. Stamped(n)'
      BY <2>2, <3>1 DEF Stamped
    <3>3. t \in 0 .. t' /\ t' - t < EscapeUs + Lag /\ drainUs' = t % UsWrap
      BY <2>2 DEF TypeOK, Micros
    <3>. QED BY <2>2, <3>1, <3>2, <3>3 DEF Recent
  <2>. QED BY <2>2, <2>4, <2>5, <2>6 DEF Held
<1>. QED BY <1>2, <1>3

\* The drain ends on an idle line: the extra gap counts from now.
LEMMA HeldDrainIdle == ASSUME TypeOK, TypeOK', Held, DrainIdle PROVE Held'
<1>1. /\ holdoff \in Nat /\ preLeft \in Nat /\ silence \in 0 .. T35 /\ t \in Nat
      /\ Bounded(BaseGap) \in 0 .. MaxGate
  BY BoundedIs DEF TypeOK
<1>2. Max({holdoff, Bounded(BaseGap)})
        = IF holdoff >= Bounded(BaseGap) THEN holdoff ELSE Bounded(BaseGap)
  BY <1>1, MaxOf
<1>3. /\ pc = "drain" /\ pc' \in {"enter", "readDone"} /\ Extend(BaseGap)
      /\ holdoff' = IF holdoff >= Bounded(BaseGap) THEN holdoff ELSE Bounded(BaseGap)
      /\ UNCHANGED <<t, preLeft, silence, erased>>
  BY <1>2 DEF DrainIdle
<1>4. Remaining \in Nat /\ gateDur \in 0 .. MaxGate
  BY RemainingType
<1>5. CASE Bounded(BaseGap) > Remaining
  <2>1. Replace(BaseGap)
    BY <1>3, <1>5 DEF Extend
  <2>2. erased' \/ (holdoff' <= Bounded(BaseGap) /\ preLeft' <= Bounded(BaseGap))
    BY <1>1, <1>3, <1>4, <1>5, HeldFits
  <2>3. Spacing - silence' <= Bounded(BaseGap)
    BY <1>1, <1>3, <1>4, <1>5, HeldFits, SpacingIs DEF After
  <2>. QED BY <1>3, <2>1, <2>2, <2>3, HeldReplace
<1>6. CASE Bounded(BaseGap) <= Remaining
  <2>1. UNCHANGED gate
    BY <1>1, <1>3, <1>4, <1>6 DEF Extend
  <2>2. PICK g \in 0 .. t : Stamped(g) /\ Covered(g) /\ Recent(g)
    BY DEF Held
  <2>3. CASE Bounded(BaseGap) = 0
    <3>1. holdoff' = holdoff
      BY <1>1, <1>3, <2>3
    <3>. QED BY <1>3, <2>1, <3>1, HeldKept DEF After
  <2>4. CASE Bounded(BaseGap) # 0
    <3>1. Remaining > 0 /\ gateDur # 0
      BY <1>1, <1>4, <1>6, <2>4, RemainingType
    <3>2. PICK d \in 0 .. t : \E n \in g .. d + UsPerMs :
             Stamped(n) /\ d - n < gateDur + 2 * UsPerMs /\ t - d < EscapeUs + Lag
      BY <1>3, <2>2, <3>1 DEF Recent
    <3>3. PICK n \in g .. d + UsPerMs :
             Stamped(n) /\ d - n < gateDur + 2 * UsPerMs /\ t - d < EscapeUs + Lag
      BY <3>2
    <3>4. /\ n \in Int /\ g <= n /\ d <= t /\ n <= d + UsPerMs /\ gateUs = n % UsWrap
          /\ g \in Nat /\ d \in Nat
      BY <1>1, <2>2, <3>3 DEF Stamped
    <3>5. n <= t
      <4>1. CASE n > t
        BY <1>1, <3>1, <3>4, <4>1, RemainingCovers
      <4>. QED BY <1>1, <3>4, <4>1
    <3>6. t - n < UsWrap
      BY <1>1, <1>4, <3>3, <3>4
    <3>7. Remaining = gateDur - (t - n)
      BY <1>1, <3>1, <3>4, <3>5, <3>6, RemainingCovers
    <3>8. UNCHANGED <<t, gateUs, gateMs, gateDur, preLeft, silence, erased>>
      BY <1>3, <2>1 DEF gate
    <3>9. ASSUME NEW x \in Int, Covers(g, x) PROVE Covers(n, x)
      BY <1>1, <1>4, <3>4, <3>9 DEF Covers
    <3>10. Spacing - silence \in Int
      BY <1>1, SpacingIs
    <3>11. Covered(n)
      BY <1>1, <2>2, <3>9, <3>10 DEF Covered
    <3>12. Covered(n)'
      BY <1>1, <1>3, <1>6, <3>7, <3>8, <3>11 DEF Covered, Covers, After
    <3>13. Stamped(n)' /\ Recent(n)' /\ n \in 0 .. t'
      BY <1>1, <1>3, <3>3, <3>4, <3>5, <3>8 DEF Stamped, Recent
    <3>. QED BY <3>12, <3>13 DEF Held
  <2>. QED BY <2>3, <2>4
<1>. QED BY <1>1, <1>4, <1>5, <1>6

\* The fresh gate of begin() and of a drain that gives up.
LEMMA HeldFresh == ASSUME TypeOK, TypeOK', Begin \/ DrainEscape PROVE Held'
<1>1. /\ holdoff \in Nat /\ preLeft \in Nat /\ silence \in 0 .. T35 /\ t \in Nat
      /\ T35 + BaseGap \in Nat
      /\ Bounded(T35 + BaseGap) \in Nat /\ Bounded(T35 + BaseGap) >= T35
  BY BoundedIs DEF TypeOK
<1>2. /\ t' = t /\ Replace(T35 + BaseGap) /\ silence' = silence /\ pc' = "idle"
  BY DEF Begin, DrainEscape
<1>3. erased' \/ (holdoff' <= Bounded(T35 + BaseGap) /\ preLeft' <= Bounded(T35 + BaseGap))
  <2>1. CASE Begin
    BY <1>1, <2>1 DEF Begin
  <2>2. CASE DrainEscape
    <3>1. ASSUME NEW a \in Nat, NEW b \in Nat PROVE Max({a, b}) = IF a >= b THEN a ELSE b
      BY MaxOf
    <3>2. CASE Max({holdoff, preLeft}) > Bounded(T35 + BaseGap)
      BY <2>2, <3>2, Zenon DEF DrainEscape
    <3>3. CASE ~(Max({holdoff, preLeft}) > Bounded(T35 + BaseGap))
      <4>1. holdoff <= Bounded(T35 + BaseGap) /\ preLeft <= Bounded(T35 + BaseGap)
        BY <1>1, <3>1, <3>3
      <4>2. /\ holdoff' = Max({holdoff, Bounded(T35 + BaseGap)}) /\ preLeft' = preLeft
        BY <2>2 DEF DrainEscape
      <4>. QED BY <1>1, <3>1, <4>1, <4>2
    <3>. QED BY <3>2, <3>3
  <2>. QED BY <2>1, <2>2
<1>4. Spacing - silence' <= Bounded(T35 + BaseGap)
  BY <1>1, <1>2, SpacingIs
<1>. QED BY <1>1, <1>2, <1>3, <1>4, HeldReplace

\* The gate a frame leaves behind is as long as what the next one has to wait.
LEMMA HeldFinish ==
  ASSUME TypeOK, TypeOK', Gaps, pc \in After, NEW us \in Nat, NEW owed \in Nat,
         Finish(us + BaseGap + post, owed), owed <= us,
         us + BaseGap >= Spacing
  PROVE  Held'
<1>1. post = Bounded(asked)
  BY DEF Gaps
<1>2. /\ asked \in Nat /\ silence \in 0 .. T35 /\ post \in Nat
  BY DEF TypeOK
<1>3. Bounded(owed + BaseGap + asked) <= Bounded(us + BaseGap + post)
  BY <1>1, <1>2 DEF Bounded
<1>4. Bounded(us + BaseGap + post) >= Spacing
  BY <1>2, SpacingIs DEF Bounded
<1>5. /\ t' = t /\ Replace(us + BaseGap + post) /\ silence' = silence /\ pc' = "idle"
      /\ holdoff' = Bounded(owed + BaseGap + asked) /\ preLeft' = 0
  BY DEF Finish
<1>6. us + BaseGap + post \in Nat /\ owed + BaseGap + asked \in Nat
  BY <1>2
<1>7. Bounded(us + BaseGap + post) \in Nat /\ Bounded(owed + BaseGap + asked) \in Nat
  BY <1>6, BoundedIs
<1>8. Spacing - silence' <= Bounded(us + BaseGap + post)
  BY <1>2, <1>4, <1>5, <1>7, SpacingIs
<1>9. holdoff' <= Bounded(us + BaseGap + post) /\ preLeft' <= Bounded(us + BaseGap + post)
  BY <1>3, <1>5, <1>7
<1>. QED BY <1>5, <1>6, <1>8, <1>9, HeldReplace

LEMMA HeldInit == Init => Held
<1>. SUFFICES ASSUME Init PROVE Held
  OBVIOUS
<1>1. /\ t \in Nat /\ T35 + BaseGap \in Nat
  BY DEF Init
<1>2. Bounded(T35 + BaseGap) \in Nat
  BY <1>1, BoundedIs
<1>3. /\ gateUs = t % UsWrap /\ gateMs = (t \div UsPerMs) % MsWrap
      /\ gateDur = Bounded(T35 + BaseGap) /\ holdoff = Bounded(T35 + BaseGap)
      /\ preLeft = 0 /\ silence = T35 /\ pc = "idle"
  BY DEF Init, Micros, Millis
<1>4. Stamped(t) /\ Recent(t)
  BY <1>3 DEF Stamped, Recent
<1>5. Covered(t)
  BY <1>1, <1>2, <1>3, SpacingIs DEF Covered, Covers
<1>6. t \in 0 .. t
  BY <1>1
<1>. QED BY <1>4, <1>5, <1>6 DEF Held

LEMMA HeldNext == TypeOK /\ Gaps /\ Held /\ Traffic /\ [Next]_vars => Held'
<1>. SUFFICES ASSUME TypeOK, Gaps, Held, Traffic, [Next]_vars PROVE Held'
  OBVIOUS
<1>0. TypeOK'
  BY TypedNext
<1>1. ASSUME NEW d \in Rests, NEW rx \in BOOLEAN, Rest(d, rx) PROVE Held'
  <2>1. /\ Elapse(d) /\ UNCHANGED <<gate, erased, drainUs>> /\ d \in Nat
        /\ pc = "idle" /\ pc' = pc
    BY <1>1 DEF Rest, Pass
  <2>. QED BY <2>1, HeldTime
<1>2. CASE Begin \/ DrainEscape
  BY <1>0, <1>2, HeldFresh
<1>3. ASSUME NEW us \in PreGaps, SetPreTxGapUsOnce(us) PROVE Held'
  BY <1>0, <1>3, HeldPreGap
<1>4. CASE WriteCall \/ ReadCall
  BY <1>0, <1>4, HeldDrainCall DEF WriteCall, ReadCall
<1>5. CASE DrainIdle
  BY <1>0, <1>5, HeldDrainIdle
<1>6. ASSUME NEW d \in 1 .. Lag, NEW rx \in BOOLEAN, DrainLoop(d, rx) PROVE Held'
  <2>1. /\ Elapse(d) /\ UNCHANGED <<gate, erased, drainUs>> /\ d \in Nat /\ d <= Lag
        /\ pc = "drain" /\ pc' = pc /\ ~EscapeDue
    BY <1>6 DEF DrainLoop, Pass
  <2>. QED BY <2>1, HeldTime
<1>7. CASE GateEnter
  <2>1. /\ pc = "enter" /\ pc' = "gate" /\ UNCHANGED <<t, ages>>
        /\ erased' = (erased \/ (Watchdog /\ Live))
        /\ IF Watchdog THEN Replace(0) ELSE UNCHANGED gate
    BY <1>7 DEF GateEnter
  <2>2. CASE Watchdog
    BY <1>0, <2>1, <2>2, HeldDropped DEF After
  <2>3. CASE ~Watchdog
    <3>1. erased' = erased
      BY <2>1, <2>3, Zenon DEF TypeOK
    <3>2. UNCHANGED <<t, gate, holdoff, preLeft, silence>>
      BY <2>1, <2>3 DEF ages
    <3>. QED BY <2>1, <3>1, <3>2, HeldKept DEF After
  <2>. QED BY <2>2, <2>3
<1>8. ASSUME NEW d \in 1 .. Lag, NEW rx \in BOOLEAN, GateWait(d, rx) PROVE Held'
  <2>1. /\ Elapse(d) /\ UNCHANGED <<gate, erased, drainUs>> /\ d \in Nat
        /\ pc = "gate" /\ pc' = pc
    BY <1>8 DEF GateWait, Pass
  <2>. QED BY <2>1, HeldTime
<1>9. CASE \/ \E whole \in BOOLEAN : TxWrite(whole)
           \/ \E done \in BOOLEAN : TxFlush(done)
           \/ TxDelay
  <2>1. /\ Elapse(1) /\ UNCHANGED <<gate, erased, drainUs>>
        /\ pc \notin After /\ pc' \notin After /\ pc' # "drain"
    BY <1>9 DEF TxWrite, TxFlush, TxDelay, After
  <2>. QED BY <2>1, HeldTime
<1>10. CASE \/ \E us \in PostGaps : SetPostTxGapUsOnce(us)
            \/ \E ok \in BOOLEAN : ReadDone(ok)
            \/ TxStart
  <2>1. /\ UNCHANGED <<t, gate, holdoff, preLeft, silence, erased>>
        /\ pc \notin After /\ pc' # "drain"
    BY <1>10 DEF SetPostTxGapUsOnce, ReadDone, TxStart, ages, ghost, After
  <2>. QED BY <2>1, HeldKept
<1>11. CASE TxRelease
  <2>1. /\ UNCHANGED <<t, gateUs, gateMs, gateDur, holdoff, preLeft, erased>>
        /\ pc' \in After
    BY <1>11 DEF TxRelease, gate, After
  <2>2. PICK g \in 0 .. t : Stamped(g) /\ Covered(g)
    BY DEF Held
  <2>3. Stamped(g)' /\ Covered(g)' /\ Recent(g)'
    BY <2>1, <2>2 DEF Stamped, Covered, Covers, Recent, After
  <2>. QED BY <2>1, <2>3 DEF Held
<1>12. CASE TxFailed \/ TxReply
  <2>1. Finish(T35 + BaseGap + post, T35) /\ pc \in After
    BY <1>12 DEF TxFailed, TxReply, After
  <2>2. T35 + BaseGap >= Spacing
    BY SpacingIs DEF Spacing
  <2>. QED BY <1>0, <2>1, <2>2, HeldFinish
<1>13. ASSUME NEW p \in ProcUs, TxNoReply(p) PROVE Held'
  <2>1. Finish(NoReplyUs(p) + BaseGap + post, NoReplyUs(p)) /\ pc \in After
    BY <1>13, NoReplyIs DEF TxNoReply, After
  <2>2. NoReplyUs(p) + BaseGap >= Spacing /\ NoReplyUs(p) \in Nat /\ NoReplyUs(p) <= NoReplyUs(p)
    <3>1. NoReplyUs(p) \in Nat /\ (NoReplyUs(p) >= T35 \/ NoReplyUs(p) = NoReplyCap)
      BY NoReplyIs
    <3>. HIDE DEF NoReplyUs
    <3>. QED BY <3>1 DEF Spacing
  <2>. QED BY <1>0, <2>1, <2>2, HeldFinish
<1>14. CASE OwnerStops \/ UNCHANGED vars
  <2>1. UNCHANGED <<t, gateUs, gateMs, gateDur, holdoff, preLeft, silence, erased, pc, drainUs>>
    BY <1>14 DEF OwnerStops, vars, gate, ages, ghost
  <2>. QED BY <2>1 DEF Held, Stamped, Covered, Covers, Recent
<1>. QED
  BY <1>1, <1>2, <1>3, <1>4, <1>5, <1>6, <1>7, <1>8, <1>9, <1>10, <1>11, <1>12,
     <1>13, <1>14 DEF Next

-----------------------------------------------------------------------------
(* The traffic time *)

LEMMA TrafficInit == Init => Traffic
<1>. SUFFICES ASSUME Init PROVE Traffic
  OBVIOUS
<1>1. t \in 0 .. t /\ trafficMs = (t \div UsPerMs) % MsWrap /\ silence = T35
  BY DEF Init, Millis
<1>. QED BY <1>1 DEF Traffic

LEMMA TrafficNow ==
  ASSUME TypeOK, t' = t, trafficMs' = Millis, silence' \in Nat
  PROVE  Traffic'
<1>1. t \in 0 .. t' /\ t' - t = 0 /\ trafficMs' = (t \div UsPerMs) % MsWrap
  BY DEF TypeOK, Millis
<1>. QED BY <1>1 DEF Traffic

LEMMA TrafficKept ==
  ASSUME TypeOK, Traffic, UNCHANGED <<t, trafficMs>>,
         pc' \in After \/ (pc \notin After /\ silence' = silence)
  PROVE  Traffic'
BY DEF Traffic, TypeOK

LEMMA TrafficElapse ==
  ASSUME TypeOK, Traffic, NEW d \in Nat, Elapse(d), trafficMs' = trafficMs,
         pc \notin After
  PROVE  Traffic'
<1>1. PICK h \in 0 .. t : /\ trafficMs = (h \div UsPerMs) % MsWrap
                          /\ silence = T35 \/ silence >= t - h
  BY DEF Traffic
<1>2. t \in Nat /\ silence \in 0 .. T35
  BY DEF TypeOK
<1>3. t' = t + d /\ silence' = IF T35 <= silence + d THEN T35 ELSE silence + d
  BY ElapseTyped
<1>4. h \in 0 .. t' /\ (silence' = T35 \/ silence' >= t' - h)
  BY <1>1, <1>2, <1>3
<1>. QED BY <1>1, <1>4 DEF Traffic

LEMMA TrafficPass ==
  ASSUME TypeOK, Traffic, NEW d \in Nat, NEW rx \in BOOLEAN, Pass(d, rx),
         pc \notin After
  PROVE  Traffic'
<1>1. CASE rx
  <2>1. t' = t + d /\ silence' \in Nat /\ t' \in Nat
    BY ElapseTyped DEF Pass
  <2>2. t' \in 0 .. t' /\ t' - t' = 0 /\ trafficMs' = (t' \div UsPerMs) % MsWrap
    BY <1>1, <2>1 DEF Pass
  <2>. QED BY <2>1, <2>2 DEF Traffic
<1>2. CASE ~rx
  BY <1>2, TrafficElapse DEF Pass
<1>. QED BY <1>1, <1>2

LEMMA TrafficNext == TypeOK /\ Traffic /\ [Next]_vars => Traffic'
<1>. SUFFICES ASSUME TypeOK, Traffic, [Next]_vars PROVE Traffic'
  OBVIOUS
<1>0. silence' \in Nat
  BY TypedNext DEF TypeOK
<1>1. ASSUME NEW d \in Rests, NEW rx \in BOOLEAN, Rest(d, rx) PROVE Traffic'
  BY <1>1, TrafficPass DEF Rest, After
<1>2. ASSUME NEW d \in 1 .. Lag, NEW rx \in BOOLEAN, DrainLoop(d, rx) \/ GateWait(d, rx)
      PROVE  Traffic'
  BY <1>2, TrafficPass DEF DrainLoop, GateWait, After
<1>3. CASE \/ Begin \/ DrainEscape \/ TxFailed \/ TxReply
           \/ \E p \in ProcUs : TxNoReply(p)
  <2>1. t' = t /\ trafficMs' = Millis
    BY <1>3 DEF Begin, DrainEscape, TxFailed, TxReply, TxNoReply, Finish
  <2>. QED BY <1>0, <2>1, TrafficNow
<1>4. CASE \/ \E us \in PreGaps : SetPreTxGapUsOnce(us)
           \/ \E us \in PostGaps : SetPostTxGapUsOnce(us)
           \/ WriteCall \/ ReadCall \/ DrainIdle \/ GateEnter \/ TxStart
  <2>1. UNCHANGED <<t, trafficMs, silence>> /\ pc \notin After
    BY <1>4 DEF SetPreTxGapUsOnce, SetPostTxGapUsOnce, WriteCall, ReadCall, DrainCall,
          DrainIdle, GateEnter, TxStart, ages, ghost, After
  <2>. QED BY <2>1, TrafficKept
<1>5. ASSUME NEW ok \in BOOLEAN, ReadDone(ok) PROVE Traffic'
  <2>1. UNCHANGED <<t, silence>> /\ pc \notin After /\ trafficMs' \in {Millis, trafficMs}
    BY <1>5 DEF ReadDone, ages, ghost, After
  <2>. QED BY <1>0, <2>1, TrafficKept, TrafficNow
<1>6. CASE \/ \E whole \in BOOLEAN : TxWrite(whole)
           \/ \E done \in BOOLEAN : TxFlush(done)
           \/ TxDelay
  <2>1. Elapse(1) /\ trafficMs' = trafficMs /\ pc \notin After /\ 1 \in Nat
    BY <1>6 DEF TxWrite, TxFlush, TxDelay, After
  <2>. QED BY <2>1, TrafficElapse
<1>7. CASE TxRelease
  BY <1>7, TrafficKept DEF TxRelease, After
<1>8. CASE OwnerStops \/ UNCHANGED vars
  <2>1. UNCHANGED <<t, trafficMs, silence, pc>>
    BY <1>8 DEF OwnerStops, vars, ages, ghost
  <2>. QED BY <2>1 DEF Traffic
<1>. QED BY <1>1, <1>2, <1>3, <1>4, <1>5, <1>6, <1>7, <1>8 DEF Next

-----------------------------------------------------------------------------
(* No wait for a dead gate *)

\* What is left of the gate.
Left == gateDur - (t - setAt)

\* The gate is never longer than what it was set for.
Owed == /\ setAt <= t /\ Stamped(setAt)
        /\ Left <= 0 \/ Left <= holdoff \/ Left <= preLeft

\* A gate that a frame is going to wait for is not so old that micros() takes
\* it for a younger one.
Young ==
  gateDur # 0 =>
    /\ pc = "drain" => \E d \in setAt .. t : /\ d - setAt < gateDur + 2 * UsPerMs
                                             /\ drainUs = d % UsWrap
                                             /\ t - d < EscapeUs + Lag
    /\ pc \in {"enter", "gate"} => t - setAt < UsWrap

\* What the program takes to be left of a young gate is what is left of it.
LEMMA RemainingIsLeft ==
  ASSUME TypeOK, Owed, t - setAt < UsWrap
  PROVE  Remaining = IF Left <= 0 THEN 0 ELSE Left
<1>1. t \in Nat /\ setAt \in Nat /\ setAt <= t /\ gateUs = setAt % UsWrap /\ gateDur \in Nat
  BY DEF TypeOK, Owed, Stamped
<1>2. UsSince(gateUs) = (t - setAt) % UsWrap
  <2>1. UsWrap \in Nat \ {0} /\ t \in Int /\ setAt \in Int
    BY <1>1
  <2>. QED BY <1>1, <2>1, ModDiff, Zenon DEF UsSince, Micros
<1>3. (t - setAt) % UsWrap = t - setAt
  <2>1. t - setAt \in 0 .. UsWrap - 1
    BY <1>1
  <2>. QED BY <2>1
<1>. QED BY <1>1, <1>2, <1>3 DEF Remaining, Left

\* millis() sees a gate that is over, if it has not gone round since.
LEMMA DrainIsYoung ==
  ASSUME TypeOK, Owed, gateDur # 0, ~CoarseExpired, t - setAt < (MsWrap - 1) * UsPerMs
  PROVE  t - setAt < gateDur + 2 * UsPerMs
<1> DEFINE c == (gateDur + UsPerMs - 1) \div UsPerMs
           q == t \div UsPerMs
           p == setAt \div UsPerMs
<1>1. /\ t \in Nat /\ setAt \in Nat /\ setAt <= t /\ gateMs = (setAt \div UsPerMs) % MsWrap
      /\ gateDur \in Nat /\ UsPerMs \in Nat \ {0} /\ MsWrap \in Nat \ {0}
  BY DEF TypeOK, Owed, Stamped
<1>2. c \in Nat /\ UsPerMs * c < gateDur + UsPerMs
  BY <1>1, Rounded
<1>3. q \in Nat /\ p \in Nat /\ p <= q
  BY <1>1, DivOrder
<1>4. MsSince(gateMs) = (q - p) % MsWrap
  <2>1. q \in Int /\ p \in Int
    BY <1>3
  <2>. QED BY <1>1, <2>1, ModDiff, Zenon DEF MsSince, Millis
<1>5. ~(MsSince(gateMs) > c)
  BY DEF CoarseExpired
<1>6. ~(q - p > MsWrap - 1)
  <2>1. MsWrap - 1 \in Nat
    BY <1>1
  <2>2. q - p > MsWrap - 1 => t - setAt > UsPerMs * (MsWrap - 1)
    BY <1>1, <2>1, Coarsely
  <2>3. (MsWrap - 1) * UsPerMs = UsPerMs * (MsWrap - 1) /\ UsPerMs * (MsWrap - 1) \in Int
    BY <1>1
  <2>. QED BY ONLY <1>1, <2>2, <2>3, t - setAt < (MsWrap - 1) * UsPerMs
<1> HIDE DEF c, q, p
<1>7. (q - p) % MsWrap = q - p
  BY <1>1, <1>3, <1>6
<1>8. q - p <= c
  BY <1>2, <1>3, <1>4, <1>5, <1>7
<1>9. t - setAt < UsPerMs * c + UsPerMs
  BY <1>1, <1>2, <1>8, Coarsely DEF q, p
<1>10. UsPerMs * c \in Int
  BY <1>1, <1>2
<1>. QED BY ONLY <1>1, <1>2, <1>9, <1>10

LEMMA OwedReplace ==
  ASSUME TypeOK, t' = t, NEW us \in Nat, Replace(us),
         Bounded(us) = 0 \/ Bounded(us) <= holdoff' \/ Bounded(us) <= preLeft'
  PROVE  Owed'
<1>1. /\ t \in Nat /\ setAt' = t /\ gateDur' = Bounded(us) /\ Bounded(us) \in Nat
      /\ gateUs' = t % UsWrap /\ gateMs' = (t \div UsPerMs) % MsWrap
  BY BoundedIs DEF TypeOK, Replace, Micros, Millis
<1>2. Left' = Bounded(us)
  BY <1>1 DEF Left
<1>3. setAt' <= t' /\ Stamped(setAt)'
  BY <1>1 DEF Stamped
<1>. QED BY <1>1, <1>2, <1>3 DEF Owed

LEMMA OwedKept ==
  ASSUME TypeOK, TypeOK', Owed, UNCHANGED <<t, gate>>, holdoff <= holdoff', preLeft <= preLeft'
  PROVE  Owed'
<1>1. /\ t \in Nat /\ setAt \in Nat /\ gateDur \in Nat /\ holdoff \in Nat /\ preLeft \in Nat
      /\ holdoff' \in Nat /\ preLeft' \in Nat
  BY DEF TypeOK
<1>2. UNCHANGED <<t, setAt, gateUs, gateMs, gateDur>>
  BY DEF gate
<1>3. Left' = Left /\ Left \in Int /\ (Stamped(setAt)' <=> Stamped(setAt))
  BY <1>1, <1>2 DEF Left, Stamped
<1>. QED BY <1>1, <1>2, <1>3 DEF Owed

LEMMA OwedTime ==
  ASSUME TypeOK, Owed, NEW d \in Nat, Elapse(d), UNCHANGED gate
  PROVE  Owed'
<1>1. /\ t \in Nat /\ setAt \in Nat /\ gateDur \in Nat /\ holdoff \in Nat /\ preLeft \in Nat
  BY DEF TypeOK
<1>2. /\ UNCHANGED <<setAt, gateUs, gateMs, gateDur>> /\ t' = t + d
      /\ holdoff' = Less(holdoff, d) /\ preLeft' = Less(preLeft, d)
  BY DEF gate, Elapse
<1>3. Left' = Left - d /\ Left \in Int /\ (Stamped(setAt)' <=> Stamped(setAt)) /\ setAt' <= t'
  BY <1>1, <1>2 DEF Left, Stamped, Owed
<1>. QED BY <1>1, <1>2, <1>3 DEF Owed, Less

\* The gate a frame leaves behind is the holdoff it owes.
LEMMA OwedFinish ==
  ASSUME TypeOK, Gaps, pc \in After, NEW us \in Nat, NEW owed \in Nat, us <= owed,
         Finish(us + BaseGap + post, owed)
  PROVE  Owed'
<1>1. post = Bounded(asked) /\ asked \in Nat /\ post \in Nat
  BY DEF Gaps, TypeOK
<1>2. Bounded(us + BaseGap + post) <= Bounded(owed + BaseGap + asked)
  BY <1>1 DEF Bounded
<1>3. /\ t' = t /\ Replace(us + BaseGap + post)
      /\ holdoff' = Bounded(owed + BaseGap + asked)
  BY DEF Finish
<1>4. us + BaseGap + post \in Nat
  BY <1>1
<1>. QED BY <1>2, <1>3, <1>4, OwedReplace

LEMMA OwedInit == Init => Owed
<1>. SUFFICES ASSUME Init PROVE Owed
  OBVIOUS
<1>1. t \in Nat /\ setAt = t /\ gateDur = holdoff /\ gateUs = t % UsWrap
      /\ gateMs = (t \div UsPerMs) % MsWrap /\ holdoff \in Nat
  BY BoundedIs DEF Init, Micros, Millis
<1>. QED BY <1>1 DEF Owed, Stamped, Left

LEMMA OwedPreGap ==
  ASSUME TypeOK, TypeOK', Owed, NEW us \in PreGaps, SetPreTxGapUsOnce(us)
  PROVE  Owed'
<1>1. /\ us \in Nat /\ Bounded(us) \in Nat /\ preLeft \in Nat /\ preLeft' \in Nat
      /\ holdoff' = holdoff /\ holdoff \in Nat /\ t' = t /\ Remaining \in Nat
      /\ preLeft' = IF Swallowed(us) THEN preLeft ELSE Max({preLeft, Bounded(us)})
  BY BoundedIs, RemainingType DEF TypeOK, SetPreTxGapUsOnce
<1>2. Max({preLeft, Bounded(us)}) = IF preLeft >= Bounded(us) THEN preLeft ELSE Bounded(us)
  BY <1>1, MaxOf
<1>3. CASE Bounded(us) > Remaining
  <2>1. Replace(us)
    BY <1>3 DEF SetPreTxGapUsOnce, Extend
  <2>2. ~Swallowed(us)
    BY <1>1, <1>3 DEF Swallowed
  <2>3. Bounded(us) <= preLeft'
    BY <1>1, <1>2, <2>2
  <2>. QED BY <1>1, <2>1, <2>3, OwedReplace
<1>4. CASE ~(Bounded(us) > Remaining)
  <2>1. UNCHANGED gate
    BY <1>4 DEF SetPreTxGapUsOnce, Extend
  <2>2. preLeft <= preLeft' /\ holdoff <= holdoff'
    BY <1>1, <1>2
  <2>. QED BY <1>1, <2>1, <2>2, OwedKept
<1>. QED BY <1>3, <1>4

LEMMA OwedDrainIdle == ASSUME TypeOK, TypeOK', Owed, DrainIdle PROVE Owed'
<1>1. /\ holdoff \in Nat /\ Bounded(BaseGap) \in Nat /\ preLeft \in Nat
  BY BoundedIs DEF TypeOK
<1>2. Max({holdoff, Bounded(BaseGap)})
        = IF holdoff >= Bounded(BaseGap) THEN holdoff ELSE Bounded(BaseGap)
  BY <1>1, MaxOf
<1>3. /\ holdoff <= holdoff' /\ Bounded(BaseGap) <= holdoff' /\ preLeft <= preLeft' /\ t' = t
      /\ Replace(BaseGap) \/ UNCHANGED gate
  BY <1>1, <1>2 DEF DrainIdle, Extend
<1>. QED BY <1>3, OwedReplace, OwedKept

LEMMA OwedFresh == ASSUME TypeOK, Begin \/ DrainEscape PROVE Owed'
<1>1. /\ holdoff \in Nat /\ T35 + BaseGap \in Nat /\ Bounded(T35 + BaseGap) \in Nat
  BY BoundedIs DEF TypeOK
<1>2. Max({holdoff, Bounded(T35 + BaseGap)})
        = IF holdoff >= Bounded(T35 + BaseGap) THEN holdoff ELSE Bounded(T35 + BaseGap)
  BY <1>1, MaxOf
<1>3. /\ t' = t /\ Replace(T35 + BaseGap)
      /\ holdoff' \in {Bounded(T35 + BaseGap), Max({holdoff, Bounded(T35 + BaseGap)})}
  BY DEF Begin, DrainEscape
<1>4. Bounded(T35 + BaseGap) <= holdoff'
  BY <1>1, <1>2, <1>3
<1>. QED BY <1>1, <1>3, <1>4, OwedReplace

LEMMA OwedNext == TypeOK /\ Gaps /\ Owed /\ [Next]_vars => Owed'
<1>. SUFFICES ASSUME TypeOK, Gaps, Owed, [Next]_vars PROVE Owed'
  OBVIOUS
<1>0. TypeOK'
  BY TypedNext
<1>1. ASSUME NEW d \in Nat, Elapse(d), UNCHANGED gate PROVE Owed'
  BY <1>1, OwedTime
<1>2. CASE \/ \E d \in Rests, rx \in BOOLEAN : Rest(d, rx)
           \/ \E d \in 1 .. Lag, rx \in BOOLEAN : DrainLoop(d, rx) \/ GateWait(d, rx)
           \/ \E whole \in BOOLEAN : TxWrite(whole)
           \/ \E done \in BOOLEAN : TxFlush(done)
           \/ TxDelay
  <2>1. UNCHANGED gate
    BY <1>2 DEF Rest, DrainLoop, GateWait, TxWrite, TxFlush, TxDelay
  <2>2. \E d \in Nat : Elapse(d)
    <3>1. (\A d \in Rests : d \in Nat) /\ (\A d \in 1 .. Lag : d \in Nat) /\ 1 \in Nat
      OBVIOUS
    <3>. QED BY <1>2, <3>1 DEF Rest, DrainLoop, GateWait, TxWrite, TxFlush, TxDelay, Pass
  <2>. QED BY <1>1, <2>1, <2>2
<1>3. CASE Begin \/ DrainEscape
  BY <1>3, OwedFresh
<1>4. ASSUME NEW us \in PreGaps, SetPreTxGapUsOnce(us) PROVE Owed'
  BY <1>0, <1>4, OwedPreGap
<1>5. CASE DrainIdle
  BY <1>0, <1>5, OwedDrainIdle
<1>6. CASE WriteCall \/ ReadCall \/ GateEnter
  <2>1. UNCHANGED <<t, holdoff, preLeft>> /\ (Replace(0) \/ UNCHANGED gate)
    BY <1>6 DEF WriteCall, ReadCall, DrainCall, GateEnter, ages
  <2>2. Bounded(0) = 0 /\ 0 \in Nat
    BY DEF Bounded
  <2>3. holdoff <= holdoff' /\ preLeft <= preLeft'
    BY <2>1 DEF TypeOK
  <2>. QED BY <1>0, <2>1, <2>2, <2>3, OwedReplace, OwedKept
<1>7. CASE \/ \E us \in PostGaps : SetPostTxGapUsOnce(us)
           \/ \E ok \in BOOLEAN : ReadDone(ok)
           \/ TxStart \/ TxRelease \/ OwnerStops \/ UNCHANGED vars
  <2>1. UNCHANGED <<t, gate, holdoff, preLeft>>
    BY <1>7 DEF SetPostTxGapUsOnce, ReadDone, TxStart, TxRelease, OwnerStops, vars, ages, ghost
  <2>2. holdoff <= holdoff' /\ preLeft <= preLeft'
    BY <2>1 DEF TypeOK
  <2>. QED BY <1>0, <2>1, <2>2, OwedKept
<1>8. CASE TxFailed \/ TxReply
  <2>1. Finish(T35 + BaseGap + post, T35) /\ pc \in After
    BY <1>8 DEF TxFailed, TxReply, After
  <2>. QED BY <2>1, OwedFinish
<1>9. ASSUME NEW p \in ProcUs, TxNoReply(p) PROVE Owed'
  <2>1. Finish(NoReplyUs(p) + BaseGap + post, NoReplyUs(p)) /\ pc \in After
    BY <1>9, NoReplyIs DEF TxNoReply, After
  <2>2. NoReplyUs(p) \in Nat /\ NoReplyUs(p) <= NoReplyUs(p)
    <3>1. NoReplyUs(p) \in Nat
      BY NoReplyIs
    <3>. HIDE DEF NoReplyUs
    <3>. QED BY <3>1
  <2>. QED BY <2>1, <2>2, OwedFinish
<1>. QED BY <1>2, <1>3, <1>4, <1>5, <1>6, <1>7, <1>8, <1>9 DEF Next

LEMMA YoungNext == TypeOK /\ Owed /\ Young /\ [Next]_vars /\ [InTime]_vars => Young'
<1>. SUFFICES ASSUME TypeOK, Owed, Young, [Next]_vars, [InTime]_vars, gateDur' # 0
              PROVE  Young'
  BY DEF Young
<1>1. /\ t \in Nat /\ setAt \in Nat /\ setAt <= t /\ gateDur \in 0 .. MaxGate
      /\ MaxGate + EscapeUs + Lag + 2 * UsPerMs <= UsWrap
  BY DEF TypeOK, Owed
<1>2. CASE pc' \notin {"drain", "enter", "gate"}
  BY <1>2 DEF Young
<1>3. CASE WriteCall \/ ReadCall
  <2>1. /\ pc = "idle" /\ pc' = "drain" /\ t' = t /\ drainUs' = t % UsWrap
        /\ IF CoarseExpired \/ Watchdog THEN Replace(0) ELSE UNCHANGED gate
    BY <1>3 DEF WriteCall, ReadCall, DrainCall, Micros
  <2>2. ~CoarseExpired /\ UNCHANGED <<setAt, gateDur>>
    <3>1. Replace(0) => gateDur' = 0
      BY DEF Replace, Bounded
    <3>. QED BY <2>1, <3>1 DEF gate
  <2>3. t - setAt < (MsWrap - 1) * UsPerMs
    BY <2>1 DEF InTime, vars
  <2>4. t - setAt < gateDur + 2 * UsPerMs
    BY <2>2, <2>3, DrainIsYoung
  <2>5. t \in setAt' .. t' /\ t' - t < EscapeUs + Lag
    BY <1>1, <2>1, <2>2
  <2>. QED BY <2>1, <2>2, <2>4, <2>5 DEF Young
<1>4. ASSUME NEW d \in 1 .. Lag, NEW rx \in BOOLEAN, DrainLoop(d, rx) PROVE Young'
  <2>1. /\ pc = "drain" /\ pc' = "drain" /\ t' = t + d /\ ~EscapeDue
        /\ UNCHANGED <<setAt, gateDur, drainUs>>
    BY <1>4 DEF DrainLoop, Pass, Elapse, gate
  <2>2. PICK x \in setAt .. t : /\ x - setAt < gateDur + 2 * UsPerMs
                                /\ drainUs = x % UsWrap /\ t - x < EscapeUs + Lag
    BY <2>1 DEF Young
  <2>3. UsSince(drainUs) = t - x
    <3>1. x \in Nat /\ t - x \in 0 .. UsWrap - 1
      BY <1>1, <2>2
    <3>2. UsSince(drainUs) = (t - x) % UsWrap
      <4>1. UsWrap \in Nat \ {0} /\ t \in Int /\ x \in Int
        BY <1>1, <3>1
      <4>. QED BY <2>2, <4>1, ModDiff, Zenon DEF UsSince, Micros
    <3>3. (t - x) % UsWrap = t - x
      BY <3>1
    <3>. QED BY <3>2, <3>3
  <2>4. ~(t - x >= EscapeUs)
    BY <2>1, <2>3 DEF EscapeDue
  <2>5. x \in setAt' .. t' /\ t' - x < EscapeUs + Lag
    BY <1>1, <2>1, <2>2, <2>4
  <2>. QED BY <2>1, <2>2, <2>5 DEF Young
<1>5. CASE DrainIdle
  <2>1. /\ pc = "drain" /\ pc' # "drain" /\ t' = t
        /\ Replace(BaseGap) \/ UNCHANGED gate
    BY <1>5 DEF DrainIdle, Extend
  <2>2. CASE Replace(BaseGap)
    <3>1. t' - setAt' < UsWrap
      BY <1>1, <2>1, <2>2 DEF Replace
    <3>. QED BY <2>1, <3>1 DEF Young
  <2>3. CASE UNCHANGED gate
    <3>1. UNCHANGED <<setAt, gateDur>>
      BY <2>3 DEF gate
    <3>2. PICK x \in setAt .. t : x - setAt < gateDur + 2 * UsPerMs /\ t - x < EscapeUs + Lag
      BY <2>1, <3>1 DEF Young
    <3>3. t' - setAt' < UsWrap
      BY <1>1, <2>1, <3>1, <3>2
    <3>. QED BY <2>1, <3>3 DEF Young
  <2>. QED BY <2>1, <2>2, <2>3
<1>6. CASE GateEnter
  <2>1. /\ pc = "enter" /\ pc' = "gate" /\ t' = t /\ (Replace(0) \/ UNCHANGED gate)
    BY <1>6 DEF GateEnter
  <2>2. UNCHANGED <<setAt, gateDur>>
    <3>1. Replace(0) => gateDur' = 0
      BY DEF Replace, Bounded
    <3>. QED BY <2>1, <3>1 DEF gate
  <2>. QED BY <2>1, <2>2 DEF Young
<1>7. ASSUME NEW d \in 1 .. Lag, NEW rx \in BOOLEAN, GateWait(d, rx) PROVE Young'
  <2>1. /\ pc = "gate" /\ pc' = "gate" /\ t' = t + d /\ Remaining # 0
        /\ UNCHANGED <<setAt, gateDur>>
    BY <1>7 DEF GateWait, Pass, Elapse, gate
  <2>2. t - setAt < UsWrap
    BY <2>1 DEF Young
  <2>3. ~(Left <= 0)
    BY <2>1, <2>2, RemainingIsLeft
  <2>4. t' - setAt' < UsWrap
    BY <1>1, <2>1, <2>3 DEF Left
  <2>. QED BY <2>1, <2>4 DEF Young
<1>8. CASE OwnerStops \/ UNCHANGED vars
  <2>1. UNCHANGED <<t, setAt, gateDur, pc, drainUs>>
    BY <1>8 DEF OwnerStops, vars, gate
  <2>. QED BY <2>1 DEF Young
<1>9. CASE \/ \E d \in Rests, rx \in BOOLEAN : Rest(d, rx)
           \/ Begin \/ \E us \in PreGaps : SetPreTxGapUsOnce(us)
           \/ \E us \in PostGaps : SetPostTxGapUsOnce(us)
           \/ DrainEscape \/ \E ok \in BOOLEAN : ReadDone(ok)
           \/ TxStart \/ \E whole \in BOOLEAN : TxWrite(whole)
           \/ \E done \in BOOLEAN : TxFlush(done)
           \/ TxDelay \/ TxRelease \/ TxFailed \/ TxReply \/ \E p \in ProcUs : TxNoReply(p)
  <2>1. pc' \notin {"drain", "enter", "gate"}
    BY <1>9 DEF Rest, Begin, SetPreTxGapUsOnce, SetPostTxGapUsOnce, DrainEscape, ReadDone,
          TxStart, TxWrite, TxFlush, TxDelay, TxRelease, TxFailed, TxReply, TxNoReply, Finish
  <2>. QED BY <1>2, <2>1
<1>. QED BY <1>3, <1>4, <1>5, <1>6, <1>7, <1>8, <1>9 DEF Next

-----------------------------------------------------------------------------
(* The theorems *)

LEMMA GateInductive == Spec => []IInv
<1>1. Init => IInv
  BY TypedInit, OrderInit, HeldInit, TrafficInit DEF IInv
<1>2. IInv /\ [Next]_vars => IInv'
  BY TypedNext, OrderNext, GapsNext, HeldNext, TrafficNext DEF IInv
<1>. QED BY <1>1, <1>2, PTL DEF Spec

\* Every variable keeps its range, whatever the clocks do: no gap is longer
\* than the half range of micros() can judge (_boundedTxInterval).
THEOREM GateTypeCorrect == Spec => []TypeOK
<1>1. IInv => TypeOK
  BY DEF IInv
<1>. QED BY <1>1, GateInductive, PTL

\* DE is high from before the first bit of a frame that is reported as sent to
\* after its last, and low while the driver listens.
THEOREM GateDriverOrder == Spec => []DriverOrder
<1>1. IInv => DriverOrder
  BY DEF IInv, Order, DriverOrder, Sending, TypeOK
<1>. QED BY <1>1, GateInductive, PTL

\* What DE goes up for is over: the gate covered it and the gate is open.
LEMMA StartIsCovered ==
  ASSUME IInv, TxStart
  PROVE  /\ holdoff' = 0 \/ erased'
         /\ preLeft' = 0 \/ erased'
         /\ silence' >= Spacing
<1>1. TypeOK /\ Held
  BY DEF IInv
<1>2. Remaining = 0 /\ pc \notin After /\ UNCHANGED <<holdoff, preLeft, silence, erased>>
  BY DEF TxStart, ghost, ages, After
<1>3. holdoff \in Nat /\ preLeft \in Nat /\ silence \in Nat
  BY <1>1 DEF TypeOK
<1>. QED BY <1>1, <1>2, <1>3, HeldFits, SpacingIs

\* The three promises of a frame, as long as it is at the point where they are
\* stated.
Promises == pc = "write" => /\ holdoff = 0 \/ erased
                            /\ preLeft = 0 \/ erased
                            /\ silence >= Spacing

LEMMA GatePromises == Spec => []Promises
<1>1. Init => Promises
  BY DEF Init, Promises
<1>2. IInv /\ Promises /\ [Next]_vars => Promises'
  <2>. SUFFICES ASSUME IInv, Promises, [Next]_vars, pc' = "write"
                PROVE  Promises'
    BY DEF Promises
  <2>1. TxStart \/ UNCHANGED vars
    BY DEF Next, Rest, Begin, SetPreTxGapUsOnce, SetPostTxGapUsOnce, WriteCall, ReadCall,
          DrainCall, DrainIdle, DrainEscape, DrainLoop, ReadDone, GateEnter, GateWait, TxWrite,
          TxFlush, TxDelay, TxRelease, TxFailed, TxReply, TxNoReply, Finish, OwnerStops
  <2>2. CASE TxStart
    BY <2>2, StartIsCovered DEF Promises
  <2>3. CASE UNCHANGED vars
    BY <2>3 DEF Promises, vars, ghost, ages
  <2>. QED BY <2>1, <2>2, <2>3
<1>. QED BY <1>1, <1>2, GateInductive, PTL DEF Spec

\* No frame starts before the holdoff of the one before it, with the post-gap
\* asked for it, is over in true time, however long the owner stayed away and
\* however often micros() and millis() wrapped since, unless a rule dropped the
\* live gate on purpose.
THEOREM GateNoEarlyStart == Spec => []NoEarlyStart
<1>1. Promises => NoEarlyStart
  BY DEF Promises, NoEarlyStart
<1>. QED BY <1>1, GatePromises, PTL

\* The same for the one-shot pre-gap the owner asked for.
THEOREM GatePreGapKept == Spec => []PreGapKept
<1>1. Promises => PreGapKept
  BY DEF Promises, PreGapKept
<1>. QED BY <1>1, GatePromises, PTL

\* The silence before every frame is the shorter of T3.5 and the capped gate of
\* a request nobody answers: no rule that drops a gate can shorten it.
THEOREM GateFrameSpacing == Spec => []FrameSpacing
<1>1. Promises => FrameSpacing
  BY DEF Promises, FrameSpacing
<1>. QED BY <1>1, GatePromises, PTL

\* So it is T3.5 at every baud rate at which the cap covers it.  At the others it
\* is not: the cap is 6 ms (1653-1655), T3.5 is 8 ms at 4800 baud.
THEOREM GateFrameSilence ==
  ASSUME T35 <= NoReplyCap + BaseGap
  PROVE  Spec => []FrameSilence
<1>1. TypeOK /\ FrameSpacing => FrameSilence
  BY DEF TypeOK, FrameSpacing, FrameSilence, Spacing
<1>. QED BY <1>1, GateTypeCorrect, GateFrameSpacing, PTL

\* The driver never waits for a gate that is long over, however often micros()
\* went round since, if no drain begins a turn of millis() or more after the
\* gate was set (README.md:119-120, 275-289).  A driver left alone for longer
\* may wait once for a dead gate.
THEOREM GateNotRevived == Spec /\ Attended => []NotRevived
<1>1. Init => Owed /\ Young
  BY OwedInit DEF Init, Young
<1>2. IInv /\ Owed /\ Young /\ [Next]_vars /\ [InTime]_vars => (Owed /\ Young)'
  BY OwedNext, YoungNext DEF IInv
<1>3. IInv /\ Owed /\ Young => NotRevived
  <2>. SUFFICES ASSUME TypeOK, Owed, Young, pc = "gate", Remaining # 0 PROVE Live
    BY DEF IInv, NotRevived
  <2>1. gateDur # 0 /\ holdoff \in Nat /\ preLeft \in Nat
    BY RemainingType DEF TypeOK
  <2>2. Remaining = IF Left <= 0 THEN 0 ELSE Left
    BY <2>1, RemainingIsLeft DEF Young
  <2>3. Left <= holdoff \/ Left <= preLeft
    BY <2>2 DEF Owed
  <2>4. Left \in Int
    BY DEF Left, TypeOK
  <2>. QED BY <2>1, <2>2, <2>3, <2>4 DEF Live
<1>. QED BY <1>1, <1>2, <1>3, GateInductive, PTL DEF Spec, Attended

=============================================================================
