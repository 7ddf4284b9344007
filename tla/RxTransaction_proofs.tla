------------------------ MODULE RxTransaction_proofs ------------------------
(***************************************************************************)
(* Theorems about readAdu() and its drain, for every length of the         *)
(* time-outs, every size of the ring, any number of bytes and calls, with  *)
(* an RX thread or without one.                                            *)
(***************************************************************************)
EXTENDS RxTransaction, Clock_proofs, SequenceTheorems

LEMMA Sizes ==
  /\ UsWrap \in Nat \ {0} /\ T15 \in Nat \ {0} /\ T35 \in Nat \ {0}
  /\ MinFrame \in Nat \ {0} /\ DrainEscapeUs \in Nat \ {0}
  /\ Room \in Nat \ {0} /\ UartRoom \in Nat \ {0} /\ Lag \in Nat \ {0}
  /\ MaxSafe \in Nat /\ ReadTimeout \in Nat /\ LateGrace \in Nat
  /\ MaxFrame \in Nat /\ Dedupe \in Nat
  /\ MaxRest \in Nat /\ MaxCalls \in Nat /\ MaxBytes \in Nat
  /\ T35 < UsWrap /\ 2 * MaxSafe < UsWrap /\ LateGrace <= MaxSafe
  /\ MaxSafe + 2 * Lag < UsWrap /\ DrainEscapeUs + 2 * Lag <= UsWrap
BY TransactionAssumption, CandidateAssumption

USE Sizes

-----------------------------------------------------------------------------
(* What the extractor answers *)

LEMMA EndInRun ==
  ASSUME NEW s \in Seq(Stamp)
  PROVE  CandidateEnd(s) \in 0 .. Len(s)
<1> DEFINE ends == {i \in 2 .. Len(s) : GapBefore(s, i) >= T35}
<1>1. Len(s) \in Nat
  BY LenProperties
<1>2. CASE ends = {}
  BY <1>1, <1>2 DEF CandidateEnd
<1>3. CASE ends # {}
  <2>1. ends \subseteq Nat
    BY <1>1
  <2>2. \E i \in ends : \A j \in ends : i <= j
    BY <1>3, <2>1, SmallestOf
  <2> DEFINE first == CHOOSE i \in ends : \A j \in ends : i <= j
  <2>3. first \in ends
    BY <2>2
  <2>4. first \in 2 .. Len(s)
    BY <2>3
  <2>5. CandidateEnd(s) = first - 1
    BY <1>3 DEF CandidateEnd
  <2> HIDE DEF first
  <2>. QED BY <1>1, <2>4, <2>5
<1>. QED BY <1>2, <1>3

\* It consumes no more than it was shown, and a good frame is not empty.
LEMMA OutcomeShape ==
  ASSUME NEW s \in Seq(Stamp), NEW us \in Stamp, NEW o \in Outcomes(s, us)
  PROVE  /\ o.status \in {"none", "ok", "crc", "frame", "gap"}
         /\ o.drop \in 0 .. Len(s)
         /\ o.status = "ok" => o.drop \in 1 .. Len(s)
<1> DEFINE n == Len(s)
           b == CandidateEnd(s)
           frames == {k \in MinFrame .. b : ~Broken(s, k)}
           good == {Outcome("ok", k) : k \in frames}
           bad == IF frames = {} THEN {} ELSE {Outcome("crc", 1)}
           late == IF Ended(s, us)
                   THEN {Outcome("gap", b)}
                        \cup (IF b < MinFrame THEN {Outcome("frame", b)} ELSE {})
                   ELSE {Outcome("none", 0)}
<1>1. n \in Nat /\ b \in 0 .. n
  BY LenProperties, EndInRun
<1>2. frames \subseteq 1 .. n
  BY <1>1
<1>3. Outcomes(s, us) =
        IF n = 0 THEN {Outcome("none", 0)}
        ELSE IF n < MinFrame
        THEN {IF Ended(s, us) THEN Outcome("gap", n) ELSE Outcome("none", 0)}
        ELSE good \cup bad \cup {Outcome("frame", 1)} \cup late
  BY DEF Outcomes
<1>4. \/ o = Outcome("none", 0) \/ o = Outcome("gap", n)
      \/ n >= MinFrame /\ (o \in good \/ o \in bad \/ o = Outcome("frame", 1) \/ o \in late)
  <2> HIDE DEF good, bad, late, n
  <2>. QED BY <1>1, <1>3
<1>5. o \in good => \E k \in frames : o = Outcome("ok", k)
  OBVIOUS
<1>6. o \in bad => o = Outcome("crc", 1)
  OBVIOUS
<1>7. o \in late => o \in {Outcome("gap", b), Outcome("frame", b), Outcome("none", 0)}
  OBVIOUS
<1> HIDE DEF b, n, frames, good, bad, late
<1>8. \/ o \in {Outcome("none", 0), Outcome("gap", n), Outcome("gap", b), Outcome("frame", b)}
      \/ n >= 1 /\ o \in {Outcome("frame", 1), Outcome("crc", 1)}
      \/ \E k \in frames : o = Outcome("ok", k)
  BY <1>1, <1>4, <1>5, <1>6, <1>7
<1>. QED BY <1>1, <1>2, <1>8 DEF Outcome, n

LEMMA RunIs ==
  ASSUME ring \in Seq(Stamp), avail \in 0 .. Room
  PROVE  Run \in Seq(Stamp) /\ Len(Run) <= Len(ring) /\ Len(ring) \in Nat
<1>1. Len(ring) \in Nat /\ avail \in Nat /\ MaxLen \in Nat
  BY LenProperties, CandidateAssumption
<1>2. PICK k : k = Min({avail, Len(ring)})
  OBVIOUS
<1>3. k \in 0 .. Len(ring)
  BY <1>1, <1>2, MinOf
<1>4. \A i \in 1 .. k : ring[i] \in Stamp
  BY <1>1, <1>3, ElementOfSeq
<1>5. PICK r : r = SubSeq(ring, 1, k)
  OBVIOUS
<1>6. r \in Seq(Stamp) /\ Len(r) = k
  BY <1>3, <1>4, <1>5, SubSeqProperties
<1>7. PICK m : m = Min({Len(r), MaxLen})
  OBVIOUS
<1>8. m \in 0 .. k
  BY <1>1, <1>3, <1>6, <1>7, MinOf
<1>9. \A i \in 1 .. m : r[i] \in Stamp
  BY <1>3, <1>6, <1>8, ElementOfSeq
<1>10. Run = SubSeq(r, 1, m)
  BY <1>2, <1>5, <1>7 DEF Run, Scanned
<1>11. Run \in Seq(Stamp) /\ Len(Run) = m
  BY <1>8, <1>9, <1>10, SubSeqProperties
<1>. QED BY <1>1, <1>3, <1>8, <1>11

LEMMA ConsumeIs ==
  ASSUME ring \in Seq(Stamp), NEW n \in 0 .. Len(ring), Consume(n)
  PROVE  ring' \in Seq(Stamp) /\ Len(ring') <= Len(ring)
<1>1. Len(ring) \in Nat
  BY LenProperties
<1>2. ring' = SubSeq(ring, n + 1, Len(ring))
  BY DEF Consume
<1>3. \A i \in n + 1 .. Len(ring) : ring[i] \in Stamp
  BY <1>1, ElementOfSeq
<1>. QED BY <1>1, <1>2, <1>3, SubSeqProperties

-----------------------------------------------------------------------------
(* Arithmetic of the clock and of the windows *)

LEMMA StampIs == ASSUME NEW a \in Int PROVE a % UsWrap \in Stamp
BY ModRange DEF Stamp

LEMMA LaterIs == ASSUME NEW a \in Int, NEW d \in Int PROVE Later(a, d) \in Stamp
BY StampIs DEF Later

LEMMA SinceIs == ASSUME NEW a \in Int, NEW b \in Int PROVE Since(a, b) \in Stamp
BY StampIs DEF Since

\* The windows of a read, added up, are in the half of the range that signed
\* order can judge.
LEMMA Windows ==
  /\ RxTail \in Nat /\ ReadUs \in Nat /\ Escape = ReadUs + RxTail
  /\ Escape <= MaxSafe /\ LateGrace <= RxTail /\ ReadUs <= ReadTimeout
  /\ ReturnBound \in Nat
<1>1. RxTail = IF MaxSafe <= LateGrace + MaxFrame THEN MaxSafe ELSE LateGrace + MaxFrame
  BY MinOf DEF RxTail
<1>2. RxTail \in Nat /\ RxTail <= MaxSafe /\ LateGrace <= RxTail
  BY <1>1
<1>3. ReadUs = IF ReadTimeout <= MaxSafe - RxTail THEN ReadTimeout ELSE MaxSafe - RxTail
  BY <1>2, MinOf DEF ReadUs
<1>. QED BY <1>2, <1>3 DEF Escape, ReturnBound

LEMMA AnchorIs ==
  ASSUME startUs \in Stamp, NEW us \in Stamp, NEW seen \in Stamp
  PROVE  Anchor(us, seen) \in Stamp
BY DEF Anchor

-----------------------------------------------------------------------------
(* Types *)

\* Only one side of the ring fills it: the RX thread, or the owner.
Producer == /\ push.at = "stored" => Len(ring) < Room
            /\ Threaded => uart = 0
            /\ ~Threaded => push = NoPush

\* TypeOK by the part of the state a step changes.
Readings ==
  /\ now \in Stamp /\ startUs \in Stamp /\ nowUs \in Stamp /\ firstUs \in Stamp
  /\ lateUs \in Stamp /\ seenRx \in Stamp /\ drainUs \in Stamp
  /\ pending \in BOOLEAN
Bytes ==
  /\ uart \in 0 .. UartRoom /\ due \in BOOLEAN /\ bytes \in 0 .. MaxBytes
  /\ push \in [at : {"none", "stamped", "stored"}, ts : Stamp]
  /\ ring \in Seq(Stamp) /\ Len(ring) <= Room /\ lastRx \in Stamp
  /\ Producer
Place ==
  /\ op \in {"none", "read", "write"}
  /\ pc \in {"idle", "head", "look", "count", "carve", "judge", "last",
             "classify", "drain", "drainHead", "sample", "load", "check"}
  /\ state \in States /\ resume \in States /\ avail \in 0 .. Room
Frames ==
  /\ event \in [status : {"none", "ok", "crc", "frame", "gap"},
                kind : {"none", "reply", "same", "other"},
                first : Stamp, last : Stamp]
  /\ flags \subseteq {"active", "match", "bad", "crc", "late"}
  /\ accepted \in [valid : BOOLEAN, us : Stamp, sent : BOOLEAN]
  /\ adu \in {"empty", "reply"}
  /\ result \in {"none", "success", "timeout", "frame", "crc"}
Ages == 0 .. Max({ReturnBound, MaxRest}) + 1
Counters ==
  /\ lag \in 0 .. Lag /\ age \in Ages
  /\ quiet \in 0 .. T35 /\ hush \in 0 .. T35
  /\ calls \in 0 .. MaxCalls /\ lost \in BOOLEAN /\ heard \in BOOLEAN

Typed == Readings /\ Bytes /\ Place /\ Frames /\ Counters

LEMMA TypedIs == Typed <=> TypeOK /\ Producer
BY DEF Typed, TypeOK, Readings, Bytes, Place, Frames, Counters, Ages

LEMMA AgeRange ==
  /\ 0 \in Ages
  /\ \A a \in Nat : a <= ReturnBound + 1 \/ a <= MaxRest
                     => a \in Ages
<1>1. ReturnBound \in Nat
  BY Windows
<1>2. Max({ReturnBound, MaxRest}) = IF ReturnBound >= MaxRest THEN ReturnBound ELSE MaxRest
  BY <1>1, MaxOf
<1>. QED BY <1>1, <1>2 DEF Ages

LEMMA TypedInit == Init => Typed
<1> SUFFICES ASSUME Init PROVE Typed
  OBVIOUS
<1>1. <<>> \in Seq(Stamp) /\ Len(<<>>) = 0
  BY EmptySeq, SMT
<1>2. now \in Stamp /\ 0 \in Stamp
  BY TransactionAssumption DEF Init, Stamp
<1>3. /\ lag = 0 /\ age = 0 /\ quiet = T35 /\ hush = 0 /\ calls = 0
      /\ lost \in BOOLEAN /\ heard \in BOOLEAN
  BY DEF Init
<1>31. /\ uart = 0 /\ due \in BOOLEAN /\ bytes = 0 /\ ring = <<>> /\ lastRx = 0
  BY DEF Init
<1>8. Counters
  BY <1>3, AgeRange DEF Counters
<1>. USE DEF Init
<1>4. Readings
  BY <1>2 DEF Readings
<1>5. push \in [at : {"none", "stamped", "stored"}, ts : Stamp]
  BY <1>2 DEF NoPush
<1>51. Producer
  BY DEF Producer, NoPush
<1>53. ring \in Seq(Stamp) /\ Len(ring) <= Room
  BY <1>1
<1>52. Bytes
  <2> USE DEF Bytes
  <2> HIDE DEF Init
  <2>. QED BY <1>31, <1>2, <1>5, <1>51, <1>53 DEF Bytes
<1>6. Place
  BY DEF Place, States
<1>7. Frames
  BY <1>2 DEF Frames, NoEvent, Never
<1>. QED BY <1>4, <1>52, <1>6, <1>7, <1>8 DEF Typed

\* A step that leaves the bytes alone keeps what is said of them.
LEMMA BytesKept == Bytes /\ UNCHANGED <<line, rx>> => Bytes'
BY DEF Bytes, Producer, line, rx

LEMMA FramesKept == Frames /\ UNCHANGED <<event, flags, kept>> => Frames'
BY DEF Frames, kept

LEMMA CountersKept == Counters /\ UNCHANGED <<clock, ghost>> => Counters'
BY DEF Counters, clock, ghost

LEMMA TypedCall == Typed /\ (ReadCall \/ WriteCall) => Typed'
<1> SUFFICES ASSUME Typed, ReadCall \/ WriteCall PROVE Typed'
  OBVIOUS
<1>1. /\ calls < MaxCalls /\ calls' = calls + 1 /\ lag' = 0 /\ age' = 0
      /\ heard' \in BOOLEAN /\ UNCHANGED <<quiet, hush, lost>>
  BY DEF ReadCall, WriteCall, Call
<1>2. Counters'
  BY <1>1, AgeRange DEF Typed, Counters
<1>. USE DEF Typed, ReadCall, WriteCall, Call
<1>3. Readings'
  BY DEF Readings, drain
<1>4. Bytes'
  BY BytesKept
<1>5. Place'
  BY DEF Place, States
<1>6. Frames'
  BY DEF Frames
<1>. QED BY <1>2, <1>3, <1>4, <1>5, <1>6

LEMMA TypedCount == Typed /\ Count => Typed'
<1> SUFFICES ASSUME Typed, Count PROVE Typed'
  OBVIOUS
<1>1. Len(ring) \in 0 .. Room
  BY LenProperties DEF Typed, Bytes
<1>. USE DEF Typed, Count
<1>2. Readings'
  BY DEF Readings, txn, drain, clock
<1>3. Place'
  BY <1>1 DEF Place
<1>. QED BY <1>2, <1>3, BytesKept, FramesKept, CountersKept DEF txn

LEMMA TypedGoto ==
  ASSUME Typed, NEW next \in States, NEW at \in {"head", "last"}, Goto(next, at),
         lateUs' \in Stamp, pending' \in BOOLEAN,
         flags' \subseteq flags \cup {"late"}
  PROVE  Typed'
<1>. USE DEF Typed, Goto
<1>1. Readings'
  BY DEF Readings, drain, clock, Stamp
<1>2. Place'
  BY DEF Place
<1>3. Frames'
  BY DEF Frames, kept
<1>. QED BY <1>1, <1>2, <1>3, BytesKept, CountersKept

LEMMA TypedJudge == Typed /\ Judge => Typed'
<1> SUFFICES ASSUME Typed, Judge PROVE Typed'
  OBVIOUS
<1>1. lateUs \in Stamp /\ pending \in BOOLEAN /\ Later(nowUs, LateGrace) \in Stamp
  BY LaterIs DEF Stamp, Typed, Readings
<1>2. {"DRAIN", "LATE_WINDOW", "WAIT_FIRST", "RX_ACTIVE"} \subseteq States
  BY DEF States
<1>3. ASSUME NEW next \in States, NEW at \in {"head", "last"}, Goto(next, at),
             UNCHANGED <<flags, lateUs, pending>>
      PROVE  Typed'
  BY <1>1, <1>3, TypedGoto
<1>4. ASSUME NEW answerable \in BOOLEAN, WaitFirstExpires(answerable)
      PROVE  Typed'
  BY <1>1, <1>2, <1>4, TypedGoto DEF WaitFirstExpires
<1>5. CASE JudgeEscape
  BY <1>2, <1>3, <1>5 DEF JudgeEscape
<1>6. CASE WaitFirst
  BY <1>2, <1>3, <1>6 DEF WaitFirst
<1>7. CASE LateWindow
  BY <1>2, <1>3, <1>7 DEF LateWindow
<1>8. CASE RxActiveEnvelope
  BY <1>2, <1>3, <1>8 DEF RxActiveEnvelope
<1>9. CASE RxActiveEmpty
  BY <1>2, <1>3, <1>9 DEF RxActiveEmpty
<1>10. CASE RxActiveLast
  BY <1>2, <1>3, <1>10 DEF RxActiveLast
<1>. QED BY <1>4, <1>5, <1>6, <1>7, <1>8, <1>9, <1>10 DEF Judge

LEMMA LiveIs == ASSUME NEW us PROVE Live(us) \in BOOLEAN
BY DEF Live

\* The owner as the producer of the ring.
LEMMA IngestIs ==
  ASSUME Typed, Ingest
  PROVE  /\ Bytes' /\ lost' \in BOOLEAN
         /\ Threaded => ring' = ring /\ lastRx' = lastRx
<1> DEFINE n == Min({uart, Room - Len(ring)})
           new == [i \in 1 .. n |-> now]
<1>1. /\ uart \in Nat /\ Len(ring) \in Nat /\ Len(ring) <= Room /\ now \in Stamp
      /\ ring \in Seq(Stamp) /\ lastRx \in Stamp
      /\ uart \in 0 .. UartRoom /\ due \in BOOLEAN /\ bytes \in 0 .. MaxBytes
      /\ push \in [at : {"none", "stamped", "stored"}, ts : Stamp]
      /\ Producer /\ lost \in BOOLEAN
  BY LenProperties DEF Typed, Bytes, Readings, Counters
<1>2. n = IF uart <= Room - Len(ring) THEN uart ELSE Room - Len(ring)
  BY <1>1, MinOf
<1>3. /\ uart' = 0 /\ ring' = ring \o new
      /\ lastRx' = IF n > 0 THEN now ELSE lastRx
      /\ lost' = (IF uart = 0 THEN lost ELSE n < uart)
      /\ UNCHANGED <<push, due, bytes>>
  BY DEF Ingest
<1> HIDE DEF n
<1>4. n \in Nat /\ Len(ring) + n <= Room
  BY <1>1, <1>2
<1>5. new \in Seq(Stamp) /\ Len(new) = n
  BY <1>1, <1>4, SeqDef, LenProperties
<1> HIDE DEF new
<1>6. ring' \in Seq(Stamp) /\ Len(ring') = Len(ring) + n
  BY <1>1, <1>3, <1>5, ConcatProperties
<1>7. Len(ring') <= Room
  BY <1>1, <1>4, <1>6
<1>8. Threaded => ring' = ring /\ lastRx' = lastRx
  <2> SUFFICES ASSUME Threaded PROVE ring' = ring /\ lastRx' = lastRx
    OBVIOUS
  <2>1. uart = 0
    BY <1>1 DEF Producer
  <2>2. n = 0
    BY <1>1, <1>2, <2>1
  <2>3. new = <<>>
    BY <1>5, <2>2, EmptySeq
  <2>. QED BY <1>1, <1>3, <2>2, <2>3, ConcatEmptySeq
<1>9. Producer'
  <2>1. push.at = "stored" => Threaded
    BY <1>1 DEF Producer, NoPush
  <2>2. push.at = "stored" => Len(ring') < Room
    BY <1>1, <1>8, <2>1 DEF Producer
  <2>. QED BY <1>1, <1>3, <2>2 DEF Producer
<1>10. lastRx' \in Stamp
  BY <1>1, <1>3
<1>11. lost' \in BOOLEAN
  <2>1. CASE uart = 0
    BY <1>1, <1>3, <2>1, Zenon
  <2>2. CASE uart # 0
    <3>1. (n < uart) \in BOOLEAN
      BY <1>1, <1>4
    <3>2. lost' = (n < uart)
      BY <1>3, <2>2, Zenon
    <3>. QED BY <3>1, <3>2, Zenon
  <2>. QED BY <2>1, <2>2
<1>12. Bytes'
  BY <1>1, <1>3, <1>6, <1>7, <1>9, <1>10 DEF Bytes
<1>. QED BY <1>8, <1>11, <1>12

LEMMA TypedHead == Typed /\ (LoopHead \/ DrainHead) => Typed'
<1> SUFFICES ASSUME Typed, LoopHead \/ DrainHead PROVE Typed'
  OBVIOUS
<1>1. Ingest
  BY DEF LoopHead, DrainHead
<1>2. Bytes' /\ lost' \in BOOLEAN
  BY <1>1, IngestIs
<1>3. Live(now) \in BOOLEAN
  BY LiveIs
<1>4. /\ lag' = 0 /\ UNCHANGED <<age, quiet, hush, calls, heard>>
  BY DEF LoopHead, DrainHead
<1>5. Counters'
  BY <1>2, <1>4 DEF Typed, Counters
<1>. USE DEF Typed, LoopHead, DrainHead
<1>6. Readings'
  BY <1>3 DEF Readings, txn, drain
<1>7. Place'
  BY DEF Place
<1>8. Frames'
  BY FramesKept DEF txn
<1>. QED BY <1>2, <1>5, <1>6, <1>7, <1>8

LEMMA TypedLook == Typed /\ Look => Typed'
<1> SUFFICES ASSUME Typed, Look PROVE Typed'
  OBVIOUS
<1>1. ring # <<>> => ring[1] \in Stamp
  BY ElementOfSeq, EmptySeq, LenProperties DEF Typed, Bytes
<1>2. \A us \in Stamp : Anchor(us, nowUs) \in Stamp
  BY AnchorIs DEF Typed, Readings
<1>3. firstUs' \in Stamp /\ flags' \subseteq flags \cup {"active"}
  BY <1>1, <1>2 DEF Look, NoteFirst, Typed, Readings
<1>. USE DEF Typed, Look
<1>4. Readings'
  BY <1>3 DEF Readings, drain, clock
<1>5. state' \in States
  BY DEF Place, States
<1>6. Place'
  BY <1>5 DEF Place
<1>7. Frames'
  BY <1>3 DEF Frames, kept
<1>. QED BY <1>4, <1>6, <1>7, BytesKept, CountersKept

LEMMA TypedCarveNone == Typed /\ CarveNone => Typed'
<1> SUFFICES ASSUME Typed, CarveNone PROVE Typed'
  OBVIOUS
<1>. USE DEF Typed, CarveNone
<1>1. Readings'
  BY DEF Readings, txn, drain, clock
<1>2. Place'
  BY DEF Place
<1>. QED BY <1>1, <1>2, BytesKept, FramesKept, CountersKept DEF txn

\* What the extractor took from the ring, and what it leaves.
LEMMA Taken ==
  ASSUME Typed, NEW o \in Outcomes(Run, now), Consume(o.drop)
  PROVE  /\ Bytes'
         /\ o.status \in {"none", "ok", "crc", "frame", "gap"}
         /\ o.status = "ok" => ring[1] \in Stamp /\ ring[o.drop] \in Stamp
<1>1. Run \in Seq(Stamp) /\ Len(Run) <= Len(ring) /\ Len(ring) \in Nat /\ Len(Run) \in Nat
  BY RunIs, LenProperties DEF Typed, Bytes, Place
<1>2. /\ o.status \in {"none", "ok", "crc", "frame", "gap"}
      /\ o.drop \in 0 .. Len(Run)
      /\ o.status = "ok" => o.drop \in 1 .. Len(Run)
  BY <1>1, OutcomeShape DEF Typed, Readings
<1>3. o.drop \in 0 .. Len(ring)
  BY <1>1, <1>2
<1>4. ring' \in Seq(Stamp) /\ Len(ring') <= Len(ring) /\ UNCHANGED <<uart, push, due, bytes, lastRx>>
  BY <1>3, ConsumeIs DEF Typed, Bytes, Consume
<1>5. Len(ring') \in Nat
  BY <1>4, LenProperties
<1>6. Producer'
  BY <1>1, <1>4, <1>5 DEF Typed, Bytes, Producer
<1>7. Bytes'
  BY <1>1, <1>4, <1>5, <1>6 DEF Typed, Bytes
<1>8. o.status = "ok" => 1 \in 1 .. Len(ring) /\ o.drop \in 1 .. Len(ring)
  BY <1>1, <1>2
<1>9. \A i \in 1 .. Len(ring) : ring[i] \in Stamp
  BY ElementOfSeq DEF Typed, Bytes
<1>. QED BY <1>2, <1>7, <1>8, <1>9

LEMMA TypedCandidate ==
  ASSUME Typed, NEW o \in Outcomes(Run, now), NEW kind \in Kinds \cup {"none"},
         CarveCandidate(o, kind)
  PROVE  Typed'
<1>1. /\ Bytes'
      /\ o.status \in {"none", "ok", "crc", "frame", "gap"}
      /\ o.status = "ok" => ring[1] \in Stamp /\ ring[o.drop] \in Stamp
  BY Taken DEF CarveCandidate
<1>2. kind \in {"none", "reply", "same", "other"}
  BY TransactionAssumption
<1>3. event' = Candidate(o, kind) /\ 0 \in Stamp
  BY DEF CarveCandidate, Stamp
<1>4. event' \in [status : {"none", "ok", "crc", "frame", "gap"},
                  kind : {"none", "reply", "same", "other"},
                  first : Stamp, last : Stamp]
  BY <1>1, <1>2, <1>3 DEF Candidate, NoEvent
<1>5. event'.first \in Stamp /\ nowUs \in Stamp
  BY <1>4 DEF Typed, Readings
<1>6. \A us \in Stamp : Anchor(us, nowUs) \in Stamp
  BY AnchorIs DEF Typed, Readings
<1>7. firstUs' \in Stamp /\ flags' \subseteq flags \cup {"active"}
  BY <1>5, <1>6 DEF CarveCandidate, NoteFirst, Typed, Readings
<1>. USE DEF Typed, CarveCandidate
<1>8. Readings'
  BY <1>3, <1>7 DEF Readings, drain, clock
<1>9. Place'
  BY DEF Place, States
<1>10. Frames'
  BY <1>4, <1>7 DEF Frames, kept
<1>. QED BY <1>1, <1>8, <1>9, <1>10, CountersKept

LEMMA TypedDrainCarve ==
  ASSUME Typed, NEW o \in Outcomes(Run, now), NEW settles \in BOOLEAN, DrainCarve(o, settles)
  PROVE  Typed'
<1>1. Bytes'
  BY Taken DEF DrainCarve
<1>2. pending' \in BOOLEAN
  BY DEF DrainCarve, Typed, Readings
<1>. USE DEF Typed, DrainCarve
<1>3. Readings'
  BY <1>2 DEF Readings, drain, clock
<1>4. Place'
  BY DEF Place
<1>. QED BY <1>1, <1>3, <1>4, FramesKept, CountersKept

LEMMA TypedClassify == Typed /\ Classify => Typed'
<1> SUFFICES ASSUME Typed, Classify PROVE Typed'
  OBVIOUS
<1>1. /\ event.first \in Stamp /\ event.last \in Stamp /\ nowUs \in Stamp
      /\ firstUs \in Stamp /\ 0 \in Stamp
      /\ pending \in BOOLEAN /\ heard \in BOOLEAN
      /\ accepted \in [valid : BOOLEAN, us : Stamp, sent : BOOLEAN]
      /\ adu \in {"empty", "reply"} /\ state \in States /\ resume \in States
  BY DEF Typed, Readings, Frames, Counters, Place, Stamp
<1>2. \A us \in Stamp : Anchor(us, nowUs) \in Stamp
  BY AnchorIs DEF Typed, Readings
<1>3. (\E more : NoteFrame(more)) => firstUs' \in Stamp
  BY <1>1, <1>2 DEF NoteFrame
<1>4. ResumeAfter => state' \in States
  BY <1>1 DEF ResumeAfter, States
<1>5. NoEvent \in [status : {"none", "ok", "crc", "frame", "gap"},
                   kind : {"none", "reply", "same", "other"},
                   first : Stamp, last : Stamp]
  BY <1>1 DEF NoEvent
<1>6. ASSUME firstUs' \in Stamp, pending' \in BOOLEAN, heard' \in BOOLEAN,
             state' \in States, adu' \in {"empty", "reply"},
             accepted' \in [valid : BOOLEAN, us : Stamp, sent : BOOLEAN],
             flags' \subseteq flags \cup {"active", "match", "bad", "crc"},
             pc' = "head", event' = NoEvent, resume' = "WAIT_FIRST", nowUs' = 0,
             UNCHANGED <<line, rx, op, avail, startUs, lateUs, drain, result, clock, lost>>
      PROVE  Typed'
  <2>. USE DEF Typed
  <2>1. Readings'
    BY <1>1, <1>6 DEF Readings, drain, clock
  <2>2. Bytes'
    BY <1>6, BytesKept
  <2>3. Place'
    BY <1>6 DEF Place, States
  <2>4. Frames'
    BY <1>5, <1>6 DEF Frames
  <2>5. Counters'
    BY <1>6 DEF Counters, clock
  <2>. QED BY <2>1, <2>2, <2>3, <2>4, <2>5
<1>7. CASE ClassifyError
  BY <1>1, <1>4, <1>6, <1>7 DEF ClassifyError, ResumeAfter, kept
<1>8. CASE ClassifyDuplicate
  <2>1. heard' \in BOOLEAN
    BY <1>8 DEF ClassifyDuplicate
  <2>. HIDE DEF RecentDuplicate
  <2>2. NoteFrame({}) /\ ResumeAfter /\ UNCHANGED pending
    BY <1>8 DEF ClassifyDuplicate
  <2>. QED BY <1>1, <1>3, <1>4, <1>6, <2>1, <2>2 DEF NoteFrame, ResumeAfter, kept
<1>9. CASE ClassifyMatch
  <2>1. heard' \in BOOLEAN /\ pending' \in BOOLEAN
    BY <1>9 DEF ClassifyMatch
  <2>2. accepted' \in [valid : BOOLEAN, us : Stamp, sent : BOOLEAN]
    BY <1>1, <1>9 DEF ClassifyMatch
  <2>3. /\ adu' = "reply" /\ NoteFrame({"match"})
        /\ state' = "DRAIN" /\ pc' = "head" /\ event' = NoEvent
        /\ resume' = "WAIT_FIRST" /\ nowUs' = 0
        /\ UNCHANGED <<line, rx, op, avail, startUs, lateUs, drain, result, clock, lost>>
    BY <1>9 DEF ClassifyMatch
  <2>. QED BY <1>3, <1>6, <2>1, <2>2, <2>3 DEF NoteFrame, States
<1>10. ASSUME NEW settles \in BOOLEAN, ClassifyOther(settles) PROVE Typed'
  <2>1. pending' \in BOOLEAN
    BY <1>10 DEF ClassifyOther
  <2>2. NoteFrame({}) /\ ResumeAfter /\ UNCHANGED heard
    BY <1>10 DEF ClassifyOther
  <2>. QED BY <1>1, <1>3, <1>4, <1>6, <2>1, <2>2 DEF NoteFrame, ResumeAfter, kept
<1>. QED BY <1>7, <1>8, <1>9, <1>10 DEF Classify

LEMMA TypedDrain ==
  Typed /\ (DrainCall \/ DrainSample \/ DrainLoad \/ DrainLoop) => Typed'
<1> SUFFICES ASSUME Typed, DrainCall \/ DrainSample \/ DrainLoad \/ DrainLoop PROVE Typed'
  OBVIOUS
<1>1. Live(now) \in BOOLEAN /\ 0 \in Stamp
  BY LiveIs DEF Stamp
<1>2. CASE DrainCall
  <2>. USE <1>2 DEF DrainCall, Typed
  <2>1. Readings'
    BY <1>1 DEF Readings
  <2>2. Place'
    BY DEF Place
  <2>3. Counters'
    BY DEF Counters, ghost
  <2>. QED BY <2>1, <2>2, <2>3, BytesKept, FramesKept
<1>3. CASE DrainSample
  <2>. USE <1>3 DEF DrainSample, Typed
  <2>1. Readings'
    BY <1>1 DEF Readings, drain, clock
  <2>2. Place'
    BY DEF Place
  <2>. QED BY <2>1, <2>2, BytesKept, FramesKept, CountersKept
<1>4. CASE DrainLoad
  <2>. USE <1>4 DEF DrainLoad, Typed
  <2>1. Readings'
    BY <1>1 DEF Readings, txn, clock, Bytes
  <2>2. Place'
    BY DEF Place
  <2>. QED BY <2>1, <2>2, BytesKept, FramesKept, CountersKept DEF txn
<1>5. CASE DrainLoop
  <2>. USE <1>5 DEF DrainLoop, Typed
  <2>1. Readings'
    BY <1>1 DEF Readings, txn, clock
  <2>2. Place'
    BY DEF Place
  <2>. QED BY <2>1, <2>2, BytesKept, FramesKept, CountersKept DEF txn
<1>. QED BY <1>2, <1>3, <1>4, <1>5

LEMMA VerdictIs ==
  ASSUME NEW outcome
  PROVE  /\ Verdict(outcome) \in {"success", "timeout", "frame", "crc"}
         /\ Verdict(outcome) = "success" <=> "match" \in outcome
BY DEF Verdict

LEMMA TypedReturn ==
  ASSUME Typed, Leave, Bytes', pending' \in BOOLEAN,
         adu' \in {"empty", "reply"},
         result' \in {"none", "success", "timeout", "frame", "crc"},
         accepted' \in [valid : BOOLEAN, us : Stamp, sent : BOOLEAN]
  PROVE  Typed'
<1>1. 0 \in Stamp
  BY DEF Stamp
<1>. USE DEF Leave, Typed
<1>2. Readings'
  BY <1>1 DEF Readings
<1>3. Place'
  BY DEF Place, States
<1>4. Frames'
  BY DEF Frames
<1>5. Counters'
  BY AgeRange DEF Counters, ghost
<1>. QED BY <1>2, <1>3, <1>4, <1>5

LEMMA TypedLeave ==
  Typed /\ (ReadDone \/ (\E sent \in BOOLEAN : WriteDone(sent)) \/ DrainEscape) => Typed'
<1> SUFFICES ASSUME Typed,
                    ReadDone \/ (\E sent \in BOOLEAN : WriteDone(sent)) \/ DrainEscape
             PROVE  Typed'
  OBVIOUS
<1>1. /\ pending \in BOOLEAN /\ adu \in {"empty", "reply"}
      /\ result \in {"none", "success", "timeout", "frame", "crc"}
      /\ accepted \in [valid : BOOLEAN, us : Stamp, sent : BOOLEAN]
  BY DEF Typed, Readings, Frames
<1>2. UNCHANGED <<line, rx>> => Bytes'
  BY BytesKept DEF Typed
<1>3. ASSUME NEW outcome, ReadReturn(outcome)
      PROVE  /\ adu' \in {"empty", "reply"}
             /\ result' \in {"none", "success", "timeout", "frame", "crc"}
  BY <1>1, <1>3, VerdictIs DEF ReadReturn
<1>4. CASE ReadDone
  BY <1>1, <1>2, <1>3, <1>4, TypedReturn DEF ReadDone, Leave
<1>5. ASSUME NEW sent \in BOOLEAN, WriteDone(sent) PROVE Typed'
  <2>1. accepted' \in [valid : BOOLEAN, us : Stamp, sent : BOOLEAN]
    BY <1>1, <1>5 DEF WriteDone
  <2>. QED BY <1>1, <1>2, <1>5, <2>1, TypedReturn DEF WriteDone, Leave
<1>6. CASE DrainEscape
  <2>1. /\ ring' = <<>> /\ lastRx' = 0 /\ pending' = FALSE /\ Leave
        /\ UNCHANGED <<line, accepted>>
    BY <1>6 DEF DrainEscape, Leave
  <2>2. adu' \in {"empty", "reply"} /\ result' \in {"none", "success", "timeout", "frame", "crc"}
    BY <1>1, <1>3, <1>6 DEF DrainEscape
  <2>3. ring' \in Seq(Stamp) /\ Len(ring') = 0 /\ 0 \in Stamp
    BY <2>1, EmptySeq DEF Stamp
  <2>4. Producer'
    BY <2>1, <2>3 DEF Typed, Bytes, Producer, line
  <2>5. Bytes'
    BY <2>1, <2>3, <2>4 DEF Typed, Bytes, line
  <2>. QED BY <1>1, <2>1, <2>2, <2>5, TypedReturn
<1>. QED BY <1>4, <1>5, <1>6

LEMMA TypedArrive == Typed /\ Arrive => Typed'
<1> SUFFICES ASSUME Typed, Arrive PROVE Typed'
  OBVIOUS
<1>0. quiet \in 0 .. T35 /\ 0 \in 0 .. T35
  BY DEF Typed, Counters
<1>1. /\ due' \in BOOLEAN /\ quiet' \in 0 .. T35
      /\ UNCHANGED <<rx, op, loop, nowUs, txn, drain, kept, now, lag, age, hush, calls, ghost>>
  BY <1>0, Zenon DEF Arrive
<1>2. /\ bytes \in 0 .. MaxBytes /\ uart \in 0 .. UartRoom /\ now \in Stamp
      /\ push \in [at : {"none", "stamped", "stored"}, ts : Stamp] /\ Producer
  BY DEF Typed, Bytes, Readings
<1>3. bytes' \in 0 .. MaxBytes
  BY <1>2 DEF Arrive
<1>4. uart' \in 0 .. UartRoom
  BY <1>2 DEF Arrive
<1>5. push' = [at |-> "stamped", ts |-> now] \/ push' = push
  BY DEF Arrive
<1>6. push' \in [at : {"none", "stamped", "stored"}, ts : Stamp]
  BY <1>2, <1>5
<1>7. Producer'
  BY <1>1, <1>2, <1>5 DEF Arrive, Producer, rx
<1>. USE DEF Typed
<1>8. Readings'
  BY <1>1 DEF Readings, txn, drain
<1>9. Bytes'
  BY <1>1, <1>3, <1>4, <1>6, <1>7 DEF Bytes, rx
<1>10. Place'
  BY <1>1 DEF Place, loop
<1>11. Frames'
  BY <1>1, FramesKept DEF txn, loop
<1>12. Counters'
  BY <1>1 DEF Counters, ghost
<1>. QED BY <1>8, <1>9, <1>10, <1>11, <1>12

LEMMA TypedPush == Typed /\ RxThread => Typed'
<1> SUFFICES ASSUME Typed, RxThread PROVE Typed'
  OBVIOUS
<1>1. /\ push \in [at : {"none", "stamped", "stored"}, ts : Stamp] /\ Producer
      /\ ring \in Seq(Stamp) /\ Len(ring) \in Nat /\ Len(ring) <= Room
      /\ now \in Stamp /\ lastRx \in Stamp /\ 0 \in Stamp
  BY LenProperties DEF Typed, Bytes, Readings, Stamp
<1>2. push # NoPush /\ Threaded
  <2>1. push.at \in {"stamped", "stored"}
    BY DEF RxThread, PushStore, PushPublish
  <2>2. NoPush.at = "none"
    BY DEF NoPush
  <2>3. push # NoPush
    BY <2>1, <2>2
  <2>. QED BY <1>1, <2>3 DEF Producer
<1>3. NoPush \in [at : {"none", "stamped", "stored"}, ts : Stamp]
  BY <1>1 DEF NoPush
<1>. USE DEF Typed
<1>4. Readings'
  BY DEF RxThread, PushStore, PushPublish, Readings, txn, drain, clock
<1>5. Place'
  BY DEF RxThread, PushStore, PushPublish, Place, loop
<1>6. Frames'
  BY FramesKept DEF RxThread, PushStore, PushPublish, txn, loop
<1>7. CASE PushStore
  <2>1. lost' \in BOOLEAN
    <3>1. (Len(ring) >= Room) \in BOOLEAN
      BY <1>1
    <3>. QED BY <1>7, <3>1, Zenon DEF PushStore
  <2>2. Since(push.ts, now) \in Nat
    <3>1. push.ts \in Stamp /\ now \in Stamp
      BY <1>1
    <3>2. Stamp \subseteq Nat
      BY DEF Stamp
    <3>3. push.ts \in Int /\ now \in Int
      BY <3>1 DEF Stamp
    <3>4. Since(push.ts, now) \in Stamp
      BY <3>3, SinceIs
    <3>. QED BY <3>2, <3>4
  <2>3. quiet' \in 0 .. T35
    <3>1. quiet' = Min({T35, Since(push.ts, now)})
      BY <1>7 DEF PushStore
    <3>2. quiet' = IF T35 <= Since(push.ts, now) THEN T35 ELSE Since(push.ts, now)
      BY <2>2, <3>1, MinOf
    <3>. QED BY <2>2, <3>2
  <2>4. UNCHANGED <<lag, age, hush, calls, heard>>
    BY <1>7 DEF PushStore
  <2>5. Counters'
    BY <2>1, <2>3, <2>4 DEF Counters
  <2>6. push' \in [at : {"none", "stamped", "stored"}, ts : Stamp] /\ lastRx' \in Stamp
    BY <1>1, <1>3, <1>7 DEF PushStore
  <2>7. push'.at = "stored" => Len(ring) < Room
    <3>1. ~ (Len(ring) < Room) => push' = NoPush
      BY <1>7 DEF PushStore
    <3>2. NoPush.at = "none"
      BY DEF NoPush
    <3>. QED BY <3>1, <3>2
  <2>8. Producer'
    BY <1>1, <1>2, <1>7, <2>7 DEF PushStore, Producer
  <2>9. Bytes'
    BY <1>7, <2>6, <2>8 DEF PushStore, Bytes
  <2>. QED BY <1>4, <1>5, <1>6, <2>5, <2>9
<1>8. CASE PushPublish
  <2>1. /\ push.at = "stored" /\ ring' = Append(ring, push.ts) /\ push' = NoPush
        /\ UNCHANGED <<uart, due, bytes, lastRx, clock, ghost>>
    BY <1>8 DEF PushPublish
  <2>2. ring' \in Seq(Stamp) /\ Len(ring') = Len(ring) + 1
    BY <1>1, <2>1, AppendProperties
  <2>3. Len(ring') <= Room
    BY <1>1, <2>1, <2>2 DEF Producer
  <2>4. Producer'
    BY <1>1, <1>2, <2>1 DEF Producer, NoPush
  <2>5. Bytes'
    BY <1>1, <1>3, <2>1, <2>2, <2>3, <2>4 DEF Bytes
  <2>. QED BY <1>4, <1>5, <1>6, <2>1, <2>5, CountersKept
<1>. QED BY <1>7, <1>8 DEF RxThread

\* The clock of the step, read once.
LEMMA ElapseIs ==
  ASSUME Typed, NEW d \in Nat, Elapse(d)
  PROVE  /\ now' \in Stamp /\ age' \in Ages /\ quiet' \in 0 .. T35 /\ hush' \in 0 .. T35
         /\ due' \in BOOLEAN /\ age' = IF age + d <= ReturnBound + 1 THEN age + d ELSE ReturnBound + 1
<1>1. /\ now \in Nat /\ age \in Nat /\ quiet \in 0 .. T35 /\ hush \in 0 .. T35
      /\ ReturnBound \in Nat
  <2>1. Max({ReturnBound, MaxRest}) \in Nat
    BY Windows, MaxOf
  <2>. QED BY <2>1, Windows DEF Typed, Readings, Counters, Ages, Stamp
<1>2. now' \in Stamp
  BY <1>1, LaterIs DEF Elapse
<1>3. age' = IF age + d <= ReturnBound + 1 THEN age + d ELSE ReturnBound + 1
  BY <1>1, MinOf DEF Elapse
<1>4. age' \in Ages
  BY <1>1, <1>3, AgeRange
<1>5. quiet' = IF T35 <= quiet + d THEN T35 ELSE quiet + d
  BY <1>1, MinOf DEF Elapse
<1>6. quiet' \in 0 .. T35
  BY <1>1, <1>5
<1>7. Max({hush, quiet'}) = IF hush >= quiet' THEN hush ELSE quiet'
  BY <1>1, <1>6, MaxOf
<1>8. hush' \in 0 .. T35
  BY <1>1, <1>6, <1>7 DEF Elapse
<1>9. due' \in BOOLEAN
  BY DEF Elapse
<1>. QED BY <1>2, <1>3, <1>4, <1>6, <1>8, <1>9

LEMMA TypedElapse ==
  ASSUME Typed, NEW d \in Nat, Elapse(d), lag' \in 0 .. Lag
  PROVE  Typed'
<1>1. /\ now' \in Stamp /\ age' \in Ages /\ quiet' \in 0 .. T35 /\ hush' \in 0 .. T35
      /\ due' \in BOOLEAN
  BY ElapseIs
<1>2. UNCHANGED <<uart, push, bytes, rx, op, loop, nowUs, txn, drain, kept, calls, ghost>>
  BY DEF Elapse
<1>. USE DEF Typed
<1>3. Readings'
  BY <1>1, <1>2 DEF Readings, txn, drain
<1>4. Bytes'
  BY <1>1, <1>2 DEF Bytes, Producer, rx
<1>5. Place'
  BY <1>2 DEF Place, loop
<1>6. Frames'
  BY <1>2, FramesKept DEF txn, loop
<1>7. Counters'
  BY <1>1, <1>2 DEF Counters, ghost
<1>. QED BY <1>3, <1>4, <1>5, <1>6, <1>7

LEMMA TypedTime == Typed /\ (Tick \/ (\E d \in Rests : Rest(d))) => Typed'
<1>1. ASSUME Typed, Tick PROVE Typed'
  <2>1. lag' \in 0 .. Lag
    BY <1>1 DEF Tick, Typed, Counters
  <2>. QED BY <1>1, <2>1, TypedElapse DEF Tick
<1>2. ASSUME Typed, NEW d \in Rests, Rest(d) PROVE Typed'
  <2>1. d \in Nat
    BY TransactionAssumption
  <2>2. lag' \in 0 .. Lag
    BY <1>2 DEF Rest, Typed, Counters
  <2>. QED BY <1>2, <2>1, <2>2, TypedElapse DEF Rest
<1>. QED BY <1>1, <1>2

LEMMA TypedStep == Typed /\ [Next]_vars => Typed'
<1> SUFFICES ASSUME Typed, [Next]_vars PROVE Typed'
  OBVIOUS
<1>1. CASE ReadCall \/ WriteCall
  BY <1>1, TypedCall
<1>2. CASE LoopHead \/ Look \/ Count \/ CarveNone \/ Judge \/ Classify
  BY <1>2, TypedHead, TypedLook, TypedCount, TypedCarveNone, TypedJudge, TypedClassify
<1>3. ASSUME NEW o \in Outcomes(Run, now), NEW kind \in Kinds \cup {"none"},
             CarveCandidate(o, kind)
      PROVE  Typed'
  BY <1>3, TypedCandidate
<1>4. CASE Drain
  <2>1. ASSUME NEW o \in Outcomes(Run, now), NEW settles \in BOOLEAN, DrainCarve(o, settles)
        PROVE  Typed'
    BY <2>1, TypedDrainCarve
  <2>. QED BY <1>4, <2>1, TypedDrain, TypedHead, TypedLeave DEF Drain
<1>5. CASE Arrive \/ RxThread \/ Tick \/ (\E d \in Rests : Rest(d))
  BY <1>5, TypedArrive, TypedPush, TypedTime
<1>6. CASE UNCHANGED vars
  <2>1. UNCHANGED <<line, rx, op, loop, nowUs, txn, drain, kept, clock, ghost>>
    BY <1>6 DEF vars
  <2>2. Readings' /\ Place'
    BY <2>1 DEF Typed, Readings, Place, txn, drain, clock, loop
  <2>. QED BY <2>1, <2>2, BytesKept, FramesKept, CountersKept DEF Typed, txn, loop
<1>. QED BY <1>1, <1>2, <1>3, <1>4, <1>5, <1>6 DEF Next, Owner

LEMMA AlwaysTyped == Spec => []Typed
BY TypedInit, TypedStep, PTL DEF Spec

\* Whatever the line, the RX thread and the caller do, every reading of micros() stays one,
\* the ring holds no more than it can and the counters of a call stay in their range.
THEOREM TransactionTypeCorrect == Spec => []TypeOK
BY AlwaysTyped, TypedIs, PTL

-----------------------------------------------------------------------------
(* The places of a call, and what it has heard *)

Receiving == {"WAIT_FIRST", "RX_ACTIVE", "LATE_WINDOW"}
Pass == {"head", "look"}
InDrain == {"drainHead", "sample", "load", "check"}

\* Which place belongs to which state of the call.  Activity is what moves a
\* call to RX_ACTIVE.
Phase ==
  /\ op = "none" <=> state = "DONE"
  /\ op = "none" => pc = "idle"
  /\ state \in Receiving => pc \in Pass \cup {"count", "carve", "judge", "last"}
  /\ state = "PROCESS_FRAME" => pc \in Pass \cup {"classify"} /\ resume \in Receiving
  /\ state = "DRAIN" => pc \in Pass \cup {"drain", "count", "carve"} \cup InDrain
  /\ pc = "last" => state = "RX_ACTIVE"
  /\ op = "write" => state = "DRAIN" /\ pc \notin Pass
  /\ state = "RX_ACTIVE" => "active" \in flags
  /\ state = "PROCESS_FRAME" /\ resume # "LATE_WINDOW" => "active" \in flags

\* The ADU holds a frame when the call has a match; what was heard and is no
\* match was the echo of an answer to an earlier request.
Answer ==
  /\ op = "read" => (adu = "reply" <=> "match" \in flags)
  /\ op = "read" /\ "match" \in flags => heard
  /\ op = "read" /\ heard => "match" \in flags \/ (accepted.valid /\ accepted.sent)
  /\ op # "read" => flags = {}
  /\ op = "write" => adu = "empty" /\ result = "none"
  /\ op = "none" => /\ result = "success" <=> adu = "reply"
                    /\ result = "success" => heard
                    /\ heard /\ result \in {"timeout", "crc"}
                         => accepted.valid /\ accepted.sent

Control == Typed /\ Phase /\ Answer

LEMMA ControlInit == Init => Control
<1> SUFFICES ASSUME Init PROVE Control
  OBVIOUS
<1>1. Phase
  BY DEF Init, Phase, Receiving
<1>2. Answer
  BY DEF Init, Answer
<1>. QED BY <1>1, <1>2, TypedInit DEF Control

LEMMA ControlCall == Control /\ (ReadCall \/ WriteCall) => Phase' /\ Answer'
<1> SUFFICES ASSUME Control, ReadCall \/ WriteCall PROVE Phase' /\ Answer'
  OBVIOUS
<1>. USE DEF Control, ReadCall, WriteCall, Call
<1>1. Phase'
  BY DEF Phase, Receiving, Pass, InDrain, Answer
<1>2. Answer'
  BY DEF Answer
<1>. QED BY <1>1, <1>2

\* A step that is neither a call nor a return, and judges no frame.
LEMMA AnswerKept ==
  ASSUME Answer, UNCHANGED <<op, kept, heard>>, op # "read" => flags' = flags,
         "match" \in flags' <=> "match" \in flags
  PROVE  Answer'
BY DEF Answer, kept

LEMMA ControlPass ==
  Control /\ (LoopHead \/ Look \/ Count \/ CarveNone \/ Judge) => Phase' /\ Answer'
<1> SUFFICES ASSUME Control, LoopHead \/ Look \/ Count \/ CarveNone \/ Judge
             PROVE  Phase' /\ Answer'
  OBVIOUS
<1>. USE DEF Control
<1>1. CASE LoopHead
  <2>1. Phase'
    BY <1>1 DEF Phase, LoopHead, Receiving, Pass, InDrain
  <2>. QED BY <1>1, <2>1, AnswerKept DEF LoopHead
<1>2. CASE Look
  <2>1. Phase'
    BY <1>2 DEF Phase, Look, NoteFirst, Receiving, Pass, InDrain, Typed, Place, States
  <2>2. op # "write"
    BY <1>2 DEF Phase, Look, Pass
  <2>3. op # "none"
    BY <1>2 DEF Phase, Look, Pass
  <2>4. op = "read"
    BY <2>2, <2>3 DEF Typed, Place
  <2>5. UNCHANGED <<op, kept, heard>>
    BY <1>2 DEF Look, ghost
  <2>6. "match" \in flags' <=> "match" \in flags
    <3>1. flags' = flags \/ flags' = flags \cup {"active"}
      BY <1>2 DEF Look, NoteFirst
    <3>. QED BY <3>1
  <2>. QED BY <2>1, <2>4, <2>5, <2>6, AnswerKept
<1>3. CASE Count
  <2>1. Phase'
    BY <1>3 DEF Phase, Count, txn, Receiving, Pass, InDrain
  <2>. QED BY <1>3, <2>1, AnswerKept DEF Count, txn, ghost
<1>4. CASE CarveNone
  <2>1. Phase'
    BY <1>4 DEF Phase, CarveNone, txn, Receiving, Pass, InDrain
  <2>. QED BY <1>4, <2>1, AnswerKept DEF CarveNone, txn, ghost
<1>5. CASE Judge
  <2>1. \E next \in States, at \in {"head", "last"} :
          /\ Goto(next, at) /\ pc \in {"judge", "last"}
          /\ next \in Receiving \cup {"DRAIN"} /\ (at = "last" => next = "RX_ACTIVE")
          /\ next = "RX_ACTIVE" => state = "RX_ACTIVE"
          /\ flags' = flags \/ (flags' = flags \cup {"late"} /\ state = "WAIT_FIRST")
    <3>. USE DEF Receiving, States
    <3>1. CASE JudgeEscape
      BY <3>1 DEF JudgeEscape
    <3>2. ASSUME NEW answerable \in BOOLEAN, WaitFirstExpires(answerable)
          PROVE  Goto("LATE_WINDOW", "head") /\ flags' = flags \cup {"late"} /\ pc = "judge"
                 /\ state = "WAIT_FIRST"
      BY <3>2 DEF WaitFirstExpires
    <3>3. CASE WaitFirst
      BY <3>3 DEF WaitFirst
    <3>4. CASE LateWindow
      BY <3>4 DEF LateWindow
    <3>5. CASE RxActiveEnvelope
      BY <3>5 DEF RxActiveEnvelope
    <3>6. CASE RxActiveEmpty
      BY <3>6 DEF RxActiveEmpty
    <3>7. CASE RxActiveLast
      BY <3>7 DEF RxActiveLast, Phase
    <3>. QED BY <1>5, <3>1, <3>2, <3>3, <3>4, <3>5, <3>6, <3>7 DEF Judge
  <2>2. PICK next \in States, at \in {"head", "last"} :
          /\ Goto(next, at) /\ pc \in {"judge", "last"}
          /\ next \in Receiving \cup {"DRAIN"} /\ (at = "last" => next = "RX_ACTIVE")
          /\ next = "RX_ACTIVE" => state = "RX_ACTIVE"
          /\ flags' = flags \/ (flags' = flags \cup {"late"} /\ state = "WAIT_FIRST")
    BY <2>1
  <2>3. op = "read" /\ state \in Receiving
    BY <2>2 DEF Phase, Pass, InDrain, Receiving, Typed, Place, States
  <2>4. Phase'
    BY <2>2, <2>3 DEF Phase, Goto, Receiving, Pass, InDrain
  <2>. QED BY <2>2, <2>3, <2>4, AnswerKept DEF Goto, ghost
<1>. QED BY <1>1, <1>2, <1>3, <1>4, <1>5

LEMMA ControlCandidate ==
  ASSUME Control, NEW o, NEW kind, CarveCandidate(o, kind)
  PROVE  Phase' /\ Answer'
<1>1. op = "read" /\ state \in Receiving
  BY DEF Control, CarveCandidate, Phase, Pass, InDrain, Receiving, Typed, Place, States
<1>2. Phase'
  BY <1>1 DEF Control, CarveCandidate, NoteFirst, Phase, Pass, InDrain, Receiving
<1>3. Answer'
  BY <1>1, AnswerKept DEF Control, CarveCandidate, NoteFirst, ghost
<1>. QED BY <1>2, <1>3

LEMMA ControlClassify == Control /\ Classify => Phase' /\ Answer'
<1> SUFFICES ASSUME Control, Classify PROVE Phase' /\ Answer'
  OBVIOUS
<1>. USE DEF Control
<1>1. pc = "classify"
  BY DEF Classify, ClassifyError, ClassifyDuplicate, ClassifyMatch, ClassifyOther
<1>2. op = "read" /\ state = "PROCESS_FRAME" /\ resume \in Receiving
  BY <1>1 DEF Phase, Pass, InDrain, Receiving, Typed, Place, States
<1>3. ASSUME ResumeAfter, "active" \in flags => "active" \in flags'
      PROVE  Phase'
  BY <1>2, <1>3 DEF Phase, ResumeAfter, Pass, InDrain, Receiving
<1>4. CASE ClassifyError
  <2>1. Phase'
    BY <1>3, <1>4 DEF ClassifyError
  <2>. QED BY <1>2, <1>4, <2>1, AnswerKept DEF ClassifyError, ResumeAfter
<1>5. CASE ClassifyDuplicate
  <2>1. Phase'
    BY <1>3, <1>5 DEF ClassifyDuplicate, NoteFrame
  <2>2. accepted.valid /\ accepted.sent /\ heard' = TRUE /\ UNCHANGED <<op, kept>>
    BY <1>5 DEF ClassifyDuplicate, RecentDuplicate, ResumeAfter
  <2>3. "match" \in flags' <=> "match" \in flags
    BY <1>5 DEF ClassifyDuplicate, NoteFrame
  <2>. QED BY <1>2, <2>1, <2>2, <2>3 DEF Answer, kept
<1>6. CASE ClassifyMatch
  <2>1. Phase'
    BY <1>2, <1>6 DEF ClassifyMatch, NoteFrame, Phase, Pass, InDrain, Receiving
  <2>2. adu' = "reply" /\ heard' = TRUE /\ "match" \in flags' /\ op' = op
    BY <1>6 DEF ClassifyMatch, NoteFrame
  <2>. QED BY <1>2, <2>1, <2>2 DEF Answer
<1>7. ASSUME NEW settles \in BOOLEAN, ClassifyOther(settles) PROVE Phase' /\ Answer'
  <2>1. Phase'
    BY <1>3, <1>7 DEF ClassifyOther, NoteFrame
  <2>. QED BY <1>2, <1>7, <2>1, AnswerKept DEF ClassifyOther, NoteFrame, ResumeAfter
<1>. QED BY <1>4, <1>5, <1>6, <1>7 DEF Classify

LEMMA ControlDrain ==
  Control /\ (DrainCall \/ DrainHead \/ DrainSample \/ DrainLoad \/ DrainLoop)
    => Phase' /\ Answer'
<1> SUFFICES ASSUME Control,
                    DrainCall \/ DrainHead \/ DrainSample \/ DrainLoad \/ DrainLoop
             PROVE  Phase' /\ Answer'
  OBVIOUS
<1>1. UNCHANGED <<op, state, resume, flags, kept, heard>>
  BY DEF DrainCall, DrainHead, DrainSample, DrainLoad, DrainLoop, txn, ghost
<1>2. /\ pc \in {"drain"} \cup InDrain
      /\ pc' \in {"count"} \cup InDrain
  BY DEF DrainCall, DrainHead, DrainSample, DrainLoad, DrainLoop, InDrain
<1>3. state = "DRAIN"
  BY <1>2 DEF Control, Phase, Pass, Receiving, InDrain, Typed, Place, States
<1>4. Phase'
  BY <1>1, <1>2, <1>3 DEF Control, Phase, Pass, InDrain, Receiving
<1>. QED BY <1>1, <1>4, AnswerKept DEF Control

LEMMA ControlDrainCarve ==
  ASSUME Control, NEW o, NEW settles, DrainCarve(o, settles)
  PROVE  Phase' /\ Answer'
<1>1. Phase'
  BY DEF Control, DrainCarve, Phase, Pass, InDrain, Receiving
<1>2. Answer'
  BY AnswerKept DEF Control, DrainCarve, ghost
<1>. QED BY <1>1, <1>2

LEMMA ControlLeave ==
  Control /\ (ReadDone \/ (\E sent \in BOOLEAN : WriteDone(sent)) \/ DrainEscape)
    => Phase' /\ Answer'
<1> SUFFICES ASSUME Control,
                    ReadDone \/ (\E sent \in BOOLEAN : WriteDone(sent)) \/ DrainEscape
             PROVE  Phase' /\ Answer'
  OBVIOUS
<1>. USE DEF Control
<1>1. Leave /\ pc = "check"
  BY DEF ReadDone, WriteDone, DrainEscape
<1>2. Phase'
  BY <1>1 DEF Leave, Phase, Receiving
<1>3. op \in {"read", "write"}
  BY <1>1 DEF Phase, Typed, Place
<1>4. op' = "none" /\ flags' = {} /\ heard' = heard
  BY <1>1 DEF Leave, ghost
<1>5. CASE ReadDone
  <2>1. /\ op = "read" /\ result' = Verdict(flags) /\ accepted' = accepted
        /\ adu' = IF "match" \in flags THEN adu ELSE "empty"
    BY <1>5 DEF ReadDone, ReadReturn
  <2>2. result' = "success" <=> "match" \in flags
    BY <2>1, VerdictIs
  <2>. QED BY <1>2, <1>4, <2>1, <2>2 DEF Answer
<1>6. ASSUME NEW sent \in BOOLEAN, WriteDone(sent) PROVE Answer'
  <2>1. op = "write" /\ UNCHANGED <<adu, result>>
    BY <1>6 DEF WriteDone
  <2>. QED BY <1>4, <2>1 DEF Answer
<1>7. CASE DrainEscape
  <2>1. CASE op = "read"
    <3>1. /\ accepted' = accepted
          /\ result' = Verdict((flags \ {"match"}) \cup {"bad"})
          /\ adu' = IF "match" \in (flags \ {"match"}) \cup {"bad"} THEN adu ELSE "empty"
      BY <1>7, <2>1 DEF DrainEscape, ReadReturn
    <3>2. result' = "frame" /\ adu' = "empty"
      <4> DEFINE outcome == (flags \ {"match"}) \cup {"bad"}
      <4>1. "match" \notin outcome /\ outcome \cap {"match", "bad"} = {"bad"}
        OBVIOUS
      <4> HIDE DEF outcome
      <4>2. Verdict(outcome) = "frame"
        BY <4>1 DEF Verdict
      <4>. QED BY <3>1, <4>1, <4>2 DEF outcome
    <3>. QED BY <1>2, <1>4, <3>2 DEF Answer
  <2>2. CASE op = "write"
    BY <1>2, <1>4, <1>7, <2>2 DEF DrainEscape, Answer
  <2>. QED BY <1>3, <2>1, <2>2
<1>. QED BY <1>2, <1>5, <1>6, <1>7

LEMMA ControlLine ==
  Control /\ (Arrive \/ RxThread \/ Tick \/ (\E d \in Rests : Rest(d)) \/ UNCHANGED vars)
    => Phase' /\ Answer'
<1> SUFFICES ASSUME Control,
                    Arrive \/ RxThread \/ Tick \/ (\E d \in Rests : Rest(d)) \/ UNCHANGED vars
             PROVE  Phase' /\ Answer'
  OBVIOUS
<1>1. UNCHANGED <<op, pc, state, resume, flags, kept, heard>>
  BY DEF Arrive, RxThread, PushStore, PushPublish, Tick, Rest, Elapse, loop, txn, ghost, vars
<1>2. Phase'
  BY <1>1 DEF Control, Phase
<1>. QED BY <1>1, <1>2, AnswerKept DEF Control

LEMMA ControlStep == Control /\ [Next]_vars => Control'
<1> SUFFICES ASSUME Control, [Next]_vars PROVE Phase' /\ Answer'
  BY TypedStep DEF Control
<1>1. CASE ReadCall \/ WriteCall
  BY <1>1, ControlCall
<1>2. CASE LoopHead \/ Look \/ Count \/ CarveNone \/ Judge
  BY <1>2, ControlPass
<1>3. CASE Classify
  BY <1>3, ControlClassify
<1>4. ASSUME NEW o \in Outcomes(Run, now), NEW kind \in Kinds \cup {"none"},
             CarveCandidate(o, kind)
      PROVE  Phase' /\ Answer'
  BY <1>4, ControlCandidate
<1>5. CASE Drain
  <2>1. ASSUME NEW o \in Outcomes(Run, now), NEW settles \in BOOLEAN, DrainCarve(o, settles)
        PROVE  Phase' /\ Answer'
    BY <2>1, ControlDrainCarve
  <2>. QED BY <1>5, <2>1, ControlDrain, ControlLeave DEF Drain
<1>6. CASE Arrive \/ RxThread \/ Tick \/ (\E d \in Rests : Rest(d)) \/ UNCHANGED vars
  BY <1>6, ControlLine
<1>. QED BY <1>1, <1>2, <1>3, <1>4, <1>5, <1>6 DEF Next, Owner

LEMMA AlwaysControl == Spec => []Control
BY ControlInit, ControlStep, PTL DEF Spec

\* Success and a frame in the ADU come together, in any sequence of reads and writes and
\* whatever the drain after a match does.
THEOREM TransactionResultAgrees == Spec => []ResultAgrees
<1>1. Control => ResultAgrees
  BY DEF Control, Typed, Place, Answer, ResultAgrees
<1>. QED BY <1>1, AlwaysControl, PTL

\* What answered the request and is not reported was an echo, or fell with its drain.
THEOREM TransactionOnlyEchoesAreDropped == Spec => []OnlyEchoesAreDropped
<1>1. Control => OnlyEchoesAreDropped
  BY DEF Control, Answer, OnlyEchoesAreDropped
<1>. QED BY <1>1, AlwaysControl, PTL

-----------------------------------------------------------------------------
(* The time a call takes *)

\* The age of the call when its pass began; the time its drain has taken; the
\* end of the late window, counted from the start of the call.
Begun == age - lag
Spent == Since(drainUs, now)
Noticed == Since(drainUs, nowUs)
LateEnd == Since(startUs, lateUs)

\* Before the drain a read counts from startUs.
Reading == op = "read" /\ ~Draining

Clocked ==
  /\ op # "none" => lag <= age
  /\ Reading => now = Later(startUs, age)
  /\ Reading /\ pc # "head" => nowUs = Later(startUs, Begun)
  /\ op = "write" /\ ~Draining => age = lag

\* A pass begins within the escape, or within one more pass when it judges the
\* candidate that was found, or two when it enters the drain.
Allowed == CASE state \in Receiving -> Escape
             [] state = "PROCESS_FRAME" -> Escape + Lag
             [] OTHER -> Escape + 2 * Lag

InTime == Reading => Begun <= IF pc \in {"head", "last"} THEN Allowed ELSE Allowed + Lag

\* The drain begins in time and is looked at once in a pass.
DrainInTime ==
  Draining =>
    /\ age - Spent <= Escape + 4 * Lag
    /\ pc = "drainHead" => Spent - lag < DrainEscapeUs
    /\ pc # "drainHead" => lag <= Spent /\ Spent < lag + DrainEscapeUs + Lag
    /\ pc \in {"load", "check"} => Spent - lag <= Noticed /\ Noticed <= Spent

\* A line on which nothing came in was waited for.
Waited ==
  /\ state = "LATE_WINDOW" \/ (state = "PROCESS_FRAME" /\ resume = "LATE_WINDOW")
       => ReadUs + LateGrace <= LateEnd /\ LateEnd - LateGrace <= Begun
  /\ Reading /\ state = "DRAIN" /\ "active" \notin flags => ReadUs + LateGrace <= age

\* The first activity lies between the start of the call and its last pass.
Opened == Reading /\ "active" \in flags /\ state # "DRAIN"
            => Since(startUs, firstUs) <= Begun

Timed == Clocked /\ InTime /\ DrainInTime /\ Waited /\ Opened

-----------------------------------------------------------------------------
(* Readings of one call, counted from its start *)

LEMMA StampNat == Stamp \subseteq Nat /\ Stamp \subseteq Int /\ 0 \in Stamp
BY DEF Stamp

LEMMA StampIn == ASSUME NEW x \in Int, 0 <= x, x < UsWrap PROVE x \in Stamp
BY DEF Stamp

LEMMA StampOut == ASSUME NEW x \in Stamp PROVE x \in Nat /\ x \in Int /\ 0 <= x /\ x < UsWrap
BY DEF Stamp

LEMMA Small == ASSUME NEW x \in Stamp PROVE x % UsWrap = x
<1>1. x \in Int /\ x \in 0 .. UsWrap - 1 /\ x = UsWrap * 0 + x
  BY DEF Stamp
<1>. QED BY <1>1, ModIs

LEMMA Negative == ASSUME NEW x \in Int, -UsWrap <= x, x < 0 PROVE x % UsWrap = x + UsWrap
<1>1. x + UsWrap \in 0 .. UsWrap - 1 /\ x = UsWrap * (-1) + (x + UsWrap)
  OBVIOUS
<1>. QED BY <1>1, ModIs

LEMMA LaterLater ==
  ASSUME NEW a \in Int, NEW b \in Int, NEW d \in Int
  PROVE  Later(Later(a, b), d) = Later(a, b + d)
<1> DEFINE q == (a + b) \div UsWrap
           r == (a + b) % UsWrap
<1>1. q \in Int /\ r \in Int /\ a + b = UsWrap * q + r
  BY ModRange
<1> HIDE DEF q, r
<1>2. r + d \in Int /\ a + (b + d) = (r + d) + UsWrap * q
  BY <1>1
<1>3. ((r + d) + UsWrap * q) % UsWrap = (r + d) % UsWrap
  BY <1>1, <1>2, ModMore
<1>4. Later(a, b) = r /\ Later(a, b + d) = (a + (b + d)) % UsWrap
  BY DEF Later, r
<1>5. Later(Later(a, b), d) = (r + d) % UsWrap
  BY <1>4 DEF Later
<1>. QED BY <1>2, <1>3, <1>4, <1>5

LEMMA SinceBoth ==
  ASSUME NEW a \in Int, NEW b \in Int, NEW c \in Int
  PROVE  Since(Later(a, b), Later(a, c)) = (c - b) % UsWrap
<1> DEFINE p == a + b
           q == a + c
<1>1. p \in Int /\ q \in Int /\ UsWrap \in Nat \ {0} /\ q - p = c - b
  OBVIOUS
<1>2. Since(Later(a, b), Later(a, c)) = ((q % UsWrap) - (p % UsWrap)) % UsWrap
  BY DEF Since, Later
<1> HIDE DEF p, q
<1>3. ((q % UsWrap) - (p % UsWrap)) % UsWrap = (q - p) % UsWrap
  BY ONLY <1>1, ModDiff
<1>. QED BY <1>1, <1>2, <1>3, Zenon

LEMMA LaterNone == ASSUME NEW a \in Stamp PROVE Later(a, 0) = a
<1>1. a + 0 = a
  BY StampNat
<1>. QED BY <1>1, Small DEF Later

LEMMA SinceLater ==
  ASSUME NEW a \in Stamp, NEW b \in Int
  PROVE  Since(a, Later(a, b)) = b % UsWrap
<1>1. a \in Int /\ 0 \in Int /\ b - 0 = b
  BY StampNat
<1>2. Since(Later(a, 0), Later(a, b)) = (b - 0) % UsWrap
  BY <1>1, SinceBoth
<1>. QED BY <1>1, <1>2, LaterNone

LEMMA LaterSince ==
  ASSUME NEW a \in Stamp, NEW c \in Stamp
  PROVE  c = Later(a, Since(a, c))
<1> DEFINE q == (c - a) \div UsWrap
           r == (c - a) % UsWrap
<1>1. a \in Int /\ c \in Int /\ c - a \in Int
  BY StampNat
<1>2. q \in Int /\ r \in Int /\ c - a = UsWrap * q + r
  BY <1>1, ModRange
<1> HIDE DEF q, r
<1>3. a + r = c + UsWrap * (-q) /\ -q \in Int
  BY <1>1, <1>2
<1>4. (c + UsWrap * (-q)) % UsWrap = c % UsWrap
  BY <1>1, <1>3, ModMore
<1>5. (a + r) % UsWrap = c
  BY <1>3, <1>4, Small
<1>. QED BY <1>5 DEF Since, Later, r

\* One more unit of a time that is not yet round.
LEMMA SinceTick ==
  ASSUME NEW a \in Stamp, NEW c \in Stamp, NEW d \in Nat, Since(a, c) + d < UsWrap
  PROVE  Since(a, Later(c, d)) = Since(a, c) + d
<1>1. a \in Int /\ Since(a, c) \in Stamp /\ Since(a, c) \in Int
  <2>1. a \in Int /\ c \in Int
    BY StampNat
  <2>2. Since(a, c) \in Stamp
    BY <2>1, SinceIs, Zenon
  <2>. QED BY <2>1, <2>2, StampOut, Zenon
<1>2. c = Later(a, Since(a, c))
  BY LaterSince
<1>3. Later(c, d) = Later(a, Since(a, c) + d)
  <2>1. d \in Int
    OBVIOUS
  <2>2. Later(Later(a, Since(a, c)), d) = Later(a, Since(a, c) + d)
    BY <1>1, <2>1, LaterLater, Zenon
  <2>. QED BY <1>2, <2>2, Zenon
<1>4. Since(a, c) + d \in Stamp
  BY <1>1, StampOut, StampIn
<1>5. Since(a, c) + d \in Int
  BY <1>1
<1>6. Since(a, Later(a, Since(a, c) + d)) = (Since(a, c) + d) % UsWrap
  BY <1>5, SinceLater, Zenon
<1>7. (Since(a, c) + d) % UsWrap = Since(a, c) + d
  BY <1>4, Small, Zenon
<1>. QED BY <1>3, <1>6, <1>7, Zenon

LEMMA SinceSelf == ASSUME NEW a \in Stamp PROVE Since(a, a) = 0
BY LaterNone, SinceLater, StampNat, Small

\* What signed order says of two readings of one call.
LEMMA SignedOrder ==
  ASSUME NEW x \in Int, -MaxSafe <= x, x < UsWrap
  PROVE  x % UsWrap < UsWrap \div 2 => 0 <= x
<1>1. UsWrap = 2 * (UsWrap \div 2) + (UsWrap % 2) /\ UsWrap % 2 \in 0 .. 1 /\ UsWrap \div 2 \in Int
  BY ModRange
<1>2. CASE x < 0
  <2>1. x % UsWrap = x + UsWrap
    BY <1>2, Negative
  <2>. QED BY <1>1, <1>2, <2>1
<1>. QED BY <1>2

\* The window that ends d after the start of a call.
LEMMA WindowIs ==
  ASSUME startUs \in Stamp, NEW b \in Nat, nowUs = Later(startUs, b), NEW d \in Nat,
         d <= b + MaxSafe, b < UsWrap, Reached(Later(startUs, d))
  PROVE  d <= b
<1>1. startUs \in Int /\ b - d \in Int /\ -MaxSafe <= b - d /\ b - d < UsWrap
  BY StampNat
<1>2. Since(Later(startUs, d), nowUs) = (b - d) % UsWrap
  BY <1>1, SinceBoth
<1>3. (b - d) % UsWrap < UsWrap \div 2
  BY <1>2 DEF Reached, NotBefore
<1>4. 0 <= b - d
  BY <1>1, <1>3, SignedOrder
<1>. QED BY <1>4

\* A byte counts from a moment of the call, whatever its stamp.
LEMMA AnchorInside ==
  ASSUME startUs \in Stamp, NEW b \in Nat, b < UsWrap, nowUs = Later(startUs, b),
         NEW us \in Stamp
  PROVE  Since(startUs, Anchor(us, nowUs)) <= b
<1>0. startUs \in Int /\ b \in Stamp /\ nowUs \in Stamp
  <2>1. startUs \in Int /\ b \in Int
    BY StampNat
  <2>2. b \in Stamp
    BY StampIn
  <2>3. Later(startUs, b) \in Stamp
    BY <2>1, LaterIs, Zenon
  <2>. QED BY <2>1, <2>2, <2>3, Zenon
<1>1. Since(startUs, nowUs) = b
  <2>1. b \in Int
    OBVIOUS
  <2>2. Since(startUs, Later(startUs, b)) = b % UsWrap
    BY <2>1, SinceLater, Zenon
  <2>. QED BY <1>0, <2>2, Small, Zenon
<1>2. Since(startUs, startUs) = 0
  BY SinceSelf
<1>3. CASE Anchor(us, nowUs) = us /\ Since(us, nowUs) <= Escape /\ NotBefore(startUs, us)
  <2> DEFINE u == Since(startUs, us)
  <2>1. u \in Stamp /\ u \in Int /\ us = Later(startUs, u)
    <3>1. us \in Int
      BY StampNat
    <3>2. u \in Stamp
      BY <1>0, <3>1, SinceIs, Zenon
    <3>3. us = Later(startUs, u)
      BY LaterSince, Zenon
    <3>. QED BY <3>2, <3>3, StampNat, Zenon
  <2>2. u < UsWrap \div 2
    BY <1>3 DEF NotBefore
  <2>3. Since(us, nowUs) = (b - u) % UsWrap
    <3>1. b \in Int
      OBVIOUS
    <3> HIDE DEF u
    <3>2. Since(Later(startUs, u), Later(startUs, b)) = (b - u) % UsWrap
      BY <1>0, <2>1, <3>1, SinceBoth, Zenon
    <3>. QED BY <2>1, <3>2, Zenon
  <2> HIDE DEF u
  <2>4. ASSUME u > b PROVE FALSE
    <3>1. UsWrap = 2 * (UsWrap \div 2) + (UsWrap % 2) /\ UsWrap % 2 \in 0 .. 1 /\ UsWrap \div 2 \in Int
      BY ModRange
    <3>2. b - u \in Int /\ -UsWrap <= b - u /\ b - u < 0
      BY <2>1, <2>2, <2>4, <3>1
    <3>3. (b - u) % UsWrap = (b - u) + UsWrap
      BY <3>2, Negative
    <3>4. Escape \in Nat /\ Escape <= MaxSafe
      BY Windows
    <3>5. (b - u) + UsWrap <= Escape
      BY <1>3, <2>3, <3>3
    <3>. QED BY <2>1, <2>2, <3>1, <3>4, <3>5
  <2>5. u <= b
    <3>1. u \in Int
      BY <2>1
    <3>. QED BY <3>1, <2>4
  <2>. QED BY <1>3, <2>5 DEF u
<1>4. \/ Anchor(us, nowUs) = nowUs \/ Anchor(us, nowUs) = startUs
      \/ Anchor(us, nowUs) = us /\ Since(us, nowUs) <= Escape /\ NotBefore(startUs, us)
  <2>1. us \in Int /\ nowUs \in Int
    BY <1>0, StampNat
  <2>3. Since(us, nowUs) \in Stamp
    BY <2>1, SinceIs, Zenon
  <2>2. Since(us, nowUs) \in Int /\ Escape \in Int
    BY <2>3, StampOut, Windows
  <2>. QED BY <2>2 DEF Anchor
<1>. QED BY <1>1, <1>2, <1>3, <1>4

-----------------------------------------------------------------------------
(* A call returns in time *)

Inv == Control /\ Timed

LEMMA TimedInit == Init => Timed
BY DEF Init, Timed, Clocked, InTime, DrainInTime, Waited, Opened, Reading, Draining

LEMMA Numbers ==
  ASSUME Typed
  PROVE  /\ age \in Nat /\ lag \in Nat /\ lag <= Lag
         /\ now \in Stamp /\ startUs \in Stamp /\ nowUs \in Stamp /\ firstUs \in Stamp
         /\ lateUs \in Stamp /\ drainUs \in Stamp
         /\ Begun \in Int /\ Spent \in Nat /\ Noticed \in Nat /\ LateEnd \in Nat
<1>1. /\ now \in Stamp /\ startUs \in Stamp /\ nowUs \in Stamp /\ firstUs \in Stamp
      /\ lateUs \in Stamp /\ drainUs \in Stamp
  BY DEF Typed, Readings
<1>2. age \in Nat /\ lag \in Nat /\ lag <= Lag
  <2>1. Max({ReturnBound, MaxRest}) \in Nat
    BY Windows, MaxOf
  <2>. QED BY <2>1 DEF Typed, Counters, Ages
<1>3. \A a, b \in Stamp : Since(a, b) \in Nat
  <2> TAKE a, b \in Stamp
  <2>1. a \in Int /\ b \in Int
    BY StampNat
  <2>2. Since(a, b) \in Stamp
    BY <2>1, SinceIs, Zenon
  <2>. QED BY <2>2, StampNat
<1>. QED BY <1>1, <1>2, <1>3 DEF Begun, Spent, Noticed, LateEnd

\* The age of a call, by where it is.
LEMMA AgeIs ==
  ASSUME Inv
  PROVE  /\ op # "none" => lag <= age /\ Begun \in Nat
         /\ op = "read" /\ state \in Receiving => Begun <= Escape + Lag
         /\ op = "read" /\ state = "PROCESS_FRAME" => Begun <= Escape + 2 * Lag
         /\ op # "none" /\ ~Draining => age <= Escape + 4 * Lag
         /\ op # "none" => age <= ReturnBound
<1>1. /\ age \in Nat /\ lag \in Nat /\ lag <= Lag /\ Begun = age - lag /\ Spent \in Nat
      /\ Escape \in Nat /\ ReturnBound = Escape + DrainEscapeUs + 6 * Lag
  BY Numbers, Windows DEF Inv, Control, Begun, ReturnBound
<1>2. op # "none" => lag <= age
  BY DEF Inv, Timed, Clocked
<1>3. ASSUME op = "read", ~Draining
      PROVE  /\ state \in Receiving => Begun <= Escape + Lag
             /\ state = "PROCESS_FRAME" => Begun <= Escape + 2 * Lag
             /\ Begun <= Escape + 3 * Lag
  <2>1. Begun <= Allowed \/ Begun <= Allowed + Lag
    BY <1>3 DEF Inv, Timed, InTime, Reading
  <2>2. /\ state \in Receiving => Allowed = Escape
        /\ state = "PROCESS_FRAME" => Allowed = Escape + Lag
        /\ Allowed \in {Escape, Escape + Lag, Escape + 2 * Lag}
    BY DEF Allowed, Receiving
  <2>. QED BY <1>1, <2>1, <2>2
<1>4. op = "write" /\ ~Draining => age = lag
  BY DEF Inv, Timed, Clocked
<1>5. op \in {"none", "read", "write"}
  BY DEF Inv, Control, Typed, Place
<1>6. op # "none" /\ ~Draining => age <= Escape + 4 * Lag
  BY <1>1, <1>3, <1>4, <1>5
<1>7. Draining => age <= Escape + 4 * Lag + Spent /\ Spent < 2 * Lag + DrainEscapeUs
  <2>1. ASSUME Draining
        PROVE  /\ age - Spent <= Escape + 4 * Lag
               /\ Spent - lag < DrainEscapeUs \/ Spent < lag + DrainEscapeUs + Lag
    BY <2>1 DEF Inv, Timed, DrainInTime
  <2>. QED BY <1>1, <2>1
<1>8. op # "none" => age <= ReturnBound
  BY <1>1, <1>6, <1>7
<1>9. state \in Receiving \cup {"PROCESS_FRAME"} => ~Draining
  BY DEF Draining, Receiving
<1>. QED BY <1>1, <1>2, <1>3, <1>6, <1>8, <1>9

LEMMA TimedCall == Inv /\ (ReadCall \/ WriteCall) => Timed'
<1> SUFFICES ASSUME Inv, ReadCall \/ WriteCall PROVE Timed'
  OBVIOUS
<1>1. flags = {} /\ op = "none"
  BY DEF ReadCall, WriteCall, Call, Inv, Control, Answer
<1>2. now \in Stamp /\ Escape \in Nat /\ Later(now, 0) = now
  BY Numbers, Windows, LaterNone DEF Inv, Control
<1>3. age' = 0 /\ lag' = 0 /\ now' = now /\ flags' = {}
  BY <1>1 DEF ReadCall, WriteCall, Call
<1>4. CASE ReadCall
  <2>1. op' = "read" /\ state' = "WAIT_FIRST" /\ pc' = "head" /\ startUs' = now
    BY <1>4 DEF ReadCall, Call
  <2>2. Clocked'
    BY <1>2, <1>3, <2>1 DEF Clocked
  <2>3. InTime'
    BY <1>2, <1>3, <2>1 DEF InTime, Begun, Allowed, Receiving
  <2>. QED BY <1>3, <2>1, <2>2, <2>3 DEF Timed, DrainInTime, Waited, Opened, Draining
<1>5. CASE WriteCall
  <2>1. op' = "write" /\ state' = "DRAIN" /\ pc' = "drain"
    BY <1>5 DEF WriteCall, Call
  <2>2. Clocked'
    BY <1>3, <2>1 DEF Clocked, Reading
  <2>. QED BY <2>1, <2>2 DEF Timed, InTime, DrainInTime, Waited, Opened, Draining, Reading
<1>. QED BY <1>4, <1>5

LEMMA TimedHead == Inv /\ LoopHead => Timed'
<1> SUFFICES ASSUME Inv, LoopHead PROVE Timed'
  OBVIOUS
<1>1. /\ pc = "head" /\ pc' = "look" /\ lag' = 0 /\ nowUs' = now
      /\ UNCHANGED <<op, state, resume, startUs, firstUs, flags, lateUs, now, age>>
  BY DEF LoopHead
<1>2. op = "read" /\ ~Draining /\ ~Draining' /\ Reading /\ Reading'
  BY <1>1 DEF Inv, Control, Phase, Draining, Reading, Typed, Place, Pass
<1>3. /\ age \in Nat /\ lag \in Nat /\ lag <= Lag /\ Begun = age - lag /\ Begun' = age
      /\ lag <= age
  BY <1>1, <1>2, Numbers, AgeIs DEF Inv, Control, Begun
<1>4. Allowed \in Nat /\ Allowed' = Allowed
  BY <1>1, Windows DEF Allowed
<1>5. Clocked'
  <2>1. now = Later(startUs, age)
    BY <1>2 DEF Inv, Timed, Clocked
  <2>. QED BY <1>1, <1>2, <1>3, <2>1 DEF Clocked, Reading
<1>6. InTime'
  <2>1. Begun <= Allowed
    BY <1>1, <1>2 DEF Inv, Timed, InTime
  <2>. QED BY <1>1, <1>3, <1>4, <2>1 DEF InTime
<1>7. DrainInTime'
  BY <1>2 DEF DrainInTime
<1>8. Waited'
  <2>1. LateEnd' = LateEnd /\ LateEnd \in Nat /\ ReadUs \in Nat
    BY <1>1, Numbers, Windows DEF LateEnd, Inv, Control
  <2>. QED BY <1>1, <1>2, <1>3, <2>1 DEF Inv, Timed, Waited
<1>9. Opened'
  <2>1. Since(startUs', firstUs') = Since(startUs, firstUs)
    BY <1>1
  <2>2. Since(startUs, firstUs) \in Int
    BY Numbers, SinceIs, StampNat DEF Inv, Control
  <2>. QED BY <1>1, <1>2, <1>3, <2>1, <2>2 DEF Inv, Timed, Opened
<1>. QED BY <1>5, <1>6, <1>7, <1>8, <1>9 DEF Timed

\* A step inside a pass of the receive phase.
LEMMA TimedPass ==
  ASSUME Inv, op = "read", ~Draining, op' = op, ~Draining',
         UNCHANGED <<now, age, lag, startUs>>,
         pc # "head", pc' # "head" => nowUs' = nowUs,
         Begun <= IF pc' \in {"head", "last"} THEN Allowed' ELSE Allowed' + Lag,
         Waited', Opened'
  PROVE  Timed'
<1>1. Reading /\ Reading' /\ Begun' = Begun
  BY DEF Reading, Begun
<1>2. Clocked'
  BY <1>1 DEF Inv, Timed, Clocked
<1>3. InTime'
  BY <1>1 DEF InTime
<1>4. DrainInTime'
  BY DEF DrainInTime
<1>. QED BY <1>2, <1>3, <1>4 DEF Timed

\* What the clock of a pass says while the escape is not over.
LEMMA PassIs ==
  ASSUME Inv, op = "read", state # "DRAIN", pc # "head"
  PROVE  /\ ~Draining /\ Reading /\ Begun \in Nat /\ Begun < UsWrap
         /\ nowUs = Later(startUs, Begun)
         /\ EscapeExpired <=> Escape <= Begun
         /\ age \in Nat /\ Begun <= age
         /\ \A us \in Stamp : Since(startUs, Anchor(us, nowUs)) <= Begun
<1>1. state \in Receiving \cup {"PROCESS_FRAME"}
  BY DEF Inv, Control, Phase, Typed, Place, States, Receiving
<1>2. ~Draining /\ Reading
  BY DEF Draining, Reading
<1>3. Begun \in Nat /\ Begun <= Escape + 2 * Lag /\ Begun <= age /\ age \in Nat
  BY <1>1, AgeIs, Numbers, Windows DEF Inv, Control, Begun
<1>4. Begun < UsWrap
  <2>1. Escape \in Nat /\ Escape <= MaxSafe
    BY Windows
  <2>. QED BY <1>3, <2>1
<1>5. nowUs = Later(startUs, Begun)
  BY <1>2 DEF Inv, Timed, Clocked
<1>6. Since(startUs, nowUs) = Begun
  <2>1. Begun \in Stamp /\ startUs \in Stamp /\ Begun \in Int
    BY <1>3, <1>4, StampIn, Numbers DEF Inv, Control
  <2>. QED BY <1>5, <2>1, SinceLater, Small, Zenon
<1>7. EscapeExpired <=> Escape <= Begun
  BY <1>6 DEF EscapeExpired
<1>8. \A us \in Stamp : Since(startUs, Anchor(us, nowUs)) <= Begun
  <2>1. startUs \in Stamp
    BY Numbers DEF Inv, Control
  <2>. QED BY <1>3, <1>4, <1>5, <2>1, AnchorInside, Zenon
<1>. QED BY <1>2, <1>3, <1>4, <1>5, <1>7, <1>8

\* The windows that are in force stay what they are.
LEMMA WindowsKept ==
  ASSUME Inv, UNCHANGED <<op, now, age, lag, startUs, lateUs>>
  PROVE  /\ LateEnd' = LateEnd /\ Begun' = Begun
         /\ state = "LATE_WINDOW" \/ (state = "PROCESS_FRAME" /\ resume = "LATE_WINDOW")
              => ReadUs + LateGrace <= LateEnd /\ LateEnd - LateGrace <= Begun
BY DEF LateEnd, Begun, Inv, Timed, Waited

LEMMA TimedLook == Inv /\ Look => Timed'
<1> SUFFICES ASSUME Inv, Look PROVE Timed'
  OBVIOUS
<1>1. /\ pc = "look" /\ pc' \in {"classify", "drain", "count"}
      /\ pc' = "drain" <=> state' = "DRAIN"
      /\ UNCHANGED <<op, resume, nowUs, startUs, lateUs, now, age, lag>>
      /\ \/ UNCHANGED <<firstUs, flags, state>>
         \/ /\ ring # <<>> /\ NoteFirst(ring[1])
            /\ state' = IF state \in {"WAIT_FIRST", "LATE_WINDOW"} THEN "RX_ACTIVE" ELSE state
  BY DEF Look, clock
<1>2. op = "read"
  BY <1>1 DEF Inv, Control, Phase, Typed, Place, Pass
<1>3. ~Draining /\ ~Draining'
  BY <1>1 DEF Draining
<1>4. Begun <= IF pc' \in {"head", "last"} THEN Allowed' ELSE Allowed' + Lag
  <2>1. Begun <= Allowed + Lag
    BY <1>1, <1>2, <1>3 DEF Inv, Timed, InTime, Reading
  <2>2. Allowed' = Allowed
    BY <1>1 DEF Allowed, Receiving
  <2>. QED BY <1>1, <2>1, <2>2
<1>5. Waited'
  <2>1. Reading /\ Reading'
    BY <1>1, <1>2, <1>3 DEF Reading
  <2>2. flags \subseteq flags' /\ (state' \in {"LATE_WINDOW", "PROCESS_FRAME", "DRAIN"} => state' = state)
    BY <1>1 DEF NoteFirst
  <2>. QED BY <1>1, <2>1, <2>2, WindowsKept DEF Waited, Inv, Timed
<1>6. Opened'
  <2>1. CASE UNCHANGED <<firstUs, flags, state>>
    BY <1>1, <1>2, <1>3, <2>1, WindowsKept DEF Opened, Reading, Inv, Timed
  <2>2. CASE ring # <<>> /\ NoteFirst(ring[1]) /\ state # "DRAIN"
    <3>1. ring[1] \in Stamp
      BY <2>2, ElementOfSeq, EmptySeq, LenProperties DEF Inv, Control, Typed, Bytes
    <3>2. Since(startUs, firstUs') <= Begun
      BY <1>1, <1>2, <2>2, <3>1, PassIs DEF NoteFirst
    <3>. QED BY <1>1, <3>2, WindowsKept DEF Opened
  <2>3. CASE state' = "DRAIN"
    BY <2>3 DEF Opened
  <2>. QED BY <1>1, <2>1, <2>2, <2>3
<1>. QED BY <1>1, <1>2, <1>3, <1>4, <1>5, <1>6, TimedPass

LEMMA TimedCandidate ==
  ASSUME Inv, NEW o \in Outcomes(Run, now), NEW kind \in Kinds \cup {"none"},
         CarveCandidate(o, kind)
  PROVE  Timed'
<1>1. /\ pc = "carve" /\ state # "DRAIN" /\ pc' = "head" /\ state' = "PROCESS_FRAME"
      /\ resume' = IF state = "LATE_WINDOW" THEN "LATE_WINDOW" ELSE "RX_ACTIVE"
      /\ UNCHANGED <<op, startUs, lateUs, now, age, lag>>
      /\ UNCHANGED <<firstUs, flags>> \/ NoteFirst(IF event'.first # 0 THEN event'.first ELSE nowUs)
  BY DEF CarveCandidate, clock
<1>2. op = "read" /\ state \in Receiving
  BY <1>1 DEF Inv, Control, Phase, Pass, InDrain, Receiving, Typed, Place, States
<1>3. ~Draining /\ ~Draining'
  BY <1>1 DEF Draining
<1>4. Begun <= IF pc' \in {"head", "last"} THEN Allowed' ELSE Allowed' + Lag
  BY <1>1, <1>2, AgeIs DEF Allowed, Receiving
<1>5. Waited'
  BY <1>1, WindowsKept DEF Waited
<1>6. Opened'
  <2>1. CASE UNCHANGED <<firstUs, flags>>
    BY <1>1, <1>2, <1>3, <2>1, WindowsKept DEF Opened, Reading, Inv, Timed
  <2>2. CASE NoteFirst(IF event'.first # 0 THEN event'.first ELSE nowUs)
    <3>1. event'.first \in Stamp /\ nowUs \in Stamp
      BY TypedCandidate, Numbers DEF Inv, Control, Typed, Frames
    <3>2. Since(startUs, firstUs') <= Begun
      BY <1>1, <1>2, <2>2, <3>1, PassIs DEF NoteFirst
    <3>. QED BY <1>1, <3>2, WindowsKept DEF Opened
  <2>. QED BY <1>1, <2>1, <2>2
<1>. QED BY <1>1, <1>2, <1>3, <1>4, <1>5, <1>6, TimedPass

LEMMA TimedGoto ==
  ASSUME Inv, NEW next \in Receiving \cup {"DRAIN"}, NEW at \in {"head", "last"},
         Goto(next, at), pc \in {"judge", "last"}, at = "last" => next = "RX_ACTIVE",
         \* A receive phase goes on only before the escape,
         next \in Receiving => Begun <= Escape,
         \* in the late window only while the grace lasts,
         next = "LATE_WINDOW" =>
           ReadUs + LateGrace <= LateEnd' /\ LateEnd' - LateGrace <= Begun,
         \* and a silent line is given up when it is over.
         next = "DRAIN" /\ "active" \notin flags => ReadUs + LateGrace <= Begun,
         flags' \subseteq flags \cup {"late"}, flags \subseteq flags'
  PROVE  Timed'
<1>1. /\ state' = next /\ pc' = at /\ nowUs' = (IF at = "head" THEN 0 ELSE nowUs)
      /\ UNCHANGED <<op, resume, startUs, firstUs, now, age, lag>>
  BY DEF Goto, clock
<1>2. op = "read" /\ state # "DRAIN"
  BY DEF Inv, Control, Phase, Pass, InDrain, Receiving, Typed, Place, States
<1>3. ~Draining /\ ~Draining' /\ Reading /\ Begun' = Begun /\ Begun \in Nat /\ Begun <= age
  BY <1>1, <1>2, PassIs DEF Draining, Begun
<1>4. Begun <= IF pc' \in {"head", "last"} THEN Allowed' ELSE Allowed' + Lag
  <2>1. Begun <= Escape + Lag /\ Escape \in Nat
    BY <1>2, AgeIs, Windows DEF Inv, Control, Phase, Receiving, InDrain, Pass, Typed, Place, States
  <2>2. next = "DRAIN" => Allowed' = Escape + 2 * Lag
    BY <1>1 DEF Allowed, Receiving
  <2>3. next \in Receiving => Allowed' = Escape
    BY <1>1 DEF Allowed, Receiving
  <2>. QED BY <1>1, <1>3, <2>1, <2>2, <2>3
<1>5. Waited'
  <2>1. state' = "LATE_WINDOW" => ReadUs + LateGrace <= LateEnd' /\ LateEnd' - LateGrace <= Begun'
    BY <1>1, <1>3
  <2>2. state' # "PROCESS_FRAME"
    BY <1>1 DEF Receiving
  <2>3. state' = "DRAIN" /\ "active" \notin flags' => ReadUs + LateGrace <= age'
    <3>1. ReadUs \in Nat
      BY Windows
    <3>2. age \in Nat /\ Begun \in Nat /\ Begun <= age
      BY <1>2, <1>3, Numbers DEF Inv, Control
    <3>. QED BY <1>1, <3>1, <3>2
  <2>. QED BY <2>1, <2>2, <2>3 DEF Waited
<1>6. Opened'
  <2>1. "active" \in flags' => "active" \in flags
    OBVIOUS
  <2>2. "active" \in flags => Since(startUs, firstUs) <= Begun
    BY <1>2, <1>3 DEF Inv, Timed, Opened
  <2>. QED BY <1>1, <1>3, <2>1, <2>2 DEF Opened
<1>. QED BY <1>1, <1>2, <1>3, <1>4, <1>5, <1>6, TimedPass

LEMMA TimedJudge == Inv /\ Judge => Timed'
<1> SUFFICES ASSUME Inv, Judge PROVE Timed'
  OBVIOUS
<1>1. pc \in {"judge", "last"}
  BY DEF Judge, JudgeEscape, WaitFirstExpires, WaitFirst, LateWindow, RxActiveEnvelope,
         RxActiveEmpty, RxActiveLast
<1>2. /\ op = "read" /\ state \in Receiving /\ state # "DRAIN" /\ pc # "head"
      /\ pc = "last" => state = "RX_ACTIVE"
      /\ state = "RX_ACTIVE" => "active" \in flags
  BY <1>1 DEF Inv, Control, Phase, Pass, InDrain, Receiving, Typed, Place, States
<1>3. /\ Begun \in Nat /\ Begun < UsWrap /\ nowUs = Later(startUs, Begun)
      /\ EscapeExpired <=> Escape <= Begun
      /\ Reading
  BY <1>2, PassIs
<1>4. /\ ReadUs \in Nat /\ RxTail \in Nat /\ Escape = ReadUs + RxTail /\ Escape <= MaxSafe
      /\ LateGrace <= RxTail /\ startUs \in Stamp /\ lateUs \in Stamp /\ LateEnd \in Nat
  BY Windows, Numbers DEF Inv, Control
<1>5. ~EscapeExpired => Begun <= Escape
  BY <1>3, <1>4
<1>6. state = "LATE_WINDOW" => ReadUs + LateGrace <= LateEnd /\ LateEnd - LateGrace <= Begun
  BY DEF Inv, Timed, Waited
<1>. USE <1>1
<1>7. CASE JudgeEscape
  <2>1. Goto("DRAIN", "head") /\ flags' = flags /\ EscapeExpired
    BY <1>7 DEF JudgeEscape
  <2>2. ReadUs + LateGrace <= Begun
    BY <1>3, <1>4, <2>1
  <2>3. "DRAIN" \notin Receiving
    BY DEF Receiving
  <2>. QED BY <2>1, <2>2, <2>3, TimedGoto
<1>8. ASSUME NEW answerable \in BOOLEAN, WaitFirstExpires(answerable) PROVE Timed'
  <2>1. /\ Goto("LATE_WINDOW", "head") /\ flags' = flags \cup {"late"} /\ ~EscapeExpired
        /\ Reached(Later(startUs, ReadUs)) /\ lateUs' = Later(nowUs, LateGrace)
    BY <1>8 DEF WaitFirstExpires
  <2>2. ReadUs <= Begun
    <3>1. ReadUs <= Begun + MaxSafe
      BY <1>3, <1>4
    <3>. QED BY <1>3, <1>4, <2>1, <3>1, WindowIs
  <2>3. LateEnd' = Begun + LateGrace
    <3>1. startUs \in Int /\ Begun \in Int /\ LateGrace \in Int
      BY <1>3, <1>4, StampNat
    <3>2. lateUs' = Later(startUs, Begun + LateGrace)
      BY <1>3, <2>1, <3>1, LaterLater
    <3>3. Begun + LateGrace \in Int /\ 0 <= Begun + LateGrace /\ Begun + LateGrace < UsWrap
      BY <1>3, <1>4, <1>5, <2>1
    <3>4. Since(startUs, lateUs') = (Begun + LateGrace) % UsWrap
      BY <1>4, <3>2, <3>3, SinceLater, Zenon
    <3>5. (Begun + LateGrace) % UsWrap = Begun + LateGrace
      BY <3>3, StampIn, Small, Zenon
    <3>6. startUs' = startUs
      BY <2>1 DEF Goto
    <3>. QED BY <3>4, <3>5, <3>6 DEF LateEnd
  <2>4. ReadUs + LateGrace <= LateEnd' /\ LateEnd' - LateGrace <= Begun
    BY <1>3, <1>4, <2>2, <2>3
  <2>5. "LATE_WINDOW" \in Receiving
    BY DEF Receiving
  <2>. QED BY <1>5, <2>1, <2>4, <2>5, TimedGoto
<1>9. CASE WaitFirst
  <2>1. Goto("WAIT_FIRST", "head") /\ flags' = flags /\ ~EscapeExpired
    BY <1>9 DEF WaitFirst
  <2>2. "WAIT_FIRST" \in Receiving
    BY DEF Receiving
  <2>. QED BY <1>5, <2>1, <2>2, TimedGoto
<1>10. CASE LateWindow
  <2>1. /\ state = "LATE_WINDOW" /\ ~EscapeExpired /\ flags' = flags /\ lateUs' = lateUs
        /\ Goto(IF Reached(lateUs) THEN "DRAIN" ELSE "LATE_WINDOW", "head")
    BY <1>10 DEF LateWindow
  <2>2. LateEnd' = LateEnd
    BY <2>1 DEF LateEnd, Goto
  <2>3. "LATE_WINDOW" \in Receiving /\ "DRAIN" \notin Receiving
    BY DEF Receiving
  <2>4. CASE Reached(lateUs)
    <3>1. lateUs = Later(startUs, LateEnd)
      BY <1>4, LaterSince, Zenon DEF LateEnd
    <3>2. LateEnd <= Begun + MaxSafe
      BY <1>3, <1>4, <1>6, <2>1
    <3>3. LateEnd <= Begun
      BY <1>3, <1>4, <2>4, <3>1, <3>2, WindowIs
    <3>4. ReadUs + LateGrace <= Begun
      BY <1>3, <1>4, <1>6, <2>1, <3>3
    <3>. QED BY <2>1, <2>3, <2>4, <3>4, TimedGoto
  <2>5. CASE ~Reached(lateUs)
    BY <1>5, <1>6, <2>1, <2>2, <2>3, <2>5, TimedGoto
  <2>. QED BY <2>4, <2>5
<1>11. CASE RxActiveEnvelope
  <2>1. Goto("DRAIN", "head") /\ flags' = flags /\ "active" \in flags
    BY <1>11 DEF RxActiveEnvelope
  <2>2. "DRAIN" \notin Receiving
    BY DEF Receiving
  <2>. QED BY <2>1, <2>2, TimedGoto
<1>12. CASE RxActiveEmpty
  <2>1. /\ Goto("RX_ACTIVE", IF ring = <<>> THEN "last" ELSE "head") /\ flags' = flags
        /\ ~EscapeExpired
    BY <1>12 DEF RxActiveEmpty
  <2>2. "RX_ACTIVE" \in Receiving
    BY DEF Receiving
  <2>. QED BY <1>5, <2>1, <2>2, TimedGoto
<1>13. CASE RxActiveLast
  <2>1. PICK next \in {"DRAIN", "RX_ACTIVE"} :
          pc = "last" /\ Goto(next, "head") /\ flags' = flags
    BY <1>13 DEF RxActiveLast
  <2>2. Begun <= Escape
    BY <1>2, <1>3, <2>1 DEF Inv, Timed, InTime, Allowed
  <2>3. "RX_ACTIVE" \in Receiving /\ "DRAIN" \notin Receiving
    BY DEF Receiving
  <2>. QED BY <1>2, <2>1, <2>2, <2>3, TimedGoto
<1>. QED BY <1>7, <1>8, <1>9, <1>10, <1>11, <1>12, <1>13 DEF Judge

LEMMA TimedClassify == Inv /\ Classify => Timed'
<1> SUFFICES ASSUME Inv, Classify PROVE Timed'
  OBVIOUS
<1>1. pc = "classify"
  BY DEF Classify, ClassifyError, ClassifyDuplicate, ClassifyMatch, ClassifyOther
<1>2. op = "read" /\ state = "PROCESS_FRAME" /\ resume \in Receiving
  BY <1>1 DEF Inv, Control, Phase, Pass, InDrain, Receiving, Typed, Place, States
<1>3. /\ Begun \in Nat /\ Reading /\ ~Draining
      /\ EscapeExpired <=> Escape <= Begun
      /\ age \in Nat /\ Begun <= age
      /\ \A us \in Stamp : Since(startUs, Anchor(us, nowUs)) <= Begun
  BY <1>1, <1>2, PassIs
<1>4. /\ pc' = "head" /\ UNCHANGED <<op, now, age, lag, startUs, lateUs>>
      /\ \/ state' = "DRAIN" /\ "active" \in flags'
         \/ state' = "DRAIN" /\ EscapeExpired
         \/ state' = resume /\ ~EscapeExpired
      /\ \/ UNCHANGED firstUs /\ ("active" \in flags' => "active" \in flags)
         \/ \E more : NoteFrame(more)
  BY DEF Classify, ClassifyError, ClassifyDuplicate, ClassifyMatch, ClassifyOther,
         NoteFrame, ResumeAfter, clock
<1>5. ~Draining'
  BY <1>4 DEF Draining
<1>6. ReadUs \in Nat /\ RxTail \in Nat /\ Escape = ReadUs + RxTail /\ LateGrace <= RxTail
  BY Windows
<1>7. Begun <= IF pc' \in {"head", "last"} THEN Allowed' ELSE Allowed' + Lag
  <2>1. Begun <= Escape + 2 * Lag
    BY <1>2, AgeIs
  <2>2. state' = "DRAIN" => Allowed' = Escape + 2 * Lag
    BY DEF Allowed, Receiving
  <2>3. state' = resume => Allowed' = Escape
    BY <1>2 DEF Allowed, Receiving
  <2>. QED BY <1>3, <1>4, <1>6, <2>1, <2>2, <2>3
<1>8. Waited'
  <2>1. state' = "LATE_WINDOW" => resume = "LATE_WINDOW"
    BY <1>4
  <2>2. state' # "PROCESS_FRAME"
    BY <1>2, <1>4 DEF Receiving
  <2>3. state' = "DRAIN" /\ "active" \notin flags' => ReadUs + LateGrace <= age
    BY <1>2, <1>3, <1>4, <1>6 DEF Receiving
  <2>. QED BY <1>2, <1>4, <2>1, <2>2, <2>3, WindowsKept DEF Waited
<1>9. Opened'
  <2>1. "active" \in flags' => Since(startUs, firstUs') <= Begun
    <3>1. "active" \in flags => Since(startUs, firstUs) <= Begun
      BY <1>2, <1>3 DEF Inv, Timed, Opened
    <3>2. event.first \in Stamp /\ nowUs \in Stamp
      BY Numbers DEF Inv, Control, Typed, Frames
    <3>3. ASSUME NEW more, NoteFrame(more) PROVE Since(startUs, firstUs') <= Begun
      BY <1>3, <3>1, <3>2, <3>3 DEF NoteFrame
    <3>. QED BY <1>4, <3>1, <3>3
  <2>. QED BY <1>4, <2>1, WindowsKept DEF Opened
<1>. QED BY <1>1, <1>2, <1>3, <1>4, <1>5, <1>7, <1>8, <1>9, TimedPass

\* A step that leaves the clock and the windows of a call alone, in the same place.
LEMMA TimedSame ==
  ASSUME Inv, UNCHANGED <<op, pc, state, resume, flags, now, age, lag, startUs, nowUs,
                          firstUs, lateUs, drainUs>>
  PROVE  Timed'
<1>1. /\ Begun' = Begun /\ Spent' = Spent /\ Noticed' = Noticed /\ LateEnd' = LateEnd
      /\ Allowed' = Allowed /\ (Reading' <=> Reading) /\ (Draining' <=> Draining)
  BY DEF Begun, Spent, Noticed, LateEnd, Allowed, Reading, Draining
<1>2. Since(startUs', firstUs') = Since(startUs, firstUs)
  OBVIOUS
<1>3. Clocked'
  BY <1>1 DEF Inv, Timed, Clocked
<1>4. InTime'
  BY <1>1 DEF Inv, Timed, InTime
<1>5. DrainInTime'
  BY <1>1 DEF Inv, Timed, DrainInTime
<1>6. Waited'
  BY <1>1 DEF Inv, Timed, Waited
<1>7. Opened'
  BY <1>1, <1>2 DEF Inv, Timed, Opened
<1>. QED BY <1>3, <1>4, <1>5, <1>6, <1>7 DEF Timed

\* Counting and finding nothing, in the receive phase or in the drain.
LEMMA TimedCount == Inv /\ (Count \/ CarveNone) => Timed'
<1> SUFFICES ASSUME Inv, Count \/ CarveNone PROVE Timed'
  OBVIOUS
<1>1. /\ pc \in {"count", "carve"} /\ pc' \in {"carve", "judge"}
      /\ UNCHANGED <<op, state, resume, flags, now, age, lag, startUs, nowUs,
                     firstUs, lateUs, drainUs>>
  BY DEF Count, CarveNone, txn, drain, clock
<1>2. /\ Begun' = Begun /\ Spent' = Spent /\ LateEnd' = LateEnd
      /\ Allowed' = Allowed /\ (Reading' <=> Reading) /\ (Draining' <=> Draining)
  BY <1>1 DEF Begun, Spent, LateEnd, Allowed, Reading, Draining
<1>3. Since(startUs', firstUs') = Since(startUs, firstUs)
  BY <1>1
<1>4. Clocked'
  BY <1>1, <1>2 DEF Inv, Timed, Clocked
<1>5. InTime'
  BY <1>1, <1>2 DEF Inv, Timed, InTime
<1>6. DrainInTime'
  BY <1>1, <1>2 DEF Inv, Timed, DrainInTime
<1>7. Waited'
  BY <1>1, <1>2 DEF Inv, Timed, Waited
<1>8. Opened'
  BY <1>1, <1>2, <1>3 DEF Inv, Timed, Opened
<1>. QED BY <1>4, <1>5, <1>6, <1>7, <1>8 DEF Timed

\* Once the drain has begun only its own clock counts.
LEMMA TimedDraining ==
  ASSUME Draining', lag' <= age', DrainInTime', state' = "DRAIN"
  PROVE  Timed'
BY DEF Timed, Clocked, InTime, Waited, Opened, Reading

LEMMA TimedDrain ==
  Inv /\ (DrainCall \/ DrainHead \/ DrainSample \/ DrainLoad \/ DrainLoop) => Timed'
<1> SUFFICES ASSUME Inv, DrainCall \/ DrainHead \/ DrainSample \/ DrainLoad \/ DrainLoop
             PROVE  Timed'
  OBVIOUS
<1>1. /\ pc \in {"drain"} \cup InDrain /\ pc' \in {"count"} \cup InDrain
      /\ UNCHANGED <<op, state, now, age>>
  BY DEF DrainCall, DrainHead, DrainSample, DrainLoad, DrainLoop, clock, InDrain
<1>2. state = "DRAIN" /\ op # "none"
  BY <1>1 DEF Inv, Control, Phase, Pass, Receiving, InDrain, Typed, Place, States
<1>3. Draining' /\ (pc # "drain" => Draining)
  BY <1>1, <1>2 DEF Draining, InDrain
<1>4. /\ age \in Nat /\ lag \in Nat /\ lag <= Lag /\ lag <= age
      /\ Spent \in Nat /\ Noticed \in Nat /\ Escape \in Nat /\ now \in Stamp
  BY <1>2, Numbers, AgeIs, Windows DEF Inv, Control
<1>5. pc # "drain" => DrainInTime
  BY DEF Inv, Timed
<1>6. CASE DrainCall
  <2>1. /\ pc = "drain" /\ pc' = "drainHead" /\ drainUs' = now /\ lag' = lag /\ now' = now
    BY <1>6 DEF DrainCall
  <2>2. Spent' = 0
    BY <1>4, <2>1, SinceSelf DEF Spent
  <2>3. age <= Escape + 4 * Lag
    BY <1>2, <2>1, AgeIs DEF Draining
  <2>4. DrainInTime'
    BY <1>1, <1>4, <2>1, <2>2, <2>3 DEF DrainInTime
  <2>. QED BY <1>1, <1>2, <1>3, <1>4, <2>1, <2>4, TimedDraining
<1>7. CASE DrainHead
  <2>1. pc = "drainHead" /\ pc' = "count" /\ lag' = 0 /\ UNCHANGED <<drainUs, now>>
    BY <1>7 DEF DrainHead, drain
  <2>2. Spent' = Spent
    BY <2>1 DEF Spent
  <2>3. age - Spent <= Escape + 4 * Lag /\ Spent - lag < DrainEscapeUs
    BY <1>3, <1>5, <2>1 DEF DrainInTime
  <2>4. DrainInTime'
    BY <1>1, <1>4, <2>1, <2>2, <2>3 DEF DrainInTime
  <2>. QED BY <1>1, <1>2, <1>3, <1>4, <2>1, <2>4, TimedDraining
<1>8. CASE DrainSample
  <2>1. pc = "sample" /\ pc' = "load" /\ nowUs' = now /\ UNCHANGED <<drainUs, now, lag>>
    BY <1>8 DEF DrainSample, drain, clock
  <2>2. Spent' = Spent /\ Noticed' = Spent
    BY <2>1 DEF Spent, Noticed
  <2>3. age - Spent <= Escape + 4 * Lag /\ lag <= Spent /\ Spent < lag + DrainEscapeUs + Lag
    BY <1>3, <1>5, <2>1 DEF DrainInTime
  <2>4. DrainInTime'
    BY <1>1, <1>4, <2>1, <2>2, <2>3 DEF DrainInTime
  <2>. QED BY <1>1, <1>2, <1>3, <1>4, <2>1, <2>4, TimedDraining
<1>9. CASE DrainLoad
  <2>1. pc = "load" /\ pc' = "check" /\ UNCHANGED <<drainUs, now, lag, nowUs>>
    BY <1>9 DEF DrainLoad, clock
  <2>2. Spent' = Spent /\ Noticed' = Noticed
    BY <2>1 DEF Spent, Noticed
  <2>3. /\ age - Spent <= Escape + 4 * Lag /\ lag <= Spent /\ Spent < lag + DrainEscapeUs + Lag
        /\ Spent - lag <= Noticed /\ Noticed <= Spent
    BY <1>3, <1>5, <2>1 DEF DrainInTime
  <2>4. DrainInTime'
    BY <1>1, <1>4, <2>1, <2>2, <2>3 DEF DrainInTime
  <2>. QED BY <1>1, <1>2, <1>3, <1>4, <2>1, <2>4, TimedDraining
<1>10. CASE DrainLoop
  <2>1. /\ pc = "check" /\ pc' = "drainHead" /\ UNCHANGED <<drainUs, now, lag>>
        /\ ~ (Noticed >= DrainEscapeUs)
    BY <1>10 DEF DrainLoop, clock, EscapeDue, Noticed
  <2>2. Spent' = Spent
    BY <2>1 DEF Spent
  <2>3. age - Spent <= Escape + 4 * Lag /\ Spent - lag <= Noticed
    BY <1>3, <1>5, <2>1 DEF DrainInTime
  <2>4. DrainInTime'
    BY <1>1, <1>4, <2>1, <2>2, <2>3 DEF DrainInTime
  <2>. QED BY <1>1, <1>2, <1>3, <1>4, <2>1, <2>4, TimedDraining
<1>. QED BY <1>6, <1>7, <1>8, <1>9, <1>10

LEMMA TimedDrainCarve ==
  ASSUME Inv, NEW o, NEW settles, DrainCarve(o, settles)
  PROVE  Timed'
<1>1. /\ pc = "carve" /\ pc' \in {"sample", "count"} /\ state = "DRAIN"
      /\ UNCHANGED <<op, state, now, age, lag, drainUs>>
  BY DEF DrainCarve, drain, clock
<1>2. Draining /\ Draining' /\ Spent' = Spent
  BY <1>1 DEF Draining, Spent
<1>3. DrainInTime'
  BY <1>1, <1>2 DEF Inv, Timed, DrainInTime
<1>4. op # "none"
  BY <1>1 DEF Inv, Control, Phase
<1>. QED BY <1>1, <1>2, <1>3, <1>4, AgeIs, TimedDraining

LEMMA TimedLeave ==
  Inv /\ (ReadDone \/ (\E sent \in BOOLEAN : WriteDone(sent)) \/ DrainEscape) => Timed'
BY DEF Leave, ReadDone, WriteDone, DrainEscape, Timed, Clocked, InTime, DrainInTime,
       Waited, Opened, Reading, Draining

LEMMA TimedTick == Inv /\ Tick => Timed'
<1> SUFFICES ASSUME Inv, Tick PROVE Timed'
  OBVIOUS
<1>1. /\ op # "none" /\ lag < Lag /\ lag' = lag + 1 /\ Elapse(1) /\ now' = Later(now, 1)
      /\ UNCHANGED <<op, pc, state, resume, flags, startUs, nowUs, firstUs, lateUs, drainUs>>
  BY DEF Tick, Elapse, loop, txn, drain
<1>2. /\ age \in Nat /\ lag \in Nat /\ lag <= age /\ age <= ReturnBound
      /\ Spent \in Nat /\ Noticed \in Nat /\ Begun \in Int /\ ReturnBound \in Nat
      /\ now \in Stamp /\ startUs \in Stamp /\ drainUs \in Stamp /\ Escape \in Nat
      /\ ReadUs \in Nat
  BY <1>1, Numbers, AgeIs, Windows DEF Inv, Control
<1>3. age' = age + 1
  <2>1. age' = IF age + 1 <= ReturnBound + 1 THEN age + 1 ELSE ReturnBound + 1
    BY <1>1, ElapseIs DEF Inv, Control
  <2>. QED BY <1>2, <2>1
<1>4. /\ Begun' = Begun /\ Noticed' = Noticed /\ LateEnd' = LateEnd
      /\ Allowed' = Allowed /\ (Reading' <=> Reading) /\ (Draining' <=> Draining)
  <2>1. Begun' = Begun
    BY <1>1, <1>2, <1>3 DEF Begun
  <2>. QED BY <1>1, <2>1 DEF Noticed, LateEnd, Allowed, Reading, Draining
<1>5. Clocked'
  <2>1. Reading => now' = Later(startUs, age')
    <3>1. startUs \in Int /\ age \in Int /\ 1 \in Int
      BY <1>2, StampNat
    <3>2. Later(Later(startUs, age), 1) = Later(startUs, age + 1)
      BY <3>1, LaterLater, Zenon
    <3>3. Reading => now = Later(startUs, age)
      BY DEF Inv, Timed, Clocked
    <3>. QED BY <1>1, <1>3, <3>2, <3>3
  <2>2. Reading /\ pc # "head" => nowUs' = Later(startUs, Begun')
    BY <1>1, <1>4 DEF Inv, Timed, Clocked
  <2>3. lag' <= age' /\ (op = "write" /\ ~Draining => age' = lag')
    BY <1>1, <1>2, <1>3 DEF Inv, Timed, Clocked
  <2>. QED BY <1>1, <1>4, <2>1, <2>2, <2>3 DEF Clocked
<1>6. InTime'
  BY <1>1, <1>4 DEF Inv, Timed, InTime
<1>7. DrainInTime'
  <2> SUFFICES ASSUME Draining PROVE DrainInTime'
    BY <1>4 DEF DrainInTime
  <2>1. /\ age - Spent <= Escape + 4 * Lag
        /\ pc = "drainHead" => Spent - lag < DrainEscapeUs
        /\ pc # "drainHead" => lag <= Spent /\ Spent < lag + DrainEscapeUs + Lag
        /\ pc \in {"load", "check"} => Spent - lag <= Noticed /\ Noticed <= Spent
    BY DEF Inv, Timed, DrainInTime
  <2>2. Spent + 1 < UsWrap
    BY <1>1, <1>2, <2>1
  <2>3. Spent' = Spent + 1
    <3>1. Since(drainUs, Later(now, 1)) = Since(drainUs, now) + 1
      BY <1>2, <2>2, SinceTick DEF Spent
    <3>. QED BY <1>1, <3>1 DEF Spent
  <2>. QED BY <1>1, <1>2, <1>3, <1>4, <2>1, <2>3 DEF DrainInTime
<1>8. Waited'
  BY <1>1, <1>2, <1>3, <1>4 DEF Inv, Timed, Waited
<1>9. Opened'
  <2>1. Since(startUs', firstUs') = Since(startUs, firstUs)
    BY <1>1
  <2>. QED BY <1>1, <1>4, <2>1 DEF Inv, Timed, Opened
<1>. QED BY <1>5, <1>6, <1>7, <1>8, <1>9 DEF Timed

LEMMA TimedRest == ASSUME Inv, NEW d \in Rests, Rest(d) PROVE Timed'
<1>1. op = "none" /\ UNCHANGED <<op, pc, state>>
  BY DEF Rest, Elapse, loop
<1>2. state = "DONE"
  BY <1>1 DEF Inv, Control, Phase
<1>. QED BY <1>1, <1>2 DEF Timed, Clocked, InTime, DrainInTime, Waited, Opened, Reading, Draining

LEMMA TimedLine == Inv /\ (Arrive \/ RxThread \/ UNCHANGED vars) => Timed'
<1> SUFFICES ASSUME Inv, Arrive \/ RxThread \/ UNCHANGED vars PROVE Timed'
  OBVIOUS
<1>1. UNCHANGED <<op, pc, state, resume, flags, now, age, lag, startUs, nowUs,
                  firstUs, lateUs, drainUs>>
  BY DEF Arrive, RxThread, PushStore, PushPublish, loop, txn, drain, clock, vars
<1>. QED BY <1>1, TimedSame

LEMMA InvStep == Inv /\ [Next]_vars => Inv'
<1> SUFFICES ASSUME Inv, [Next]_vars PROVE Timed'
  BY ControlStep DEF Inv
<1>1. CASE ReadCall \/ WriteCall
  BY <1>1, TimedCall
<1>2. CASE LoopHead \/ Look \/ Count \/ CarveNone \/ Judge \/ Classify
  BY <1>2, TimedHead, TimedLook, TimedCount, TimedJudge, TimedClassify
<1>3. ASSUME NEW o \in Outcomes(Run, now), NEW kind \in Kinds \cup {"none"},
             CarveCandidate(o, kind)
      PROVE  Timed'
  BY <1>3, TimedCandidate
<1>4. CASE Drain
  <2>1. ASSUME NEW o \in Outcomes(Run, now), NEW settles \in BOOLEAN, DrainCarve(o, settles)
        PROVE  Timed'
    BY <2>1, TimedDrainCarve
  <2>. QED BY <1>4, <2>1, TimedDrain, TimedLeave DEF Drain
<1>5. CASE Arrive \/ RxThread \/ UNCHANGED vars
  BY <1>5, TimedLine
<1>6. CASE Tick
  BY <1>6, TimedTick
<1>7. ASSUME NEW d \in Rests, Rest(d) PROVE Timed'
  BY <1>7, TimedRest
<1>. QED BY <1>1, <1>2, <1>3, <1>4, <1>5, <1>6, <1>7 DEF Next, Owner

LEMMA AlwaysInv == Spec => []Inv
<1>1. Init => Inv
  BY ControlInit, TimedInit DEF Inv
<1>. QED BY <1>1, InvStep, PTL DEF Spec

\* A call, a read or the drain of a write, returns within the escape of its receive phase
\* and that of its drain and six passes, whatever comes in, for ever or not, and however
\* often micros() wraps.
THEOREM TransactionReturnBounded == Spec => []ReturnBounded
<1>1. Inv => ReturnBounded
  BY AgeIs DEF ReturnBounded
<1>. QED BY <1>1, AlwaysInv, PTL

\* A read of a line on which nothing came in takes the read timeout and the late grace.
THEOREM TransactionSilentWait == Spec => []SilentWait
<1>1. Inv => SilentWait
  <2> SUFFICES ASSUME Inv, pc = "drain", op = "read", "active" \notin flags
               PROVE  age >= ReadUs + LateGrace
    BY DEF SilentWait
  <2>1. state = "DRAIN" /\ ~Draining
    BY DEF Inv, Control, Phase, Pass, Receiving, Draining, Typed, Place, States
  <2>2. ReadUs + LateGrace <= age
    BY <2>1 DEF Inv, Timed, Waited, Reading
  <2>. QED BY <2>2, Numbers, Windows DEF Inv, Control
<1>. QED BY <1>1, AlwaysInv, PTL

\* The windows of a read hang on a moment inside it, whatever the stamps in the ring say.
THEOREM TransactionWindowsAreCurrent == Spec => []WindowsAreCurrent
<1>1. Inv => WindowsAreCurrent
  <2> SUFFICES ASSUME Inv, "active" \in flags, state # "DRAIN"
               PROVE  Since(firstUs, now) <= age
    BY DEF WindowsAreCurrent
  <2>1. op = "read" /\ Reading /\ op # "none"
    BY DEF Inv, Control, Answer, Typed, Place, Reading, Draining
  <2> DEFINE x == Since(startUs, firstUs)
  <2>2. /\ startUs \in Stamp /\ firstUs \in Stamp /\ startUs \in Int /\ age \in Nat
        /\ now = Later(startUs, age) /\ Begun \in Nat /\ Begun <= age
    <3>1. startUs \in Stamp /\ firstUs \in Stamp
      BY Numbers DEF Inv, Control
    <3>2. startUs \in Int
      BY <3>1, StampNat
    <3>3. now = Later(startUs, age)
      BY <2>1 DEF Inv, Timed, Clocked
    <3>4. /\ age \in Nat /\ lag \in Nat /\ lag <= age /\ age - lag \in Nat
      BY <2>1, AgeIs, Numbers DEF Inv, Control
    <3>5. Begun \in Nat /\ Begun <= age
      BY <3>4 DEF Begun
    <3>. QED BY <3>1, <3>2, <3>3, <3>4, <3>5
  <2>3. x \in Nat /\ x \in Int /\ x <= Begun /\ firstUs = Later(startUs, x)
    <3>1. startUs \in Int /\ firstUs \in Int
      BY <2>2, StampNat
    <3>2. x \in Stamp
      BY <3>1, SinceIs, Zenon
    <3>3. firstUs = Later(startUs, x)
      BY <2>2, LaterSince, Zenon
    <3>4. x <= Begun
      BY <2>1 DEF Inv, Timed, Opened
    <3>. QED BY <3>2, <3>3, <3>4, StampOut
  <2> HIDE DEF x
  <2>4. Since(firstUs, now) = (age - x) % UsWrap
    <3>1. age \in Int
      BY <2>2
    <3>2. Since(Later(startUs, x), Later(startUs, age)) = (age - x) % UsWrap
      BY <2>2, <2>3, <3>1, SinceBoth, Zenon
    <3>. QED BY <2>2, <2>3, <3>2
  <2>5. age - x \in Nat
    BY <2>2, <2>3
  <2>6. (age - x) % UsWrap <= age - x
    <3> DEFINE y == age - x
    <3> HIDE DEF y
    <3>1. y \in Nat => y % UsWrap <= y
      OBVIOUS
    <3>. QED BY <2>5, <3>1 DEF y
  <2>. QED BY <2>2, <2>3, <2>4, <2>5, <2>6
<1>. QED BY <1>1, AlwaysInv, PTL

-----------------------------------------------------------------------------
(* The silence before a drain reports an idle line *)

Listening == {"count", "carve", "sample", "load", "check"}

\* The byte noted last is e old.  The line has been silent since, unless a byte
\* waits in the UART; and what the drain looks at was ingested in this pass.
NotedFor(e) ==
  /\ now = Later(lastRx, e)
  /\ uart = 0 => quiet >= T35 \/ quiet >= e
  /\ state = "DRAIN" /\ pc \in Listening => hush >= T35 \/ hush >= e - lag

Silence ==
  /\ lastRx # 0 /\ ~lost => \E e \in Nat : NotedFor(e)
  /\ Draining => hush >= quiet
  /\ pc \in {"load", "check"} => nowUs = now
  /\ pc = "check" => seenRx = lastRx

LEMMA SilenceNumbers ==
  Typed => /\ uart \in Nat /\ quiet \in Nat /\ hush \in Nat /\ lag \in Nat
           /\ quiet <= T35 /\ hush <= T35
           /\ now \in Stamp /\ now \in Int /\ lastRx \in Stamp /\ lastRx \in Int
           /\ Len(ring) \in Nat /\ lost \in BOOLEAN
BY StampNat, LenProperties DEF Typed, Readings, Bytes, Counters

LEMMA SilenceInit == Init => Silence
BY DEF Init, Silence, Draining

\* A step that takes no time and reads nothing from the UART.
LEMMA SilenceKept ==
  ASSUME Silence, UNCHANGED <<now, uart, lastRx, quiet, hush, lag, lost>>,
         state' = "DRAIN" /\ pc' \in Listening => state = "DRAIN" /\ pc \in Listening,
         Draining' => Draining,
         pc' \in {"load", "check"} => nowUs' = now,
         pc' = "check" => seenRx' = lastRx
  PROVE  Silence'
<1>1. ASSUME NEW e \in Nat, NotedFor(e) PROVE NotedFor(e)'
  BY <1>1 DEF NotedFor
<1>. QED BY <1>1 DEF Silence

\* The step ends outside the drain; its clock may start again.
LEMMA SilenceOut ==
  ASSUME Silence, UNCHANGED <<now, uart, lastRx, quiet, lost>>,
         ~ (state' = "DRAIN" /\ pc' \in Listening),
         ~ Draining', pc' \notin {"load", "check"}
  PROVE  Silence'
<1>1. ASSUME NEW e \in Nat, NotedFor(e) PROVE NotedFor(e)'
  BY <1>1 DEF NotedFor
<1>. QED BY <1>1 DEF Silence

\* What was waiting is noted now, or lost; if nothing was, the silence is as
\* long as it was.
LEMMA SilenceIngest ==
  ASSUME Control, Silence, LoopHead \/ DrainHead
  PROVE  Silence'
<1> DEFINE n == Min({uart, Room - Len(ring)})
<1>1. /\ uart' = 0 /\ lag' = 0 /\ UNCHANGED <<now, quiet, hush, state>>
      /\ lastRx' = IF n > 0 THEN now ELSE lastRx
      /\ lost' = (IF uart = 0 THEN lost ELSE n < uart)
      /\ pc' \in {"look", "count"}
  BY DEF LoopHead, DrainHead, Ingest
<1>2. /\ uart \in Nat /\ quiet \in Nat /\ hush \in Nat /\ quiet <= T35
      /\ now \in Stamp /\ lastRx \in Stamp /\ Len(ring) \in Nat /\ lost \in BOOLEAN
      /\ Len(ring) <= Room
  BY SilenceNumbers DEF Control, Typed, Bytes
<1>3. n = IF uart <= Room - Len(ring) THEN uart ELSE Room - Len(ring)
  BY <1>2, MinOf
<1> HIDE DEF n
<1>4. state = "DRAIN" /\ pc' \in Listening => Draining
  BY <1>1 DEF Control, Phase, Pass, InDrain, Listening, Draining, DrainHead, LoopHead
<1>5. Draining' => Draining
  BY <1>1, <1>4 DEF Draining, Listening
<1>6. state = "DRAIN" /\ pc' \in Listening => hush >= quiet
  BY <1>4 DEF Silence
<1>7. ASSUME lastRx' # 0, ~ lost' PROVE \E e \in Nat : NotedFor(e)'
  <2>1. CASE uart = 0
    <3>1. n = 0 /\ lastRx' = lastRx /\ ~ lost
      BY <1>1, <1>2, <1>3, <1>7, <2>1
    <3>2. PICK e \in Nat : NotedFor(e)
      BY <1>7, <3>1 DEF Silence
    <3>3. now = Later(lastRx, e) /\ (quiet >= T35 \/ quiet >= e)
      BY <2>1, <3>2 DEF NotedFor
    <3>4. NotedFor(e)'
      BY <1>1, <1>2, <1>6, <3>1, <3>3 DEF NotedFor
    <3>. QED BY <3>4
  <2>2. CASE uart # 0
    <3>1. ~ (n < uart)
      BY <1>1, <1>7, <2>2
    <3>2. n > 0
      BY <1>2, <1>3, <2>2, <3>1
    <3>3. lastRx' = now
      BY <1>1, <3>2
    <3>4. now = Later(now, 0)
      BY <1>2, LaterNone
    <3>5. NotedFor(0)'
      BY <1>1, <1>2, <3>3, <3>4 DEF NotedFor
    <3>. QED BY <3>5
  <2>. QED BY <2>1, <2>2
<1>8. Draining' => (hush >= quiet)'
  BY <1>1, <1>5 DEF Silence
<1>. QED BY <1>1, <1>7, <1>8 DEF Silence

\* Time passes for the line and for the byte noted last alike.
LEMMA SilenceElapse ==
  ASSUME Control, Silence, NEW d \in Nat \ {0}, Elapse(d), pc \notin {"load", "check"},
         state = "DRAIN" /\ pc \in Listening => lag' = lag + d
  PROVE  Silence'
<1>1. /\ now' = Later(now, d) /\ UNCHANGED <<uart, lastRx, pc, state, lost>>
      /\ quiet' = Min({T35, quiet + d})
      /\ hush' = IF Draining THEN Max({hush, quiet'}) ELSE 0
  BY DEF Elapse, rx, loop, ghost
<1>2. /\ quiet \in Nat /\ hush \in Nat /\ lag \in Nat /\ quiet <= T35
      /\ now \in Int /\ lastRx \in Int
  BY SilenceNumbers DEF Control
<1>3. quiet' = IF T35 <= quiet + d THEN T35 ELSE quiet + d
  BY <1>1, <1>2, MinOf
<1>4. quiet' \in Int
  BY <1>2, <1>3
<1>5. Draining => hush' = IF hush >= quiet' THEN hush ELSE quiet'
  BY <1>1, <1>2, <1>4, MaxOf
<1>6. state = "DRAIN" /\ pc \in Listening => Draining
  BY DEF Listening, Draining
<1>7. ASSUME lastRx # 0, ~ lost PROVE \E e \in Nat : NotedFor(e)'
  <2>1. PICK e \in Nat : NotedFor(e)
    BY <1>7 DEF Silence
  <2>2. e + d \in Nat /\ e \in Int /\ d \in Int
    OBVIOUS
  <2>3. now' = Later(lastRx, e + d)
    <3>1. Later(Later(lastRx, e), d) = Later(lastRx, e + d)
      BY <1>2, <2>2, LaterLater, Zenon
    <3>. QED BY <1>1, <2>1, <3>1 DEF NotedFor
  <2>4. uart = 0 => quiet' >= T35 \/ quiet' >= e + d
    BY <1>2, <1>3, <2>1 DEF NotedFor
  <2>5. state = "DRAIN" /\ pc \in Listening => hush' >= T35 \/ hush' >= (e + d) - lag'
    <3> SUFFICES ASSUME state = "DRAIN", pc \in Listening
                 PROVE  hush' >= T35 \/ hush' >= (e + d) - lag'
      OBVIOUS
    <3>1. hush' = IF hush >= quiet' THEN hush ELSE quiet'
      BY <1>5, <1>6
    <3>2. hush >= T35 \/ hush >= e - lag
      BY <2>1 DEF NotedFor
    <3>3. lag' = lag + d
      OBVIOUS
    <3>. QED BY <1>2, <1>4, <3>1, <3>2, <3>3
  <2>6. NotedFor(e + d)'
    BY <1>1, <2>3, <2>4, <2>5 DEF NotedFor
  <2>. QED BY <2>2, <2>6
<1>8. Draining' => hush' >= quiet'
  <2>1. Draining' => Draining
    BY <1>1 DEF Draining
  <2>. QED BY <1>2, <1>4, <1>5, <2>1
<1>. QED BY <1>1, <1>7, <1>8 DEF Silence

LEMMA SilenceTime ==
  ASSUME ~Threaded, Control, Silence, Tick \/ (\E d \in Rests : Rest(d))
  PROVE  Silence'
<1>1. CASE Tick
  <2>1. Elapse(1) /\ lag' = lag + 1 /\ pc \notin {"load", "check"}
    BY <1>1 DEF Tick, Moment
  <2>. QED BY <2>1, SilenceElapse
<1>2. ASSUME NEW d \in Rests, Rest(d) PROVE Silence'
  <2>1. Elapse(d) /\ op = "none" /\ d \in Nat \ {0}
    BY <1>2, TransactionAssumption DEF Rest
  <2>2. pc \notin {"load", "check"} /\ state # "DRAIN"
    BY <2>1 DEF Control, Phase
  <2>. QED BY <2>1, <2>2, SilenceElapse
<1>. QED BY <1>1, <1>2

\* A byte comes in only where no load of the drain is between two others.
LEMMA SilenceArrive ==
  ASSUME ~Threaded, Control, Silence, Arrive
  PROVE  Silence'
<1>1. /\ uart' = uart + 1 /\ quiet' = 0 /\ pc \notin {"load", "check"}
      /\ UNCHANGED <<now, lastRx, hush, lag, lost, pc, state>>
  BY DEF Arrive, Moment, rx, loop, ghost
<1>2. uart \in Nat /\ hush \in Nat
  BY SilenceNumbers DEF Control
<1>3. ASSUME NEW e \in Nat, NotedFor(e) PROVE NotedFor(e)'
  BY <1>1, <1>2, <1>3 DEF NotedFor
<1>. QED BY <1>1, <1>2, <1>3 DEF Silence

\* The drain begins, and the longest silence with it.
LEMMA SilenceDrainCall ==
  ASSUME Control, Silence, DrainCall
  PROVE  Silence'
<1>1. /\ pc' = "drainHead" /\ hush' = quiet
      /\ UNCHANGED <<now, uart, lastRx, quiet, lag, lost>>
  BY DEF DrainCall, line, rx, ghost
<1>2. quiet \in Nat
  BY SilenceNumbers DEF Control
<1>3. ASSUME NEW e \in Nat, NotedFor(e) PROVE NotedFor(e)'
  BY <1>1, <1>3 DEF NotedFor, Listening
<1>. QED BY <1>1, <1>2, <1>3 DEF Silence

\* The owner's other steps.
LEMMA SilenceOwner ==
  ASSUME Control, Silence,
         \/ Look \/ Count \/ CarveNone \/ Judge \/ Classify
         \/ \E o, kind : CarveCandidate(o, kind)
  PROVE  Silence'
<1>1. /\ UNCHANGED <<now, uart, lastRx, quiet, hush, lag, lost>>
      /\ pc' \notin {"load", "check"}
  BY DEF Look, Count, CarveNone, CarveCandidate, Consume, Judge, JudgeEscape, Goto,
         WaitFirstExpires, WaitFirst, LateWindow, RxActiveEnvelope, RxActiveEmpty,
         RxActiveLast, Classify, ClassifyError, ClassifyDuplicate, ClassifyMatch,
         ClassifyOther, ResumeAfter, line, rx, clock, ghost
<1>2. /\ state' = "DRAIN" /\ pc' \in Listening => state = "DRAIN" /\ pc \in Listening
      /\ Draining' => Draining
  <2>1. CASE Count
    BY <2>1 DEF Count, Listening, Draining
  <2>2. CASE Look
    BY <2>2 DEF Look, Listening, Draining
  <2>3. CASE CarveNone \/ \E o, kind : CarveCandidate(o, kind)
    BY <2>3 DEF CarveNone, CarveCandidate, Listening, Draining
  <2>4. CASE Judge
    BY <2>4 DEF Judge, JudgeEscape, Goto, WaitFirstExpires, WaitFirst, LateWindow,
                RxActiveEnvelope, RxActiveEmpty, RxActiveLast, Listening, Draining
  <2>5. CASE Classify
    BY <2>5 DEF Classify, ClassifyError, ClassifyDuplicate, ClassifyMatch,
                ClassifyOther, ResumeAfter, Listening, Draining
  <2>. QED BY <2>1, <2>2, <2>3, <2>4, <2>5
<1>. QED BY <1>1, <1>2, SilenceKept

LEMMA SilenceDrain ==
  ASSUME Control, Silence,
         \/ DrainSample \/ DrainLoad \/ DrainLoop
         \/ \E o, settles : DrainCarve(o, settles)
  PROVE  Silence'
<1>1. CASE DrainSample
  BY <1>1, SilenceKept DEF DrainSample, Listening, Draining, line, rx, clock, ghost
<1>2. CASE DrainLoad
  BY <1>2, SilenceKept DEF DrainLoad, Silence, Listening, Draining, line, rx, clock, ghost
<1>3. CASE DrainLoop
  BY <1>3, SilenceKept DEF DrainLoop, Listening, Draining, line, rx, clock, ghost
<1>4. CASE \E o, settles : DrainCarve(o, settles)
  BY <1>4, SilenceKept DEF DrainCarve, Consume, Listening, Draining, clock, ghost
<1>. QED BY <1>1, <1>2, <1>3, <1>4

LEMMA SilenceLeave ==
  ASSUME Control, Silence,
         ReadDone \/ (\E sent \in BOOLEAN : WriteDone(sent)) \/ DrainEscape
  PROVE  Silence'
<1>1. /\ state' = "DONE" /\ pc' = "idle"
      /\ UNCHANGED <<now, uart, quiet, lost>> /\ lastRx' \in {0, lastRx}
  BY DEF ReadDone, WriteDone, DrainEscape, Leave, line, rx, ghost
<1>2. CASE lastRx' = lastRx
  BY <1>1, <1>2, SilenceOut DEF Draining
<1>3. CASE lastRx' = 0
  BY <1>1, <1>3 DEF Silence, Draining
<1>. QED BY <1>1, <1>2, <1>3

LEMMA SilenceCall ==
  ASSUME Silence, ReadCall \/ WriteCall
  PROVE  Silence'
<1>1. /\ UNCHANGED <<now, uart, lastRx, quiet, lost>> /\ pc' \in {"head", "drain"}
  BY DEF ReadCall, WriteCall, Call, line, rx
<1>. QED BY <1>1, SilenceOut DEF Listening, Draining

LEMMA SilenceStep ==
  ASSUME ~Threaded, Control, Silence, [Next]_vars
  PROVE  Silence'
<1>1. CASE ReadCall \/ WriteCall
  BY <1>1, SilenceCall
<1>2. CASE LoopHead \/ DrainHead
  BY <1>2, SilenceIngest
<1>3. CASE \/ Look \/ Count \/ CarveNone \/ Judge \/ Classify
           \/ \E o \in Outcomes(Run, now), kind \in Kinds \cup {"none"} :
                CarveCandidate(o, kind)
  BY <1>3, SilenceOwner
<1>4. CASE Drain
  BY <1>2, <1>4, SilenceDrainCall, SilenceDrain, SilenceLeave DEF Drain
<1>5. CASE Arrive
  BY <1>5, SilenceArrive
<1>6. CASE Tick \/ (\E d \in Rests : Rest(d))
  BY <1>6, SilenceTime
<1>7. ~ RxThread
  <2>1. Bytes
    BY DEF Control, Typed
  <2>2. push.at = "none"
    BY <2>1 DEF Bytes, Producer, NoPush
  <2>. QED BY <2>2 DEF RxThread, PushStore, PushPublish
<1>8. CASE UNCHANGED vars
  BY <1>8, SilenceKept DEF Silence, Draining, vars, line, rx, loop, drain, clock, ghost
<1>. QED BY <1>1, <1>2, <1>3, <1>4, <1>5, <1>6, <1>7, <1>8 DEF Next, Owner

\* Without an RX thread the drain takes the line for idle only if it was silent for T3.5,
\* but for a pass of its loop, at some time since it began, however far micros() has wrapped
\* since the last byte.
THEOREM TransactionIdleIsReal == ASSUME ~Threaded PROVE Spec => []IdleIsReal
<1>1. Control /\ Silence => IdleIsReal
  <2> SUFFICES ASSUME Control, Silence, pc = "check", DrainIdle, seenRx # 0, ~ lost
               PROVE  hush >= T35 - Lag
    BY DEF IdleIsReal
  <2>1. seenRx = lastRx /\ nowUs = now /\ state = "DRAIN"
    <3>1. state \in States /\ state \notin Receiving \cup {"PROCESS_FRAME", "DONE"}
      BY DEF Control, Typed, Place, Phase, Pass
    <3>. QED BY <3>1 DEF Silence, States, Receiving
  <2>2. PICK e \in Nat : NotedFor(e)
    BY <2>1 DEF Silence
  <2>3. /\ now = Later(lastRx, e) /\ (hush >= T35 \/ hush >= e - lag)
    BY <2>1, <2>2 DEF NotedFor, Listening
  <2>4. /\ hush \in Nat /\ lag \in Nat /\ lag <= Lag /\ lastRx \in Stamp /\ lastRx \in Int
    BY SilenceNumbers DEF Control, Typed, Counters
  <2>5. Since(lastRx, now) = e % UsWrap
    BY <2>3, <2>4, SinceLater
  <2>6. e % UsWrap <= e
    OBVIOUS
  <2>7. Since(lastRx, now) >= T35
    BY <2>1 DEF DrainIdle, SinceRx
  <2>8. e >= T35
    <3>1. e % UsWrap \in Int
      OBVIOUS
    <3>. QED BY <2>5, <2>6, <2>7, <3>1
  <2>. QED BY <2>3, <2>4, <2>8
<1>2. Init => Silence
  BY SilenceInit
<1>3. Control /\ Silence /\ [Next]_vars => Silence'
  BY SilenceStep
<1>. QED BY <1>1, <1>2, <1>3, AlwaysControl, PTL DEF Spec

=============================================================================
