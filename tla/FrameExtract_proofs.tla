------------------------ MODULE FrameExtract_proofs -------------------------
(***************************************************************************)
(* Theorems about _extractNextFrame() on real bytes, for every length of   *)
(* the ring and of the scan, every check value, every set of good frames   *)
(* whose length the driver can tell, and any amount of noise.              *)
(***************************************************************************)
EXTENDS FrameExtract, Clock_proofs, SequenceTheorems

LEMMA Sizes ==
  /\ UsWrap \in Nat \ {0} /\ T15 \in Nat \ {0} /\ T35 \in Nat \ {0}
  /\ MinFrame \in Nat \ {0} /\ MaxLen \in Nat \ {0}
  /\ T15 < T35 /\ T35 < UsWrap /\ MinFrame <= MaxLen /\ MinFrame <= 5
  /\ MaxRing \in Nat /\ MaxBytes \in Nat /\ MaxNoise \in Nat
  /\ MaxQuiet \in T35 .. UsWrap - 1 /\ Begin \in 0 .. UsWrap - 1
BY CandidateAssumption, ExtractAssumption

USE Sizes

Byte  == 0 .. 255
Stamp == 0 .. UsWrap - 1
Entry == [byte : Byte, ts : Stamp, frame : 0 .. MaxBytes]

-----------------------------------------------------------------------------
(* Runs of bytes and of stamps *)

LEMMA SinceIn == ASSUME NEW a \in Stamp, NEW c \in Stamp
                 PROVE  Since(a, c) \in Stamp
<1>1. c - a \in Int
  BY DEF Stamp
<1>2. (c - a) % UsWrap \in 0 .. UsWrap - 1
  BY <1>1, ModRange
<1>. QED BY <1>2 DEF Since, Stamp

LEMMA LeastOf ==
  ASSUME NEW T, T \subseteq Nat, T # {}
  PROVE  Min(T) \in T /\ \A y \in T : Min(T) <= y
<1>1. \E x \in T : \A y \in T : x <= y
  BY SmallestOf
<1>. QED BY <1>1 DEF Min

LEMMA Parts ==
  ASSUME NEW s \in Seq(Entry)
  PROVE  /\ Len(s) \in Nat /\ \A i \in 1 .. Len(s) : s[i] \in Entry
         /\ Bytes(s) \in Seq(Byte) /\ Len(Bytes(s)) = Len(s)
         /\ Stamps(s) \in Seq(Stamp) /\ Len(Stamps(s)) = Len(s)
         /\ \A i \in 1 .. Len(s) : /\ Bytes(s)[i] = s[i].byte /\ Bytes(s)[i] \in Byte
                                   /\ Stamps(s)[i] = s[i].ts /\ Stamps(s)[i] \in Stamp
<1>1. Len(s) \in Nat /\ \A i \in 1 .. Len(s) : s[i] \in Entry
  BY LenProperties, ElementOfSeq
<1>2. \A i \in 1 .. Len(s) : s[i].byte \in Byte /\ s[i].ts \in Stamp
  BY <1>1 DEF Entry
<1>3. Bytes(s) \in Seq(Byte) /\ Stamps(s) \in Seq(Stamp)
  BY <1>1, <1>2, IsASeq DEF Bytes, Stamps
<1>4. Len(Bytes(s)) = Len(s) /\ Len(Stamps(s)) = Len(s)
  <2>1. DOMAIN Bytes(s) = 1 .. Len(s) /\ DOMAIN Stamps(s) = 1 .. Len(s)
    BY DEF Bytes, Stamps
  <2>. QED BY <1>1, <1>3, <2>1, LenProperties
<1>. QED BY <1>1, <1>2, <1>3, <1>4 DEF Bytes, Stamps

LEMMA ScannedIs ==
  ASSUME NEW s \in Seq(Entry)
  PROVE  /\ Scanned(s) \in Seq(Entry)
         /\ Len(Scanned(s)) = IF Len(s) <= MaxLen THEN Len(s) ELSE MaxLen
         /\ \A i \in 1 .. Len(Scanned(s)) : Scanned(s)[i] = s[i]
         /\ Len(s) <= MaxLen => Scanned(s) = s
<1>1. PICK n : n = Min({Len(s), MaxLen})
  OBVIOUS
<1>2. Len(s) \in Nat /\ n = IF Len(s) <= MaxLen THEN Len(s) ELSE MaxLen
  BY <1>1, LenProperties, MinOf
<1>3. \A i \in 1 .. n : s[i] \in Entry
  BY <1>2, ElementOfSeq
<1>4. Scanned(s) = SubSeq(s, 1, n)
  BY <1>1 DEF Scanned
<1>5. /\ Scanned(s) \in Seq(Entry) /\ Len(Scanned(s)) = n
      /\ \A i \in 1 .. n : Scanned(s)[i] = s[i]
  BY <1>2, <1>3, <1>4, SubSeqProperties
<1>. QED BY <1>2, <1>5, SeqEqual

LEMMA EndIs ==
  ASSUME NEW s \in Seq(Stamp)
  PROVE  /\ CandidateEnd(s) \in 0 .. Len(s)
         /\ Len(s) >= 1 => CandidateEnd(s) >= 1
         /\ \A i \in 2 .. CandidateEnd(s) : ~ (GapBefore(s, i) >= T35)
         /\ CandidateEnd(s) < Len(s) => GapBefore(s, CandidateEnd(s) + 1) >= T35
<1> DEFINE ends == {i \in 2 .. Len(s) : GapBefore(s, i) >= T35}
<1>1. Len(s) \in Nat
  BY LenProperties
<1>2. CASE ends = {}
  <2>1. CandidateEnd(s) = Len(s)
    BY <1>2 DEF CandidateEnd
  <2>. QED BY <1>1, <1>2, <2>1
<1>3. CASE ends # {}
  <2>0. ends \subseteq Nat
    BY <1>1
  <2>1. \E i \in ends : \A j \in ends : i <= j
    BY <1>3, <2>0, SmallestOf
  <2> DEFINE first == CHOOSE i \in ends : \A j \in ends : i <= j
  <2>2. first \in ends /\ \A j \in ends : first <= j
    BY <2>1
  <2>3. CandidateEnd(s) = first - 1
    BY <1>3 DEF CandidateEnd
  <2> HIDE DEF first
  <2>4. \A i \in 2 .. first - 1 : i \notin ends
    BY <1>1, <2>2
  <2>. QED BY <1>1, <2>2, <2>3, <2>4
<1>. QED BY <1>2, <1>3

-----------------------------------------------------------------------------
(* _expectedFrameLength() *)

\* No predicted length is shorter than the shortest frame.
LEMMA LengthIs ==
  ASSUME NEW b \in Seq(Byte), NEW n \in 0 .. Len(b)
  PROVE  /\ ExpectedLen(b, n) \in Nat
         /\ ExpectedLen(b, n) # 0 => ExpectedLen(b, n) >= 5
<1>1. Len(b) \in Nat /\ \A i \in 1 .. Len(b) : b[i] \in Byte
  BY LenProperties, ElementOfSeq
<1>2. CASE n < 2
  BY <1>2 DEF ExpectedLen
<1>3. CASE n >= 2 /\ b[2] \in Exception
  BY <1>3, ExtractAssumption DEF ExpectedLen
<1>4. CASE n >= 2 /\ b[2] \in Fixed
  BY <1>4, ExtractAssumption DEF ExpectedLen
<1>5. CASE n >= 3 /\ b[2] \in Counted
  <2>1. PICK c \in 0 .. 255 : b[3] = c
    BY <1>1, <1>5 DEF Byte
  <2>2. ExpectedLen(b, n) = 5 + c
    BY <1>5, <2>1, ExtractAssumption DEF ExpectedLen
  <2>. QED BY <2>2
<1>6. CASE ~ (n < 2) /\ ~ (n >= 2 /\ b[2] \in Exception)
           /\ ~ (n >= 2 /\ b[2] \in Fixed) /\ ~ (n >= 3 /\ b[2] \in Counted)
  BY <1>6 DEF ExpectedLen
<1>. QED BY <1>2, <1>3, <1>4, <1>5, <1>6

\* What a beginning of a frame says of the length is what the frame says.
LEMMA LengthKept ==
  ASSUME NEW b \in Seq(Byte), NEW f \in Seq(Byte), NEW m \in Nat, NEW n \in 0 .. m,
         \A i \in 1 .. n : b[i] = f[i]
  PROVE  /\ ExpectedLen(b, n) \in {0, ExpectedLen(f, m)}
         /\ ExpectedLen(b, m) = ExpectedLen(f, m) \/ n # m
<1>1. CASE n < 2
  <2>1. ExpectedLen(b, n) = 0
    BY <1>1 DEF ExpectedLen
  <2>2. n = m => ExpectedLen(f, m) = 0
    BY <1>1 DEF ExpectedLen
  <2>. QED BY <2>1, <2>2
<1>2. CASE n >= 2
  <2>1. b[2] = f[2] /\ n \in Nat /\ m >= n
    BY <1>2
  <2>0. ~ (n < 2) /\ n >= 2 /\ ~ (m < 2) /\ m >= 2
    BY <1>2, <2>1
  <2>2. CASE f[2] \in Exception
    <3>1. f[2] \notin Fixed /\ f[2] \notin Counted
      BY <2>2, ExtractAssumption
    <3>2. ExpectedLen(b, n) = 5 /\ ExpectedLen(f, m) = 5
      BY <2>0, <2>1, <2>2, <3>1, Zenon DEF ExpectedLen
    <3>. QED BY <3>2
  <2>3. CASE f[2] \in Fixed
    <3>1. f[2] \notin Exception /\ f[2] \notin Counted
      BY <2>3, ExtractAssumption
    <3>2. ExpectedLen(b, n) = 8 /\ ExpectedLen(f, m) = 8
      BY <2>0, <2>1, <2>3, <3>1, Zenon DEF ExpectedLen
    <3>. QED BY <3>2
  <2>4. CASE f[2] \in Counted /\ n >= 3
    <3>0. f[2] \notin Exception /\ f[2] \notin Fixed
      BY <2>4, ExtractAssumption
    <3>1. b[3] = f[3] /\ m >= 3
      BY <2>1, <2>4
    <3>2. ExpectedLen(b, n) = 5 + b[3]
      BY <2>0, <2>1, <2>4, <3>0, Zenon DEF ExpectedLen
    <3>3. ExpectedLen(f, m) = 5 + f[3]
      BY <2>0, <2>1, <2>4, <3>0, <3>1, Zenon DEF ExpectedLen
    <3>. QED BY <3>1, <3>2, <3>3, Zenon
  <2>5. CASE n < 3 /\ f[2] \in Counted
    <3>0. f[2] \notin Exception /\ f[2] \notin Fixed /\ ~ (n >= 3)
      BY <2>1, <2>5, ExtractAssumption
    <3>1. ExpectedLen(b, n) = 0
      BY <2>0, <2>1, <2>5, <3>0, Zenon DEF ExpectedLen
    <3>2. n = m => ExpectedLen(f, m) = 0
      BY <2>0, <2>1, <2>5, <3>0, Zenon DEF ExpectedLen
    <3>. QED BY <3>1, <3>2
  <2>6. CASE f[2] \notin Exception /\ f[2] \notin Fixed /\ f[2] \notin Counted
    <3>1. ExpectedLen(b, n) = 0 /\ ExpectedLen(f, m) = 0
      BY <2>0, <2>1, <2>6, Zenon DEF ExpectedLen
    <3>. QED BY <3>1
  <2>. QED BY <2>1, <2>2, <2>3, <2>4, <2>5, <2>6
<1>. QED BY <1>1, <1>2

-----------------------------------------------------------------------------
(* What the scan may answer *)

LEMMA JudgedIs ==
  ASSUME NEW b \in Seq(Byte), NEW n \in 1 .. Len(b)
  PROVE  \/ Judged(b, n).status = "ok" /\ Judged(b, n).drop = n
            /\ Len(Judged(b, n).frame) = n
         \/ Judged(b, n) = Answer("crc", 1, <<>>)
<1>1. Len(b) \in Nat /\ \A i \in 1 .. n : b[i] \in Byte
  BY LenProperties, ElementOfSeq
<1>2. Len(SubSeq(b, 1, n)) = n
  BY <1>1, SubSeqProperties
<1>. QED BY <1>2 DEF Judged, Answer

LEMMA ScanAnswers ==
  ASSUME NEW s \in Seq(Entry), NEW us \in Stamp, MinFrame <= Len(s),
         NEW st, st = Stamps(s), NEW b, b = Bytes(s),
         NEW end, end = CandidateEnd(st), NEW a, a = Scan(s, us)
  PROVE  \/ a = Answer("frame", 1, <<>>)
         \/ \E n \in MinFrame .. end : ~Broken(st, n) /\ a = Judged(b, n)
         \/ end = Len(s) /\ ~Idle(st, us) /\ a = Nothing
         \/ /\ end < Len(s) \/ Idle(st, us)
            /\ \/ a = Answer("gap", end, <<>>)
               \/ end < MinFrame /\ a = Answer("frame", end, <<>>)
<1>1. /\ Len(s) \in Nat /\ b \in Seq(Byte) /\ Len(b) = Len(s)
      /\ st \in Seq(Stamp) /\ Len(st) = Len(s)
  BY Parts
<1>2. end \in 1 .. Len(s)
  BY <1>1, EndIs
<1> DEFINE stops == {i \in 1 .. end : WrongAt(b, i) \/ CompleteAt(s, i)}
<1>3. CASE stops # {}
  <2>1. PICK stop : stop = Min(stops)
    OBVIOUS
  <2>2. stops \subseteq Nat
    BY <1>2
  <2>3. stop \in stops
    BY <1>3, <2>1, <2>2, LeastOf
  <2>4. stop \in 1 .. end /\ (WrongAt(b, stop) \/ CompleteAt(s, stop))
    BY <2>3
  <2>5. a = IF WrongAt(b, stop) THEN Answer("frame", 1, <<>>) ELSE Judged(b, stop)
    BY <1>3, <2>1 DEF Scan
  <2>6. CASE WrongAt(b, stop)
    BY <2>5, <2>6
  <2>7. CASE ~ WrongAt(b, stop)
    <3>1. ExpectedLen(b, stop) = stop /\ ~Broken(st, stop)
      BY <2>4, <2>7 DEF CompleteAt
    <3>2. stop \in 0 .. Len(b) /\ stop # 0
      BY <1>1, <1>2, <2>4
    <3>3. stop >= 5
      BY <1>1, <3>1, <3>2, LengthIs
    <3>4. stop \in MinFrame .. end
      BY <1>2, <2>4, <3>3
    <3>. QED BY <2>5, <2>7, <3>1, <3>4
  <2>. QED BY <2>6, <2>7
<1>4. CASE stops = {} /\ ~ (end < Len(s)) /\ ~ Idle(st, us)
  <2>1. a = Nothing
    BY <1>4 DEF Scan
  <2>. QED BY <1>2, <1>4, <2>1
<1>5. CASE stops = {} /\ (end < Len(s) \/ Idle(st, us))
  <2>1. PICK bad \in BOOLEAN : bad = (end < Len(s) \/ Broken(st, end))
    OBVIOUS
  <2>2. a = Finished(b, end, bad)
    BY <1>5, <2>1 DEF Scan
  <2>3. PICK short \in BOOLEAN : short = (ExpectedLen(b, end) # 0 /\ end < ExpectedLen(b, end))
    OBVIOUS
  <2>4. CASE short
    BY <1>5, <2>2, <2>3, <2>4 DEF Finished
  <2>5. CASE end < MinFrame /\ ~ short
    BY <1>5, <2>2, <2>3, <2>5 DEF Finished
  <2>6. CASE end >= MinFrame /\ ~ short /\ bad
    BY <1>2, <1>5, <2>2, <2>3, <2>6 DEF Finished
  <2>7. CASE end >= MinFrame /\ ~ short /\ ~ bad
    <3>1. ~ (end < MinFrame)
      BY <1>1, <1>2, <2>7
    <3>2. ~ (ExpectedLen(b, end) # 0 /\ end < ExpectedLen(b, end)) /\ ~ bad
      BY <2>3, <2>7, Zenon
    <3>3. a = Judged(b, end)
      BY <2>2, <3>1, <3>2, Zenon DEF Finished
    <3>4. ~ Broken(st, end)
      BY <2>1, <2>7, Zenon
    <3>5. end \in MinFrame .. end
      BY <1>1, <1>2, <2>7
    <3>. QED BY <3>3, <3>4, <3>5, Zenon
  <2>. QED BY <1>2, <2>4, <2>5, <2>6, <2>7
<1>. QED BY <1>3, <1>4, <1>5

LEMMA ScanKeeps ==
  ASSUME NEW s \in Seq(Entry), NEW us \in Stamp, MinFrame <= Len(s),
         NEW a, a = Scan(s, us)
  PROVE  /\ Outcome(a.status, a.drop) \in Outcomes(Stamps(s), us)
         /\ a.drop \in 0 .. CandidateEnd(Stamps(s))
         /\ a.status \in {"none", "ok", "crc", "frame", "gap"}
         /\ Len(a.frame) = IF a.status = "ok" THEN a.drop ELSE 0
<1> DEFINE st == Stamps(s)
           b == Bytes(s)
           end == CandidateEnd(st)
           frames == {k \in MinFrame .. end : ~Broken(st, k)}
           good == {Outcome("ok", k) : k \in frames}
           bad == IF frames = {} THEN {} ELSE {Outcome("crc", 1)}
           late == IF Ended(st, us)
                   THEN {Outcome("gap", end)}
                        \cup (IF end < MinFrame THEN {Outcome("frame", end)} ELSE {})
                   ELSE {Outcome("none", 0)}
<1>1. /\ Len(s) \in Nat /\ b \in Seq(Byte) /\ Len(b) = Len(s)
      /\ st \in Seq(Stamp) /\ Len(st) = Len(s)
  BY Parts
<1>2. end \in 1 .. Len(s)
  BY <1>1, EndIs
<1>3. Outcomes(st, us) = good \cup bad \cup {Outcome("frame", 1)} \cup late
  BY <1>1 DEF Outcomes
<1>4. Ended(st, us) <=> end < Len(s) \/ Idle(st, us)
  BY <1>1 DEF Ended
<1>5. \/ a = Answer("frame", 1, <<>>)
      \/ \E n \in MinFrame .. end : ~Broken(st, n) /\ a = Judged(b, n)
      \/ end = Len(s) /\ ~Idle(st, us) /\ a = Nothing
      \/ /\ end < Len(s) \/ Idle(st, us)
         /\ \/ a = Answer("gap", end, <<>>)
            \/ end < MinFrame /\ a = Answer("frame", end, <<>>)
  BY ScanAnswers
<1>6. Len(<<>>) = 0
  OBVIOUS
<1>7. CASE a = Answer("frame", 1, <<>>)
  BY <1>2, <1>3, <1>6, <1>7 DEF Answer
<1>8. ASSUME NEW n \in MinFrame .. end, ~Broken(st, n), a = Judged(b, n)
      PROVE  /\ Outcome(a.status, a.drop) \in Outcomes(st, us)
             /\ a.drop \in 0 .. end
             /\ a.status \in {"none", "ok", "crc", "frame", "gap"}
             /\ Len(a.frame) = IF a.status = "ok" THEN a.drop ELSE 0
  <2>1. n \in 1 .. Len(b) /\ n \in 1 .. end
    BY <1>1, <1>2, <1>8
  <2>2. n \in frames
    BY <1>8
  <2>3. CASE a.status = "ok" /\ a.drop = n /\ Len(a.frame) = n
    <3>1. Outcome("ok", n) \in good
      BY <2>2
    <3>. QED BY <1>3, <2>1, <2>3, <3>1
  <2>4. CASE a = Answer("crc", 1, <<>>)
    <3>1. Outcome("crc", 1) \in bad
      BY <2>2
    <3>. QED BY <1>2, <1>3, <1>6, <2>4, <3>1 DEF Answer
  <2>. QED BY <1>1, <1>8, <2>1, <2>3, <2>4, JudgedIs
<1>9. CASE end = Len(s) /\ ~Idle(st, us) /\ a = Nothing
  <2>1. ~ Ended(st, us)
    BY <1>1, <1>4, <1>9
  <2>2. Outcome("none", 0) \in late
    BY <2>1
  <2>. QED BY <1>2, <1>3, <1>6, <1>9, <2>2 DEF Nothing, Answer
<1>10. CASE /\ end < Len(s) \/ Idle(st, us)
            /\ \/ a = Answer("gap", end, <<>>)
               \/ end < MinFrame /\ a = Answer("frame", end, <<>>)
  <2>1. Outcome(a.status, a.drop) \in late
    BY <1>4, <1>10 DEF Answer
  <2>. QED BY <1>2, <1>3, <1>6, <1>10, <2>1 DEF Answer
<1>. QED BY <1>5, <1>7, <1>8, <1>9, <1>10

\* For every run of bytes and every moment, reachable or not, the answer is one
\* of the outcomes RxTransaction is built on, and the bytes consumed are there
\* (663-803).
THEOREM ExtractKeeps ==
  ASSUME NEW s \in Seq(Entry), NEW us \in Stamp, NEW a, a = Extract(s, us)
  PROVE  /\ Outcome(a.status, a.drop) \in Outcomes(Stamps(Scanned(s)), us)
         /\ a.drop \in 0 .. Len(s)
         /\ a.status \in {"none", "ok", "crc", "frame", "gap"}
         /\ Len(a.frame) = IF a.status = "ok" THEN a.drop ELSE 0
<1> DEFINE r == Scanned(s)
<1>1. Len(s) \in Nat /\ Len(<<>>) = 0
  BY LenProperties
<1>2. /\ r \in Seq(Entry) /\ Len(r) = IF Len(s) <= MaxLen THEN Len(s) ELSE MaxLen
      /\ Len(s) <= MaxLen => r = s
  BY ScannedIs
<1>3. CASE s = <<>>
  <2>1. a = Nothing
    BY <1>3 DEF Extract
  <2>2. r = s
    BY <1>1, <1>2, <1>3
  <2>3. Len(Stamps(s)) = 0
    BY <1>1, <1>3, Parts
  <2>4. Outcomes(Stamps(s), us) = {Outcome("none", 0)}
    BY <2>3 DEF Outcomes
  <2>. QED BY <1>1, <1>3, <2>1, <2>2, <2>4 DEF Nothing, Answer
<1>4. CASE Len(s) \in 1 .. MinFrame - 1
  <2>1. a = IF Idle(Stamps(s), us) THEN Answer("gap", Len(s), <<>>) ELSE Nothing
    BY <1>1, <1>4 DEF Extract
  <2>2. r = s
    BY <1>1, <1>2, <1>4
  <2>3. Len(Stamps(s)) = Len(s)
    BY Parts
  <2>4. Ended(Stamps(s), us) <=> Idle(Stamps(s), us)
    BY <1>4, <2>3 DEF Ended
  <2>5. Outcomes(Stamps(s), us) = {IF Ended(Stamps(s), us) THEN Outcome("gap", Len(s))
                                                           ELSE Outcome("none", 0)}
    BY <1>4, <2>3 DEF Outcomes
  <2>. QED BY <1>1, <1>4, <2>1, <2>2, <2>4, <2>5 DEF Nothing, Answer
<1>5. CASE Len(s) >= MinFrame
  <2>1. a = Scan(r, us)
    BY <1>1, <1>5 DEF Extract
  <2>2. MinFrame <= Len(r) /\ Len(r) <= Len(s)
    BY <1>1, <1>2, <1>5
  <2>3. Stamps(r) \in Seq(Stamp) /\ Len(Stamps(r)) = Len(r) /\ Len(r) \in Nat
    BY <1>2, Parts
  <2>4. CandidateEnd(Stamps(r)) \in 0 .. Len(r)
    BY <2>3, EndIs
  <2> HIDE DEF r
  <2>5. /\ Outcome(a.status, a.drop) \in Outcomes(Stamps(r), us)
        /\ a.drop \in 0 .. CandidateEnd(Stamps(r))
        /\ a.status \in {"none", "ok", "crc", "frame", "gap"}
        /\ Len(a.frame) = IF a.status = "ok" THEN a.drop ELSE 0
    BY <1>2, <2>1, <2>2, ScanKeeps
  <2>. QED BY <1>1, <2>2, <2>3, <2>4, <2>5 DEF r
<1>6. s # <<>> => Len(s) >= 1
  BY <1>1, EmptySeq
<1>. QED BY <1>1, <1>3, <1>4, <1>5, <1>6

\* Nothing that was looked at stays behind on a line that fell silent: every
\* call then consumes a byte at least, so that the drain ends without its
\* escape (670-684, 758-778).
THEOREM SilentIsRead ==
  ASSUME NEW s \in Seq(Entry), NEW us \in Stamp, s # <<>>, Idle(Stamps(Scanned(s)), us)
  PROVE  Extract(s, us).drop >= 1
<1>1. PICK a : a = Extract(s, us)
  OBVIOUS
<1>2. PICK r \in Seq(Entry) : r = Scanned(s)
  BY ScannedIs
<1>3. /\ Len(r) = IF Len(s) <= MaxLen THEN Len(s) ELSE MaxLen
      /\ Len(s) <= MaxLen => r = s
      /\ Len(s) \in Nat \ {0} /\ Idle(Stamps(r), us)
  BY <1>2, ScannedIs, EmptySeq
<1>4. CASE Len(s) < MinFrame
  <2>1. a = Answer("gap", Len(s), <<>>)
    BY <1>1, <1>3, <1>4 DEF Extract
  <2>. QED BY <1>1, <1>3, <2>1 DEF Answer
<1>5. CASE Len(s) >= MinFrame
  <2>1. a = Scan(r, us) /\ MinFrame <= Len(r) /\ Len(r) \in Nat \ {0}
    BY <1>1, <1>2, <1>3, <1>5 DEF Extract
  <2>2. PICK st \in Seq(Stamp), b \in Seq(Byte) :
          st = Stamps(r) /\ b = Bytes(r) /\ Len(st) = Len(r) /\ Len(b) = Len(r)
    BY Parts
  <2>3. PICK end \in 1 .. Len(r) : end = CandidateEnd(st)
    BY <2>1, <2>2, EndIs
  <2>4. \/ a = Answer("frame", 1, <<>>)
        \/ \E n \in MinFrame .. end : ~Broken(st, n) /\ a = Judged(b, n)
        \/ end = Len(r) /\ ~Idle(st, us) /\ a = Nothing
        \/ /\ end < Len(r) \/ Idle(st, us)
           /\ \/ a = Answer("gap", end, <<>>)
              \/ end < MinFrame /\ a = Answer("frame", end, <<>>)
    BY <2>1, <2>2, <2>3, ScanAnswers
  <2>5. ASSUME NEW n \in MinFrame .. end, a = Judged(b, n) PROVE a.drop >= 1
    <3>1. n \in 1 .. Len(b)
      BY <2>1, <2>2, <2>3
    <3>. QED BY <2>5, <3>1, JudgedIs DEF Answer
  <2>6. a.drop >= 1 \/ (end = Len(r) /\ ~Idle(st, us) /\ a = Nothing)
    BY <2>3, <2>4, <2>5 DEF Answer
  <2>. QED BY <1>1, <1>3, <2>2, <2>6
<1>. QED BY <1>3, <1>4, <1>5

-----------------------------------------------------------------------------
(* A good frame at the head of the ring *)

LEMMA FrameIs ==
  ASSUME NEW body \in Bodies, NEW F, F = Frame(body)
  PROVE  /\ body \in Seq(Byte) /\ CrcOf(body) \in Seq(Byte) /\ F \in Seq(Byte)
         /\ Len(F) \in MinFrame .. MaxLen /\ ExpectedLen(F, Len(F)) = Len(F)
         /\ Len(body) \in Nat /\ Len(F) = Len(body) + 2 /\ Len(CrcOf(body)) = 2
         /\ \A i \in 1 .. Len(F) : F[i] = IF i <= Len(body) THEN body[i]
                                          ELSE CrcOf(body)[i - Len(body)]
<1>1. /\ body \in Seq(Byte) /\ CrcOf(body) \in Seq(Byte) /\ Len(CrcOf(body)) = 2
      /\ Len(F) \in MinFrame .. MaxLen /\ ExpectedLen(F, Len(F)) = Len(F)
  BY BodiesAssumption DEF Byte
<1>2. PICK c : c = CrcOf(body)
  OBVIOUS
<1>3. F = body \o c
  BY <1>2 DEF Frame
<1>4. Len(body) \in Nat /\ c \in Seq(Byte) /\ Len(c) = 2
  BY <1>1, <1>2, LenProperties
<1>5. /\ body \o c \in Seq(Byte) /\ Len(body \o c) = Len(body) + Len(c)
      /\ \A i \in 1 .. Len(body) + Len(c) :
           (body \o c)[i] = IF i <= Len(body) THEN body[i] ELSE c[i - Len(body)]
  BY <1>1, <1>4, ConcatProperties, Zenon
<1>. QED BY <1>1, <1>2, <1>3, <1>4, <1>5

LEMMA JudgedGood ==
  ASSUME NEW body \in Bodies, NEW F, F = Frame(body), NEW n, n = Len(F),
         NEW b \in Seq(Byte), n <= Len(b), \A i \in 1 .. n : b[i] = F[i]
  PROVE  Judged(b, n) = Answer("ok", n, SubSeq(b, 1, n))
<1>1. /\ body \in Seq(Byte) /\ CrcOf(body) \in Seq(Byte)
      /\ Len(body) \in Nat /\ n = Len(body) + 2 /\ Len(CrcOf(body)) = 2
      /\ \A i \in 1 .. n : F[i] = IF i <= Len(body) THEN body[i]
                                  ELSE CrcOf(body)[i - Len(body)]
  BY FrameIs
<1>2. Len(b) \in Nat /\ \A i \in 1 .. Len(b) : b[i] \in Byte
  BY LenProperties, ElementOfSeq
<1>3. PICK x : x = SubSeq(b, 1, n - 2)
  OBVIOUS
<1>4. PICK y : y = SubSeq(b, n - 1, n)
  OBVIOUS
<1>5. \A i \in 1 .. n - 2 : b[i] \in Byte
  BY <1>1, <1>2
<1>6. \A i \in n - 1 .. n : b[i] \in Byte
  BY <1>1, <1>2
<1>7. /\ x \in Seq(Byte) /\ Len(x) = n - 2
      /\ \A i \in 1 .. n - 2 : x[i] = b[i]
  BY <1>1, <1>3, <1>5, SubSeqProperties
<1>8. /\ y \in Seq(Byte) /\ Len(y) = 2
      /\ \A i \in 1 .. 2 : y[i] = b[n - 2 + i]
  BY <1>1, <1>4, <1>6, SubSeqProperties
<1>9. x = body
  <2>1. Len(x) = Len(body) /\ \A i \in 1 .. Len(x) : x[i] = body[i]
    <3>1. Len(x) = Len(body) /\ Len(x) \in Nat
      BY <1>1, <1>7
    <3>2. ASSUME NEW i \in 1 .. Len(x) PROVE x[i] = body[i]
      <4>1. i \in 1 .. n - 2 /\ i \in 1 .. n /\ i <= Len(body)
        BY <1>1, <3>1
      <4>. QED BY <1>1, <1>7, <4>1
    <3>. QED BY <3>1, <3>2
  <2>. QED BY <1>1, <1>7, <2>1, SeqEqual
<1>10. y = CrcOf(body)
  <2>1. \A i \in 1 .. 2 : b[n - 2 + i] = CrcOf(body)[i]
    BY <1>1
  <2>2. Len(y) = Len(CrcOf(body)) /\ \A i \in 1 .. Len(y) : y[i] = CrcOf(body)[i]
    BY <1>1, <1>8, <2>1
  <2>. QED BY <1>1, <1>8, <2>2, SeqEqual
<1>11. CrcGood(b, n)
  BY <1>3, <1>4, <1>9, <1>10 DEF CrcGood
<1>. QED BY <1>11 DEF Judged

\* The first m bytes of a frame of n, with legal gaps, neither end the
\* candidate nor stop the scan, but for the last byte of the frame.
LEMMA CleanRun ==
  ASSUME NEW s \in Seq(Entry), NEW F \in Seq(Byte), NEW n \in 1 .. MaxLen, n = Len(F),
         ExpectedLen(F, n) = n, NEW m \in 1 .. n, m <= Len(s),
         \A i \in 1 .. m : /\ s[i].byte = F[i]
                           /\ 1 < i => Since(s[i - 1].ts, s[i].ts) <= T15
  PROVE  /\ CandidateEnd(Stamps(s)) >= m
         /\ \A i \in 1 .. m : /\ ~Broken(Stamps(s), i) /\ ~WrongAt(Bytes(s), i)
                              /\ CompleteAt(s, i) <=> i = n
<1> DEFINE st == Stamps(s)
           b == Bytes(s)
           end == CandidateEnd(st)
<1>1. /\ Len(s) \in Nat /\ b \in Seq(Byte) /\ Len(b) = Len(s)
      /\ st \in Seq(Stamp) /\ Len(st) = Len(s)
      /\ \A i \in 1 .. Len(s) : b[i] = s[i].byte /\ st[i] = s[i].ts /\ st[i] \in Stamp
  BY Parts
<1>2. /\ end \in 0 .. Len(s) /\ end >= 1
      /\ end < Len(s) => GapBefore(st, end + 1) >= T35
  BY <1>1, EndIs
<1> HIDE DEF st, b, end
<1>3. ASSUME NEW i \in 2 .. m
      PROVE  GapBefore(st, i) <= T15 /\ GapBefore(st, i) \in Nat
  <2>1. st[i - 1] = s[i - 1].ts /\ st[i] = s[i].ts /\ st[i - 1] \in Stamp /\ st[i] \in Stamp
    BY <1>1
  <2>2. Since(st[i - 1], st[i]) \in Stamp
    BY <2>1, SinceIn
  <2>. QED BY <2>1, <2>2 DEF GapBefore, Stamp
<1>4. end >= m
  <2>1. SUFFICES ASSUME end < m PROVE FALSE
    BY <1>1, <1>2
  <2>2. end + 1 \in 2 .. m /\ end < Len(s)
    BY <1>1, <1>2, <2>1
  <2>3. GapBefore(st, end + 1) <= T15 /\ GapBefore(st, end + 1) \in Nat
    BY <1>3, <2>2
  <2>. QED BY <1>2, <2>2, <2>3
<1>5. ASSUME NEW i \in 1 .. m
      PROVE  ~Broken(st, i) /\ ~WrongAt(b, i) /\ (CompleteAt(s, i) <=> i = n)
  <2>1. ~Broken(st, i)
    <3>1. \A j \in 2 .. i : j \in 2 .. m
      OBVIOUS
    <3>. QED BY <1>3, <3>1 DEF Broken
  <2>2. i \in 0 .. n /\ \A j \in 1 .. i : b[j] = F[j]
    BY <1>1
  <2>3. ExpectedLen(b, i) \in {0, n} /\ (i = n => ExpectedLen(b, i) = n)
    <3>1. /\ ExpectedLen(b, i) \in {0, ExpectedLen(F, n)}
          /\ ExpectedLen(b, n) = ExpectedLen(F, n) \/ i # n
      <4>1. n \in Nat
        OBVIOUS
      <4>. QED BY <1>1, <2>2, <4>1, LengthKept
    <3>. QED BY <3>1
  <2>4. ~WrongAt(b, i)
    BY <2>3 DEF WrongAt
  <2>5. CompleteAt(s, i) <=> i = n
    BY <2>1, <2>3 DEF CompleteAt, st, b
  <2>. QED BY <2>1, <2>4, <2>5
<1>. QED BY <1>4, <1>5 DEF st, b, end

LEMMA ScanWhole ==
  ASSUME NEW s \in Seq(Entry), NEW F \in Seq(Byte), NEW n \in 1 .. MaxLen, n = Len(F),
         ExpectedLen(F, n) = n, n <= Len(s), NEW us \in Stamp,
         \A i \in 1 .. n : /\ s[i].byte = F[i]
                           /\ 1 < i => Since(s[i - 1].ts, s[i].ts) <= T15
  PROVE  Scan(s, us) = Judged(Bytes(s), n)
<1> DEFINE st == Stamps(s)
           b == Bytes(s)
           end == CandidateEnd(st)
           stops == {i \in 1 .. end : WrongAt(b, i) \/ CompleteAt(s, i)}
<1>1. /\ end >= n
      /\ \A i \in 1 .. n : ~WrongAt(b, i) /\ (CompleteAt(s, i) <=> i = n)
  <2>1. n \in 1 .. n
    OBVIOUS
  <2>. QED BY <2>1, CleanRun
<1>2. end \in Nat
  BY Parts, EndIs
<1>3. PICK stop : stop = Min(stops)
  OBVIOUS
<1>4. n \in stops /\ stops \subseteq Nat
  BY <1>1, <1>2
<1>5. stop \in stops /\ stop <= n
  BY <1>3, <1>4, LeastOf
<1>6. stop \in 1 .. n /\ (WrongAt(b, stop) \/ CompleteAt(s, stop))
  BY <1>2, <1>5
<1>7. stop = n /\ ~WrongAt(b, n)
  BY <1>1, <1>6
<1>8. Scan(s, us) = IF WrongAt(b, stop) THEN Answer("frame", 1, <<>>) ELSE Judged(b, stop)
  BY <1>3, <1>4 DEF Scan
<1>. QED BY <1>7, <1>8

LEMMA ScanWaits ==
  ASSUME NEW s \in Seq(Entry), s # <<>>, NEW F \in Seq(Byte), NEW n \in 1 .. MaxLen,
         n = Len(F), ExpectedLen(F, n) = n, Len(s) < n, NEW us \in Stamp, ~Idle(Stamps(s), us),
         \A i \in 1 .. Len(s) : /\ s[i].byte = F[i]
                                /\ 1 < i => Since(s[i - 1].ts, s[i].ts) <= T15
  PROVE  Scan(s, us) = Nothing
<1> DEFINE st == Stamps(s)
           b == Bytes(s)
           end == CandidateEnd(st)
           stops == {i \in 1 .. end : WrongAt(b, i) \/ CompleteAt(s, i)}
<1>1. PICK m \in 1 .. n : m = Len(s)
  BY EmptySeq, LenProperties
<1>2. /\ end >= m
      /\ \A i \in 1 .. m : ~WrongAt(b, i) /\ (CompleteAt(s, i) <=> i = n)
  <2>1. m <= Len(s) /\ \A i \in 1 .. m : /\ s[i].byte = F[i]
                                         /\ 1 < i => Since(s[i - 1].ts, s[i].ts) <= T15
    BY <1>1
  <2>2. CandidateEnd(Stamps(s)) >= m
    BY <2>1, CleanRun
  <2>3. \A i \in 1 .. m : ~WrongAt(Bytes(s), i) /\ (CompleteAt(s, i) <=> i = n)
    BY <2>1, CleanRun
  <2>. QED BY <2>2, <2>3
<1>3. end = m
  BY <1>1, <1>2, Parts, EndIs
<1>4. \A i \in 1 .. end : ~WrongAt(b, i) /\ ~CompleteAt(s, i)
  BY <1>1, <1>2, <1>3
<1>5. stops = {} /\ ~ (end < Len(s))
  BY <1>1, <1>3, <1>4
<1>. QED BY <1>5 DEF Scan

-----------------------------------------------------------------------------
(* The inductive invariant *)

\* The frame F stands in a ring r from place k on: its bytes are there, with
\* legal gaps, behind a silence; what is not there yet is what c says is still
\* to come.
StandsAt(r, c, F, k) ==
  LET n == Len(F)
      f == r[k].frame
  IN  /\ \A j \in 1 .. Len(r) : r[j].frame = f <=> k <= j /\ j < k + n
      /\ \A j \in 1 .. Len(r) : k <= j /\ j < k + n =>
           /\ r[j].byte = F[j - k + 1]
           /\ k < j => Since(r[j - 1].ts, r[j].ts) <= T15
      /\ 1 < k => Since(r[k - 1].ts, r[k].ts) >= T35
      /\ IF k + n <= Len(r) + 1 THEN c.id # f
         ELSE c = [bytes |-> SubSeq(F, Len(r) - k + 2, n), id |-> f]

Framed ==
  \A i \in 1 .. Len(ring) : ring[i].frame # 0 =>
    \E k \in 1 .. i, body \in Bodies : /\ ring[k].frame = ring[i].frame
                                      /\ StandsAt(ring, coming, Frame(body), k)

\* While a frame is on the line its last byte is the last one in the ring.
Carried ==
  /\ Sending => /\ ring # <<>> /\ ring[Len(ring)].frame = coming.id
                /\ coming.id # 0 /\ quiet <= T15
  /\ ~Sending => coming = NoFrame
  /\ coming.id <= sent
  /\ \A i \in 1 .. Len(ring) : ring[i].frame <= sent

Timed == ring # <<>> => Since(ring[Len(ring)].ts, now) = quiet

Typed == /\ TypeOK /\ ring \in Seq(Entry)
         /\ coming \in [bytes : Seq(0 .. 255), id : 0 .. MaxBytes]

IInv == Typed /\ Framed /\ Carried /\ Timed

\* A frame that is still coming in is not taken for one that was cut off.
LEMMA Unfinished ==
  ASSUME Typed, Carried, Timed, NEW F \in Seq(Byte), NEW k \in 1 .. Len(ring),
         StandsAt(ring, coming, F, k), Len(ring) + 1 < k + Len(F)
  PROVE  Sending /\ ~Idle(Stamps(ring), now)
<1>1. Len(ring) \in Nat /\ Len(F) \in Nat /\ ring \in Seq(Entry) /\ quiet \in Nat
  BY LenProperties DEF Typed, TypeOK
<1>2. coming.bytes = SubSeq(F, Len(ring) - k + 2, Len(F))
  BY <1>1 DEF StandsAt
<1>3. Len(coming.bytes) # 0
  <2>1. \A i \in Len(ring) - k + 2 .. Len(F) : F[i] \in Byte
    BY <1>1, ElementOfSeq
  <2>2. Len(SubSeq(F, Len(ring) - k + 2, Len(F))) = Len(F) - (Len(ring) - k + 2) + 1
    BY <1>1, <2>1, SubSeqProperties
  <2>. QED BY <1>1, <1>2, <2>2
<1>4. Sending /\ quiet <= T15 /\ ring # <<>>
  BY <1>3, EmptySeq DEF Sending, Carried
<1>5. Since(ring[Len(ring)].ts, now) = quiet
  BY <1>4 DEF Timed
<1>6. Stamps(ring)[Len(Stamps(ring))] = ring[Len(ring)].ts
  BY <1>1, Parts
<1>. QED BY <1>1, <1>4, <1>5, <1>6 DEF Idle

\* A call leaves a frame alone, or takes exactly it.
LEMMA Spared ==
  ASSUME Typed, Carried, Timed, NEW body \in Bodies, NEW F, F = Frame(body),
         NEW k \in 1 .. Len(ring), StandsAt(ring, coming, F, k),
         NEW a, a = Extract(ring, now)
  PROVE  \/ a.drop < k
         \/ /\ k = 1 /\ Len(F) <= Len(ring) /\ a.status = "ok" /\ a.drop = Len(F)
            /\ a.frame = Bytes(SubSeq(ring, 1, a.drop))
<1> DEFINE r == Scanned(ring)
           n == Len(F)
<1>1. /\ Len(ring) \in Nat /\ ring \in Seq(Entry) /\ now \in Stamp /\ k >= 1
  BY LenProperties DEF Typed, TypeOK, Stamp
<1>2. /\ F \in Seq(Byte) /\ n \in MinFrame .. MaxLen /\ n \in 1 .. MaxLen
      /\ ExpectedLen(F, n) = n
  BY FrameIs
<1>3. /\ r \in Seq(Entry) /\ Len(r) = IF Len(ring) <= MaxLen THEN Len(ring) ELSE MaxLen
      /\ \A i \in 1 .. Len(r) : r[i] = ring[i]
      /\ Len(ring) <= MaxLen => r = ring
  BY <1>1, ScannedIs
<1> HIDE DEF r, n
<1>4. ring # <<>>
  BY <1>1, EmptySeq
<1>5. CASE Len(ring) < MinFrame
  <2>1. ~Idle(Stamps(ring), now)
    BY <1>1, <1>2, <1>5, Unfinished DEF n
  <2>2. a = Nothing
    BY <1>1, <1>4, <1>5, <2>1 DEF Extract
  <2>. QED BY <1>1, <2>2 DEF Nothing, Answer
<1>6. CASE Len(ring) >= MinFrame
  <2>1. a = Scan(r, now) /\ MinFrame <= Len(r)
    BY <1>1, <1>3, <1>4, <1>6 DEF Extract, r
  <2>2. CASE 1 < k
    <3>1. a.drop \in 0 .. CandidateEnd(Stamps(r))
      BY <1>1, <1>3, <2>1, ScanKeeps
    <3>2. /\ Len(r) \in Nat /\ Stamps(r) \in Seq(Stamp) /\ Len(Stamps(r)) = Len(r)
          /\ \A i \in 1 .. Len(r) : Stamps(r)[i] = r[i].ts
      BY <1>3, Parts
    <3>3. /\ CandidateEnd(Stamps(r)) \in 0 .. Len(r)
          /\ \A i \in 2 .. CandidateEnd(Stamps(r)) : ~ (GapBefore(Stamps(r), i) >= T35)
      BY <3>2, EndIs
    <3>4. CASE k <= Len(r)
      <4>1. Stamps(r)[k - 1] = ring[k - 1].ts /\ Stamps(r)[k] = ring[k].ts
        <5>1. k \in 1 .. Len(r) /\ k - 1 \in 1 .. Len(r)
          BY <1>1, <2>2, <3>2, <3>4
        <5>. QED BY <1>3, <3>2, <5>1
      <4>2. GapBefore(Stamps(r), k) >= T35
        BY <2>2, <4>1 DEF GapBefore, StandsAt
      <4>3. k \notin 2 .. CandidateEnd(Stamps(r))
        BY <3>3, <4>2
      <4>. QED BY <1>1, <2>2, <3>1, <3>2, <3>3, <4>3
    <3>5. CASE ~ (k <= Len(r))
      BY <1>1, <3>1, <3>2, <3>3, <3>5
    <3>. QED BY <3>4, <3>5
  <2>3. ASSUME k = 1, NEW i \in 1 .. Len(ring), i <= n
        PROVE  ring[i].byte = F[i] /\ (1 < i => Since(ring[i - 1].ts, ring[i].ts) <= T15)
    <3>1. k <= i /\ i < k + n /\ i - k + 1 = i
      BY <1>1, <1>2, <2>3
    <3>2. /\ ring[i].byte = F[i - k + 1]
          /\ k < i => Since(ring[i - 1].ts, ring[i].ts) <= T15
      BY <3>1, Zenon DEF StandsAt, n
    <3>. QED BY <2>3, <3>1, <3>2
  <2>4. CASE k = 1 /\ n <= Len(ring)
    <3>1. n <= Len(r) /\ Len(r) <= Len(ring) /\ Len(r) \in Nat
      BY <1>1, <1>2, <1>3, <2>4
    <3>2. ASSUME NEW i \in 1 .. n
          PROVE  r[i].byte = F[i] /\ (1 < i => Since(r[i - 1].ts, r[i].ts) <= T15)
      <4>1. i \in 1 .. Len(r) /\ i \in 1 .. Len(ring) /\ (1 < i => i - 1 \in 1 .. Len(r))
        BY <1>2, <1>1, <3>1
      <4>2. i <= n
        BY <1>2
      <4>3. ring[i].byte = F[i] /\ (1 < i => Since(ring[i - 1].ts, ring[i].ts) <= T15)
        BY <2>3, <2>4, <4>1, <4>2
      <4>4. r[i] = ring[i] /\ (1 < i => r[i - 1] = ring[i - 1])
        BY <1>3, <4>1
      <4>. QED BY <4>3, <4>4
    <3>3. a = Judged(Bytes(r), n)
      <4>1. n = Len(F)
        BY DEF n
      <4>2. Scan(r, now) = Judged(Bytes(r), n)
        BY <1>1, <1>2, <1>3, <3>1, <3>2, <4>1, ScanWhole
      <4>. QED BY <2>1, <4>2
    <3>4. /\ Bytes(r) \in Seq(Byte) /\ Len(Bytes(r)) = Len(r)
          /\ \A i \in 1 .. Len(r) : Bytes(r)[i] = r[i].byte
      BY <1>3, Parts
    <3>5. \A i \in 1 .. n : Bytes(r)[i] = F[i]
      BY <1>2, <3>1, <3>2, <3>4
    <3>6. a = Answer("ok", n, SubSeq(Bytes(r), 1, n))
      BY <3>1, <3>3, <3>4, <3>5, JudgedGood DEF n
    <3>7. SubSeq(Bytes(r), 1, n) = Bytes(SubSeq(ring, 1, n))
      <4>1. \A i \in 1 .. n : ring[i] \in Entry /\ Bytes(r)[i] \in Byte
        BY <1>1, <1>2, <3>1, <3>4, ElementOfSeq
      <4>2. PICK x : x = SubSeq(ring, 1, n)
        OBVIOUS
      <4>3. x \in Seq(Entry) /\ Len(x) = n /\ \A i \in 1 .. n : x[i] = ring[i]
        BY <1>2, <4>1, <4>2, SubSeqProperties
      <4>4. PICK y : y = SubSeq(Bytes(r), 1, n)
        OBVIOUS
      <4>5. y \in Seq(Byte) /\ Len(y) = n /\ \A i \in 1 .. n : y[i] = Bytes(r)[i]
        BY <1>2, <4>1, <4>4, SubSeqProperties
      <4>6. /\ Bytes(x) \in Seq(Byte) /\ Len(Bytes(x)) = n
            /\ \A i \in 1 .. n : Bytes(x)[i] = x[i].byte
        BY <4>3, Parts
      <4>7. ASSUME NEW i \in 1 .. n PROVE y[i] = Bytes(x)[i]
        <5>1. i \in 1 .. Len(r)
          BY <1>2, <3>1
        <5>2. r[i] = ring[i] /\ Bytes(r)[i] = r[i].byte
          BY <1>3, <3>4, <5>1
        <5>3. x[i] = ring[i] /\ y[i] = Bytes(r)[i] /\ Bytes(x)[i] = x[i].byte
          BY <4>3, <4>5, <4>6
        <5>. QED BY <5>2, <5>3
      <4>. QED BY <4>2, <4>4, <4>5, <4>6, <4>7, SeqEqual
    <3>. QED BY <2>4, <3>6, <3>7 DEF Answer, n
  <2>5. CASE k = 1 /\ Len(ring) < n
    <3>1. r = ring
      BY <1>1, <1>2, <1>3, <2>5
    <3>2. ~Idle(Stamps(ring), now)
      BY <1>1, <1>2, <2>5, Unfinished DEF n
    <3>3. \A i \in 1 .. Len(ring) : /\ ring[i].byte = F[i]
                                    /\ 1 < i => Since(ring[i - 1].ts, ring[i].ts) <= T15
      BY <1>1, <1>2, <2>3, <2>5
    <3>4. Scan(ring, now) = Nothing
      BY <1>1, <1>2, <1>4, <2>5, <3>2, <3>3, ScanWaits DEF n
    <3>. QED BY <2>1, <2>5, <3>1, <3>4 DEF Nothing, Answer
  <2>. QED BY <1>1, <1>2, <2>2, <2>4, <2>5
<1>. QED BY <1>1, <1>5, <1>6

-----------------------------------------------------------------------------
(* A frame in the ring while the ring changes *)

LEMMA Appended ==
  ASSUME NEW r \in Seq(Entry), NEW e \in Entry, NEW t, t = Append(r, e)
  PROVE  /\ t \in Seq(Entry) /\ Len(r) \in Nat /\ Len(t) = Len(r) + 1
         /\ \A i \in 1 .. Len(r) : t[i] = r[i]
         /\ t[Len(t)] = e /\ t # <<>>
BY AppendProperties, LenProperties

LEMMA LastOrBefore ==
  ASSUME NEW n \in Nat, NEW j \in 1 .. n + 1, j # n + 1
  PROVE  j \in 1 .. n
OBVIOUS

\* A byte behind a complete frame.
LEMMA StandsOn ==
  ASSUME NEW r \in Seq(Entry), NEW e \in Entry, NEW c, NEW d, NEW F \in Seq(Byte),
         NEW k \in 1 .. Len(r), StandsAt(r, c, F, k), k + Len(F) <= Len(r) + 1,
         e.frame # r[k].frame, d.id # r[k].frame
  PROVE  StandsAt(Append(r, e), d, F, k)
<1>1. PICK t : t = Append(r, e)
  OBVIOUS
<1>2. /\ Len(r) \in Nat /\ Len(t) = Len(r) + 1 /\ t[Len(t)] = e
      /\ \A i \in 1 .. Len(r) : t[i] = r[i]
  BY <1>1, Appended
<1>3. PICK n \in Nat : n = Len(F)
  BY LenProperties
<1>4. t[k] = r[k] /\ k + n <= Len(r) + 1
  BY <1>2, <1>3
<1>5. ASSUME NEW j \in 1 .. Len(t)
      PROVE  /\ t[j].frame = t[k].frame <=> k <= j /\ j < k + n
             /\ k <= j /\ j < k + n =>
                  /\ t[j].byte = F[j - k + 1]
                  /\ k < j => Since(t[j - 1].ts, t[j].ts) <= T15
  <2>1. CASE j = Len(t)
    BY <1>2, <1>4, <2>1
  <2>2. CASE j # Len(t)
    <3>1. j \in 1 .. Len(r) /\ (k < j => j - 1 \in 1 .. Len(r))
      BY <1>2, <2>2
    <3>2. t[j] = r[j] /\ (k < j => t[j - 1] = r[j - 1])
      BY <1>2, <3>1
    <3>3. /\ r[j].frame = r[k].frame <=> k <= j /\ j < k + n
          /\ k <= j /\ j < k + n =>
               /\ r[j].byte = F[j - k + 1]
               /\ k < j => Since(r[j - 1].ts, r[j].ts) <= T15
      BY <1>3, <3>1, Zenon DEF StandsAt
    <3>. QED BY <1>4, <3>2, <3>3
  <2>. QED BY <2>1, <2>2
<1>6. 1 < k => Since(t[k - 1].ts, t[k].ts) >= T35
  <2>1. 1 < k => t[k - 1] = r[k - 1]
    BY <1>2
  <2>2. 1 < k => Since(r[k - 1].ts, r[k].ts) >= T35
    BY DEF StandsAt
  <2>. QED BY <1>4, <2>1, <2>2
<1>7. k + n <= Len(t) + 1 /\ d.id # t[k].frame
  BY <1>2, <1>4
<1>8. StandsAt(t, d, F, k)
  BY <1>3, <1>5, <1>6, <1>7, Zenon DEF StandsAt
<1>. QED BY <1>1, <1>8

\* The next byte of the frame on the line.
LEMMA StandsMore ==
  ASSUME NEW r \in Seq(Entry), NEW e \in Entry, NEW c, NEW d, NEW F \in Seq(Byte),
         NEW k \in 1 .. Len(r), StandsAt(r, c, F, k), Len(r) + 1 < k + Len(F),
         e.frame = r[k].frame, e.byte = F[Len(r) - k + 2],
         Since(r[Len(r)].ts, e.ts) <= T15,
         IF Len(r) - k + 2 = Len(F) THEN d.id # r[k].frame
         ELSE d = [bytes |-> SubSeq(F, Len(r) - k + 3, Len(F)), id |-> r[k].frame]
  PROVE  StandsAt(Append(r, e), d, F, k)
<1>1. PICK t : t = Append(r, e)
  OBVIOUS
<1>2. /\ Len(r) \in Nat /\ Len(t) = Len(r) + 1 /\ t[Len(t)] = e
      /\ \A i \in 1 .. Len(r) : t[i] = r[i]
  BY <1>1, Appended
<1>3. PICK n \in Nat : n = Len(F)
  BY LenProperties
<1>4. t[k] = r[k] /\ Len(r) + 1 < k + n
  BY <1>2, <1>3
<1>5. ASSUME NEW j \in 1 .. Len(t)
      PROVE  /\ t[j].frame = t[k].frame <=> k <= j /\ j < k + n
             /\ k <= j /\ j < k + n =>
                  /\ t[j].byte = F[j - k + 1]
                  /\ k < j => Since(t[j - 1].ts, t[j].ts) <= T15
  <2>1. CASE j = Len(t)
    <3>1. t[j] = e /\ t[j - 1] = r[Len(r)] /\ j - k + 1 = Len(r) - k + 2 /\ k <= j /\ j < k + n
      BY <1>2, <1>4, <2>1
    <3>. QED BY <1>4, <3>1
  <2>2. CASE j # Len(t)
    <3>1. j \in 1 .. Len(r) /\ (k < j => j - 1 \in 1 .. Len(r))
      <4>1. j \in 1 .. Len(r)
        BY <1>2, <2>2, LastOrBefore, Zenon
      <4>. QED BY <1>2, <4>1
    <3>2. t[j] = r[j] /\ (k < j => t[j - 1] = r[j - 1])
      BY <1>2, <3>1
    <3>3. /\ r[j].frame = r[k].frame <=> k <= j /\ j < k + n
          /\ k <= j /\ j < k + n =>
               /\ r[j].byte = F[j - k + 1]
               /\ k < j => Since(r[j - 1].ts, r[j].ts) <= T15
      BY <1>3, <3>1, Zenon DEF StandsAt
    <3>. QED BY <1>4, <3>2, <3>3
  <2>. QED BY <2>1, <2>2
<1>6. 1 < k => Since(t[k - 1].ts, t[k].ts) >= T35
  <2>1. 1 < k => t[k - 1] = r[k - 1]
    <3>1. 1 < k => k - 1 \in 1 .. Len(r)
      BY <1>2
    <3>. QED BY <1>2, <3>1
  <2>2. 1 < k => Since(r[k - 1].ts, r[k].ts) >= T35
    BY DEF StandsAt
  <2>. QED BY <1>4, <2>1, <2>2
<1>7. IF k + n <= Len(t) + 1 THEN d.id # t[k].frame
      ELSE d = [bytes |-> SubSeq(F, Len(t) - k + 2, n), id |-> t[k].frame]
  <2>1. k + n <= Len(t) + 1 <=> Len(r) - k + 2 = n
    BY <1>2, <1>4
  <2>2. Len(t) - k + 2 = Len(r) - k + 3
    BY <1>2
  <2>. QED BY <1>3, <1>4, <2>1, <2>2
<1>8. StandsAt(t, d, F, k)
  BY <1>3, <1>5, <1>6, <1>7, Zenon DEF StandsAt
<1>. QED BY <1>1, <1>8

\* The first byte of a frame, behind a silence.
LEMMA StandsFirst ==
  ASSUME NEW r \in Seq(Entry), NEW e \in Entry, NEW d, NEW F \in Seq(Byte), Len(F) >= 2,
         \A i \in 1 .. Len(r) : r[i].frame # e.frame,
         e.byte = F[1], r # <<>> => Since(r[Len(r)].ts, e.ts) >= T35,
         d = [bytes |-> SubSeq(F, 2, Len(F)), id |-> e.frame]
  PROVE  StandsAt(Append(r, e), d, F, Len(r) + 1)
<1>1. PICK t : t = Append(r, e)
  OBVIOUS
<1>2. /\ Len(r) \in Nat /\ Len(t) = Len(r) + 1 /\ t[Len(t)] = e
      /\ \A i \in 1 .. Len(r) : t[i] = r[i]
  BY <1>1, Appended
<1>3. PICK n \in Nat : n = Len(F)
  BY LenProperties
<1>4. PICK k \in Nat : k = Len(r) + 1
  BY <1>2
<1>5. ASSUME NEW j \in 1 .. Len(t)
      PROVE  /\ t[j].frame = t[k].frame <=> k <= j /\ j < k + n
             /\ k <= j /\ j < k + n =>
                  /\ t[j].byte = F[j - k + 1]
                  /\ k < j => Since(t[j - 1].ts, t[j].ts) <= T15
  <2>1. CASE j = k
    <3>1. j - k + 1 = 1 /\ t[j] = e
      BY <1>2, <1>4, <2>1
    <3>. QED BY <1>3, <1>4, <2>1, <3>1
  <2>2. CASE j # k
    BY <1>2, <1>4, <2>2
  <2>. QED BY <2>1, <2>2
<1>6. 1 < k => Since(t[k - 1].ts, t[k].ts) >= T35
  <2>1. 1 < k => r # <<>> /\ t[k - 1] = r[Len(r)] /\ t[k] = e
    BY <1>2, <1>4, EmptySeq
  <2>. QED BY <2>1
<1>7. IF k + n <= Len(t) + 1 THEN d.id # t[k].frame
      ELSE d = [bytes |-> SubSeq(F, Len(t) - k + 2, n), id |-> t[k].frame]
  <2>1. ~ (k + n <= Len(t) + 1) /\ Len(t) - k + 2 = 2 /\ t[k] = e
    BY <1>2, <1>3, <1>4
  <2>. QED BY <1>3, <2>1
<1>8. StandsAt(t, d, F, k)
  BY <1>3, <1>5, <1>6, <1>7, Zenon DEF StandsAt
<1>. QED BY <1>1, <1>4, <1>8

LEMMA ShiftOrder ==
  ASSUME NEW k \in Int, NEW q \in Int, NEW j \in Int, NEW n \in Int
  PROVE  /\ k <= q + j <=> k - q <= j
         /\ q + j < k + n <=> j < k - q + n
         /\ k < q + j <=> k - q < j
         /\ q + j - k + 1 = j - (k - q) + 1
OBVIOUS

\* Bytes before the frame are dropped.
LEMMA StandsShifted ==
  ASSUME NEW r \in Seq(Entry), NEW c, NEW F \in Seq(Byte), NEW k \in 1 .. Len(r),
         StandsAt(r, c, F, k), NEW q \in 0 .. k - 1
  PROVE  StandsAt(SubSeq(r, q + 1, Len(r)), c, F, k - q)
<1>1. PICK t : t = SubSeq(r, q + 1, Len(r))
  OBVIOUS
<1>2. Len(r) \in Nat /\ \A i \in q + 1 .. Len(r) : r[i] \in Entry
  BY LenProperties, ElementOfSeq
<1>3. /\ Len(t) = Len(r) - q
      /\ \A i \in 1 .. Len(r) - q : t[i] = r[q + i]
  <2>1. /\ Len(t) = IF q + 1 <= Len(r) THEN Len(r) - (q + 1) + 1 ELSE 0
        /\ \A i \in 1 .. Len(r) - (q + 1) + 1 : t[i] = r[q + 1 + i - 1]
    BY <1>1, <1>2, SubSeqProperties
  <2>. QED BY <1>2, <2>1
<1>4. PICK n \in Nat : n = Len(F)
  BY LenProperties
<1>5. PICK h \in 1 .. Len(t) : h = k - q
  BY <1>2, <1>3
<1>6. t[h] = r[k]
  BY <1>2, <1>3, <1>5
<1>7. ASSUME NEW j \in 1 .. Len(t)
      PROVE  /\ t[j].frame = t[h].frame <=> h <= j /\ j < h + n
             /\ h <= j /\ j < h + n =>
                  /\ t[j].byte = F[j - h + 1]
                  /\ h < j => Since(t[j - 1].ts, t[j].ts) <= T15
  <2>1. PICK i \in 1 .. Len(r) : i = q + j
    BY <1>2, <1>3
  <2>2. /\ r[i].frame = r[k].frame <=> k <= i /\ i < k + n
        /\ k <= i /\ i < k + n =>
             /\ r[i].byte = F[i - k + 1]
             /\ k < i => Since(r[i - 1].ts, r[i].ts) <= T15
    BY <1>4, Zenon DEF StandsAt
  <2>3. /\ k <= i <=> h <= j
        /\ i < k + n <=> j < h + n
        /\ k < i <=> h < j
        /\ i - k + 1 = j - h + 1
    <3>1. k \in Int /\ q \in Int /\ j \in Int /\ n \in Int
      BY <1>2, <1>3
    <3>2. i = q + j /\ h = k - q
      BY <1>5, <2>1
    <3>3. k <= i <=> h <= j
      BY <3>1, <3>2, ShiftOrder
    <3>4. i < k + n <=> j < h + n
      BY <3>1, <3>2, ShiftOrder
    <3>5. k < i <=> h < j
      BY <3>1, <3>2, ShiftOrder
    <3>6. i - k + 1 = j - h + 1
      BY <3>1, <3>2, ShiftOrder
    <3>. QED BY <3>3, <3>4, <3>5, <3>6
  <2>4. t[j] = r[i] /\ (h < j => t[j - 1] = r[i - 1])
    <3>1. j \in 1 .. Len(r) - q /\ (h < j => j - 1 \in 1 .. Len(r) - q)
      BY <1>2, <1>3, <1>5
    <3>2. t[j] = r[q + j] /\ (h < j => t[j - 1] = r[q + (j - 1)])
      BY <1>3, <3>1
    <3>3. q + (j - 1) = i - 1
      BY <1>2, <2>1
    <3>. QED BY <2>1, <3>2, <3>3, Zenon
  <2>. QED BY <1>6, <2>2, <2>3, <2>4
<1>8. 1 < h => Since(t[h - 1].ts, t[h].ts) >= T35
  <2>1. 1 < h => 1 < k /\ t[h - 1] = r[k - 1]
    BY <1>2, <1>3, <1>5
  <2>2. 1 < k => Since(r[k - 1].ts, r[k].ts) >= T35
    BY DEF StandsAt
  <2>. QED BY <1>6, <2>1, <2>2
<1>9. IF h + n <= Len(t) + 1 THEN c.id # t[h].frame
      ELSE c = [bytes |-> SubSeq(F, Len(t) - h + 2, n), id |-> t[h].frame]
  <2>1. IF k + n <= Len(r) + 1 THEN c.id # r[k].frame
        ELSE c = [bytes |-> SubSeq(F, Len(r) - k + 2, n), id |-> r[k].frame]
    BY <1>4, Zenon DEF StandsAt
  <2>2. /\ h + n <= Len(t) + 1 <=> k + n <= Len(r) + 1
        /\ Len(t) - h + 2 = Len(r) - k + 2
    BY <1>2, <1>3, <1>5
  <2>. QED BY <1>6, <2>1, <2>2
<1>10. StandsAt(t, c, F, h)
  BY <1>4, <1>7, <1>8, <1>9, Zenon DEF StandsAt
<1>. QED BY <1>1, <1>5, <1>10

-----------------------------------------------------------------------------
(* Every step keeps the invariant *)

LEMMA SinceNow == ASSUME NEW a \in Stamp PROVE Since(a, a) = 0
<1>1. a - a = UsWrap * 0 + 0 /\ 0 \in 0 .. UsWrap - 1 /\ a - a \in Int
  BY DEF Stamp
<1>2. (a - a) % UsWrap = 0
  BY <1>1, ModIs
<1>. QED BY <1>2 DEF Since

LEMMA SinceNext ==
  ASSUME NEW a \in Stamp, NEW t \in Stamp, NEW q \in Nat, q + 1 < UsWrap, Since(a, t) = q
  PROVE  Since(a, (t + 1) % UsWrap) = q + 1
<1>1. PICK p \in Int : t - a = UsWrap * p + q
  <2>1. t - a \in Int
    BY DEF Stamp
  <2>. QED BY <2>1, ModRange DEF Since
<1>2. PICK e \in Int, u \in Stamp : t + 1 = UsWrap * e + u /\ (t + 1) % UsWrap = u
  <2>1. t + 1 \in Int
    BY DEF Stamp
  <2>. QED BY <2>1, ModRange DEF Stamp
<1>3. u - a = UsWrap * (p - e) + (q + 1)
  <2>1. PICK x \in Int : x = UsWrap * p
    OBVIOUS
  <2>2. PICK y \in Int : y = UsWrap * e
    OBVIOUS
  <2>3. UsWrap * (p - e) = x - y
    BY <2>1, <2>2
  <2>. QED BY <1>1, <1>2, <2>1, <2>2, <2>3 DEF Stamp
<1>4. u - a \in Int /\ p - e \in Int /\ q + 1 \in 0 .. UsWrap - 1
  BY <1>2 DEF Stamp
<1>5. (u - a) % UsWrap = q + 1
  BY <1>3, <1>4, ModIs
<1>. QED BY <1>2, <1>5 DEF Since

LEMMA InitInv == Init => IInv
<1> SUFFICES ASSUME Init PROVE IInv
  OBVIOUS
<1>1. Len(<<>>) = 0 /\ <<>> \in Seq(Entry) /\ <<>> \in Seq(Byte)
  BY EmptySeq
<1>2. TypeOK
  BY <1>1 DEF Init, TypeOK, Nothing, Answer
<1>3. Typed
  BY <1>1, <1>2 DEF Init, Typed, NoFrame, Byte
<1>4. Framed /\ Carried /\ Timed
  BY <1>1 DEF Init, Framed, Carried, Timed, Sending, NoFrame
<1>. QED BY <1>3, <1>4 DEF IInv

LEMMA TickKeeps == ASSUME IInv, Tick PROVE IInv'
<1>1. /\ now \in Stamp /\ quiet \in Nat /\ quiet + 1 <= MaxQuiet
      /\ Sending => quiet + 1 <= T15
  <2>1. now \in Stamp /\ quiet \in Nat
    BY DEF IInv, Typed, TypeOK, Stamp
  <2>. QED BY <2>1 DEF Tick
<1>2. /\ quiet' = quiet + 1 /\ now' = (now + 1) % UsWrap
      /\ ring' = ring /\ coming' = coming /\ sent' = sent /\ noise' = noise /\ result' = result
  BY DEF Tick
<1>3. now' \in Stamp
  <2>1. now + 1 \in Int
    BY <1>1 DEF Stamp
  <2>. QED BY <1>2, <2>1, ModRange DEF Stamp
<1>4. TypeOK'
  BY <1>1, <1>2, <1>3 DEF IInv, Typed, TypeOK, Stamp
<1>5. Typed'
  BY <1>2, <1>4 DEF IInv, Typed
<1>6. Framed'
  BY <1>2 DEF IInv, Framed
<1>7. Carried'
  BY <1>1, <1>2 DEF IInv, Carried, Sending
<1>8. Timed'
  <2>1. SUFFICES ASSUME ring # <<>> PROVE Since(ring[Len(ring)].ts, now') = quiet'
    BY <1>2 DEF Timed
  <2>2. ring[Len(ring)].ts \in Stamp
    <3>1. ring \in Seq(Entry) /\ Len(ring) \in Nat \ {0}
      BY <2>1, EmptySeq DEF IInv, Typed
    <3>2. ring[Len(ring)] \in Entry
      BY <3>1, ElementOfSeq
    <3>. QED BY <3>2 DEF Entry
  <2>3. Since(ring[Len(ring)].ts, now) = quiet /\ quiet + 1 < UsWrap
    BY <1>1, <2>1 DEF IInv, Timed
  <2>4. PICK a \in Stamp, t \in Stamp, q \in Nat : a = ring[Len(ring)].ts /\ t = now /\ q = quiet
    BY <1>1, <2>2
  <2>5. Since(a, (t + 1) % UsWrap) = q + 1
    BY <2>3, <2>4, SinceNext
  <2>. QED BY <1>2, <2>4, <2>5
<1>. QED BY <1>5, <1>6, <1>7, <1>8 DEF IInv

\* What every byte that comes in does.
LEMMA Received ==
  ASSUME IInv, NEW b \in Byte, NEW f \in 0 .. MaxBytes, Receive(b, f)
  PROVE  \E e \in Entry :
           /\ e.byte = b /\ e.ts = now /\ e.frame = f /\ ring' = Append(ring, e)
           /\ ring \in Seq(Entry) /\ ring' \in Seq(Entry) /\ Len(ring) \in Nat
           /\ Len(ring') = Len(ring) + 1 /\ Len(ring') <= MaxRing
           /\ \A i \in 1 .. Len(ring) : ring'[i] = ring[i]
           /\ ring'[Len(ring')] = e /\ ring' # <<>>
           /\ now' = now /\ result' = result /\ quiet' = 0 /\ sent' = sent + 1
           /\ sent \in Nat /\ sent + 1 <= MaxBytes /\ Timed'
<1>1. now \in Stamp /\ ring \in Seq(Entry) /\ sent \in Nat
  BY DEF IInv, Typed, TypeOK, Stamp
<1>2. PICK e \in Entry : e = [byte |-> b, ts |-> now, frame |-> f]
  BY <1>1 DEF Entry
<1>3. /\ ring' = Append(ring, e) /\ Len(ring) < MaxRing /\ sent < MaxBytes
      /\ now' = now /\ result' = result /\ quiet' = 0 /\ sent' = sent + 1
  BY <1>2 DEF Receive
<1>4. /\ ring' \in Seq(Entry) /\ Len(ring) \in Nat /\ Len(ring') = Len(ring) + 1
      /\ \A i \in 1 .. Len(ring) : ring'[i] = ring[i]
      /\ ring'[Len(ring')] = e /\ ring' # <<>>
  BY <1>1, <1>3, Appended
<1>5. e.byte = b /\ e.ts = now /\ e.frame = f
  BY <1>2
<1>6. Timed'
  <2>1. Since(now, now) = 0
    BY <1>1, SinceNow
  <2>. QED BY <1>3, <1>4, <1>5, <2>1 DEF Timed
<1>7. Len(ring') <= MaxRing /\ sent + 1 <= MaxBytes
  BY <1>1, <1>3, <1>4
<1>. QED BY <1>1, <1>3, <1>4, <1>5, <1>6, <1>7

LEMMA ReceivedTyped ==
  ASSUME IInv, NEW b \in Byte, NEW f \in 0 .. MaxBytes, Receive(b, f),
         noise' \in 0 .. MaxNoise, coming' \in [bytes : Seq(Byte), id : 0 .. MaxBytes]
  PROVE  Typed'
<1>1. PICK e \in Entry :
        /\ ring' \in Seq(Entry) /\ Len(ring') <= MaxRing
        /\ now' = now /\ result' = result /\ quiet' = 0 /\ sent' = sent + 1
        /\ sent \in Nat /\ sent + 1 <= MaxBytes
  BY Received
<1>2. Len(ring') \in Nat /\ \A i \in 1 .. Len(ring') : ring'[i] \in Entry
  BY <1>1, LenProperties, ElementOfSeq
<1>3. \A i \in 1 .. Len(ring') : ring'[i].ts \in 0 .. UsWrap - 1 /\ ring'[i].frame \in 0 .. MaxBytes
  BY <1>2 DEF Entry, Stamp
<1>4. TypeOK'
  BY <1>1, <1>3 DEF IInv, Typed, TypeOK
<1>. QED BY <1>1, <1>4 DEF Typed, Byte

LEMMA NoiseKeeps == ASSUME IInv, NEW b \in Noise, NoiseByte(b) PROVE IInv'
<1>1. b \in Byte /\ 0 \in 0 .. MaxBytes
  BY ExtractAssumption DEF Byte
<1>2. /\ ~Sending /\ Receive(b, 0) /\ coming' = coming
      /\ noise' \in 0 .. MaxNoise
  BY DEF NoiseByte, IInv, Typed, TypeOK
<1>3. coming' \in [bytes : Seq(Byte), id : 0 .. MaxBytes]
  BY <1>2 DEF IInv, Typed, Byte
<1>4. Typed'
  BY <1>1, <1>2, <1>3, ReceivedTyped
<1>5. PICK e \in Entry :
        /\ e.frame = 0 /\ ring' = Append(ring, e)
        /\ ring \in Seq(Entry) /\ Len(ring) \in Nat /\ Len(ring') = Len(ring) + 1
        /\ \A i \in 1 .. Len(ring) : ring'[i] = ring[i]
        /\ ring'[Len(ring')] = e /\ sent' = sent + 1 /\ sent \in Nat /\ Timed'
  BY <1>1, <1>2, Received
<1>6. Framed'
  <2>1. SUFFICES ASSUME NEW i \in 1 .. Len(ring'), ring'[i].frame # 0
                 PROVE  \E k \in 1 .. i, body \in Bodies :
                          /\ ring'[k].frame = ring'[i].frame
                          /\ StandsAt(ring', coming', Frame(body), k)
    BY DEF Framed
  <2>2. i \in 1 .. Len(ring) /\ ring'[i] = ring[i]
    <3>1. i # Len(ring')
      BY <1>5, <2>1
    <3>. QED BY <1>5, <2>1, <3>1, LastOrBefore
  <2>3. PICK k \in 1 .. i, body \in Bodies :
          ring[k].frame = ring[i].frame /\ StandsAt(ring, coming, Frame(body), k)
    BY <2>1, <2>2 DEF IInv, Framed
  <2>4. PICK F : F = Frame(body)
    OBVIOUS
  <2>5. F \in Seq(Byte) /\ Len(F) \in Nat
    BY <2>4, FrameIs, LenProperties
  <2>6. k \in 1 .. Len(ring) /\ ring'[k] = ring[k]
    BY <1>5, <2>2
  <2>7. k + Len(F) <= Len(ring) + 1
    <3>1. SUFFICES ASSUME Len(ring) + 1 < k + Len(F) PROVE FALSE
      BY <1>5, <2>5
    <3>. QED BY <1>2, <2>3, <2>4, <2>5, <2>6, <3>1, Unfinished DEF IInv
  <2>8. coming.id # ring[k].frame
    BY <2>3, <2>4, <2>7 DEF StandsAt
  <2>9. StandsAt(Append(ring, e), coming, F, k)
    BY <1>5, <2>1, <2>2, <2>3, <2>4, <2>5, <2>6, <2>7, <2>8, StandsOn
  <2>. QED BY <1>2, <1>5, <2>2, <2>3, <2>4, <2>6, <2>9
<1>7. Carried'
  <2>1. coming.id <= sent /\ coming.id \in Nat
    BY DEF IInv, Carried, Typed
  <2>2. ~Sending' /\ coming' = NoFrame
    BY <1>2 DEF IInv, Carried, Sending
  <2>3. ASSUME NEW i \in 1 .. Len(ring') PROVE ring'[i].frame <= sent'
    <3>1. CASE i = Len(ring')
      BY <1>5, <3>1
    <3>2. CASE i # Len(ring')
      <4>1. i \in 1 .. Len(ring) /\ ring'[i] = ring[i]
        BY <1>5, <3>2, LastOrBefore
      <4>2. ring[i].frame <= sent /\ ring[i] \in Entry
        BY <1>5, <4>1, ElementOfSeq DEF IInv, Carried
      <4>. QED BY <1>5, <4>1, <4>2 DEF Entry
    <3>. QED BY <3>1, <3>2
  <2>. QED BY <1>2, <1>5, <2>1, <2>2, <2>3 DEF Carried
<1>. QED BY <1>4, <1>5, <1>6, <1>7 DEF IInv

LEMMA StartKeeps == ASSUME IInv, NEW body \in Bodies, StartFrame(body) PROVE IInv'
<1> DEFINE F == Frame(body)
<1>1. /\ F \in Seq(Byte) /\ Len(F) \in Nat /\ Len(F) >= 2 /\ F # <<>>
  BY FrameIs, EmptySeq, LenProperties
<1> HIDE DEF F
<1>2. Head(F) \in Byte /\ Tail(F) \in Seq(Byte) /\ Len(Tail(F)) = Len(F) - 1
  BY <1>1, HeadTailProperties
<1>3. Head(F) = F[1] /\ Tail(F) = SubSeq(F, 2, Len(F))
  BY <1>1
<1>4. /\ ~Sending /\ quiet >= T35 /\ sent + Len(F) <= MaxBytes /\ noise' = noise
      /\ coming' = [bytes |-> Tail(F), id |-> sent + 1]
      /\ Receive(Head(F), sent + 1)
  BY DEF StartFrame, F
<1>5. sent \in Nat /\ sent + 1 \in 0 .. MaxBytes /\ quiet \in Nat
  BY <1>1, <1>4 DEF IInv, Typed, TypeOK
<1>6. coming' \in [bytes : Seq(Byte), id : 0 .. MaxBytes] /\ coming'.id = sent + 1
  BY <1>2, <1>4, <1>5
<1>7. Typed'
  <2>1. noise' \in 0 .. MaxNoise
    BY <1>4 DEF IInv, Typed, TypeOK
  <2>. QED BY <1>2, <1>4, <1>5, <1>6, <2>1, ReceivedTyped
<1>8. PICK e \in Entry :
        /\ e.byte = Head(F) /\ e.ts = now /\ e.frame = sent + 1 /\ ring' = Append(ring, e)
        /\ ring \in Seq(Entry) /\ Len(ring) \in Nat /\ Len(ring') = Len(ring) + 1
        /\ \A i \in 1 .. Len(ring) : ring'[i] = ring[i]
        /\ ring'[Len(ring')] = e /\ ring' # <<>>
        /\ quiet' = 0 /\ sent' = sent + 1 /\ Timed'
  BY <1>2, <1>4, <1>5, Received
<1>9. \A i \in 1 .. Len(ring) : ring[i].frame <= sent /\ ring[i].frame \in Nat
  <2>1. \A i \in 1 .. Len(ring) : ring[i] \in Entry
    BY <1>8, ElementOfSeq
  <2>. QED BY <2>1 DEF IInv, Carried, Entry
<1>10. StandsAt(Append(ring, e), coming', F, Len(ring) + 1)
  <2>1. \A i \in 1 .. Len(ring) : ring[i].frame # e.frame
    BY <1>5, <1>8, <1>9
  <2>2. ring # <<>> => Since(ring[Len(ring)].ts, e.ts) >= T35
    BY <1>4, <1>8 DEF IInv, Timed
  <2>3. coming' = [bytes |-> SubSeq(F, 2, Len(F)), id |-> e.frame]
    BY <1>3, <1>4, <1>8
  <2>4. PICK d : d = coming'
    OBVIOUS
  <2>5. StandsAt(Append(ring, e), d, F, Len(ring) + 1)
    BY <1>1, <1>3, <1>8, <2>1, <2>2, <2>3, <2>4, StandsFirst
  <2>. QED BY <2>4, <2>5
<1>11. Framed'
  <2>1. SUFFICES ASSUME NEW i \in 1 .. Len(ring'), ring'[i].frame # 0
                 PROVE  \E k \in 1 .. i, fb \in Bodies :
                          /\ ring'[k].frame = ring'[i].frame
                          /\ StandsAt(ring', coming', Frame(fb), k)
    BY DEF Framed
  <2>2. CASE i = Len(ring')
    BY <1>8, <1>10, <2>2 DEF F
  <2>3. CASE i # Len(ring')
    <3>1. i \in 1 .. Len(ring) /\ ring'[i] = ring[i]
      BY <1>8, <2>1, <2>3, LastOrBefore
    <3>2. PICK k \in 1 .. i, fb \in Bodies :
            ring[k].frame = ring[i].frame /\ StandsAt(ring, coming, Frame(fb), k)
      BY <2>1, <3>1 DEF IInv, Framed
    <3>3. PICK G : G = Frame(fb)
      OBVIOUS
    <3>4. G \in Seq(Byte) /\ Len(G) \in Nat
      BY <3>3, FrameIs, LenProperties
    <3>5. k \in 1 .. Len(ring) /\ ring'[k] = ring[k]
      BY <1>8, <3>1
    <3>6. k + Len(G) <= Len(ring) + 1
      <4>1. SUFFICES ASSUME Len(ring) + 1 < k + Len(G) PROVE FALSE
        BY <1>8, <3>4
      <4>. QED BY <1>4, <3>2, <3>3, <3>4, <3>5, <4>1, Unfinished DEF IInv
    <3>7. PICK d : d = coming'
      OBVIOUS
    <3>8. ring[k].frame <= sent /\ ring[k].frame \in Nat
      BY <1>9, <3>5
    <3>9. e.frame # ring[k].frame /\ d.id # ring[k].frame
      BY <1>5, <1>6, <1>8, <3>7, <3>8
    <3>10. StandsAt(Append(ring, e), d, G, k)
      BY <1>8, <3>2, <3>3, <3>4, <3>5, <3>6, <3>9, StandsOn
    <3>. QED BY <1>8, <3>1, <3>2, <3>3, <3>5, <3>7, <3>10
  <2>. QED BY <2>2, <2>3
<1>12. Carried'
  <2>1. Sending' /\ coming'.id # 0 /\ coming'.id = e.frame
    <3>1. Tail(F) # <<>>
      <4>1. Len(<<>>) = 0
        OBVIOUS
      <4>2. Len(Tail(F)) # 0
        BY <1>1, <1>2
      <4>. QED BY <4>1, <4>2
    <3>2. coming'.bytes # <<>>
      BY <1>4, <3>1
    <3>. QED BY <1>5, <1>6, <1>8, <3>2 DEF Sending
  <2>2. ASSUME NEW i \in 1 .. Len(ring') PROVE ring'[i].frame <= sent'
    <3>1. CASE i = Len(ring')
      BY <1>5, <1>8, <3>1
    <3>2. CASE i # Len(ring')
      <4>1. i \in 1 .. Len(ring) /\ ring'[i] = ring[i]
        BY <1>8, <3>2, LastOrBefore
      <4>. QED BY <1>5, <1>8, <1>9, <4>1
    <3>. QED BY <3>1, <3>2
  <2>. QED BY <1>5, <1>6, <1>8, <2>1, <2>2 DEF Carried
<1>. QED BY <1>7, <1>8, <1>11, <1>12 DEF IInv

LEMMA BytesReplaced ==
  ASSUME NEW x, NEW y, NEW id, NEW c, c = [bytes |-> x, id |-> id]
  PROVE  [c EXCEPT !.bytes = y] = [bytes |-> y, id |-> id]
OBVIOUS

LEMMA NextByteKeeps == ASSUME IInv, NextByte PROVE IInv'
<1>0. PICK bs \in Seq(Byte), id \in 0 .. MaxBytes : coming = [bytes |-> bs, id |-> id]
  BY DEF IInv, Typed, Byte
<1>1. /\ bs # <<>> /\ Receive(Head(bs), id) /\ noise' = noise
      /\ coming' = IF Len(bs) = 1 THEN NoFrame ELSE [bytes |-> Tail(bs), id |-> id]
  <2>1. coming.bytes = bs /\ coming.id = id
    BY <1>0
  <2>2. [coming EXCEPT !.bytes = Tail(bs)] = [bytes |-> Tail(bs), id |-> id]
    BY <1>0, BytesReplaced
  <2>3. [coming EXCEPT !.bytes = Tail(@)] = [coming EXCEPT !.bytes = Tail(bs)]
    BY <2>1
  <2>. QED BY <2>1, <2>2, <2>3, Zenon DEF NextByte, Sending
<1>2. /\ ring # <<>> /\ ring[Len(ring)].frame = id /\ id # 0 /\ quiet <= T15
      /\ ring \in Seq(Entry) /\ Len(ring) \in Nat \ {0} /\ id <= sent /\ quiet \in Nat
  <2>1. ring # <<>> /\ ring[Len(ring)].frame = id /\ id # 0 /\ quiet <= T15 /\ id <= sent
    BY <1>0, <1>1 DEF IInv, Carried, Sending
  <2>2. ring \in Seq(Entry) /\ quiet \in Nat
    BY DEF IInv, Typed, TypeOK
  <2>. QED BY <2>1, <2>2, EmptySeq
<1>3. PICK k \in 1 .. Len(ring), body \in Bodies :
        ring[k].frame = id /\ StandsAt(ring, coming, Frame(body), k)
  <2>1. Len(ring) \in 1 .. Len(ring)
    BY <1>2
  <2>2. \E k \in 1 .. Len(ring), body \in Bodies :
          /\ ring[k].frame = ring[Len(ring)].frame
          /\ StandsAt(ring, coming, Frame(body), k)
    BY <1>2, <2>1, Zenon DEF IInv, Framed
  <2>. QED BY <1>2, <2>2
<1>4. PICK F : F = Frame(body)
  OBVIOUS
<1>5. F \in Seq(Byte) /\ Len(F) \in Nat /\ \A i \in 1 .. Len(F) : F[i] \in Byte
  BY <1>4, FrameIs, LenProperties, ElementOfSeq
<1>6. PICK m \in Nat : m = Len(ring) - k + 2
  BY <1>2
<1>7. Len(ring) + 1 < k + Len(F) /\ bs = SubSeq(F, m, Len(F))
  <2>1. IF k + Len(F) <= Len(ring) + 1 THEN coming.id # ring[k].frame
        ELSE coming = [bytes |-> SubSeq(F, Len(ring) - k + 2, Len(F)), id |-> ring[k].frame]
    BY <1>3, <1>4, Zenon DEF StandsAt
  <2>2. ~ (k + Len(F) <= Len(ring) + 1)
    BY <1>0, <1>3, <2>1
  <2>3. coming = [bytes |-> SubSeq(F, Len(ring) - k + 2, Len(F)), id |-> ring[k].frame]
    BY <2>1, <2>2
  <2>4. coming.bytes = bs /\ coming.bytes = SubSeq(F, m, Len(F))
    BY <1>0, <1>6, <2>3
  <2>. QED BY <1>2, <1>5, <2>2, <2>4
<1>8. m \in 1 .. Len(F) /\ m >= 2
  BY <1>2, <1>5, <1>6, <1>7
<1>9. /\ Head(bs) = F[m] /\ Head(bs) \in Byte
      /\ Tail(bs) = SubSeq(F, m + 1, Len(F)) /\ Tail(bs) \in Seq(Byte)
      /\ Len(bs) = Len(F) - m + 1
  <2>1. \A i \in m .. Len(F) : F[i] \in Byte
    BY <1>5, <1>8
  <2>2. Len(SubSeq(F, m, Len(F))) = Len(F) - m + 1
    BY <1>5, <1>8, <2>1, SubSeqProperties
  <2>3. Head(SubSeq(F, m, Len(F))) = F[m] /\ Tail(SubSeq(F, m, Len(F))) = SubSeq(F, m + 1, Len(F))
    <3>1. Len(F) \in m .. Len(F)
      BY <1>5, <1>8
    <3>. QED BY <1>5, <1>8, <3>1, HeadTailOfSubSeq
  <2>4. Tail(bs) \in Seq(Byte)
    BY <1>1, HeadTailProperties
  <2>. QED BY <1>5, <1>7, <1>8, <2>2, <2>3, <2>4
<1>10. PICK e \in Entry :
        /\ e.byte = F[m] /\ e.ts = now /\ e.frame = id /\ ring' = Append(ring, e)
        /\ Len(ring') = Len(ring) + 1
        /\ \A i \in 1 .. Len(ring) : ring'[i] = ring[i]
        /\ ring'[Len(ring')] = e /\ ring' # <<>>
        /\ quiet' = 0 /\ sent' = sent + 1 /\ sent \in Nat /\ Timed'
  BY <1>1, <1>2, <1>9, Received
<1>11. PICK d : d = coming'
  OBVIOUS
<1>12. /\ m = Len(F) => d = NoFrame
       /\ m # Len(F) => d = [bytes |-> SubSeq(F, m + 1, Len(F)), id |-> id]
  <2>1. Len(bs) = 1 <=> m = Len(F)
    BY <1>5, <1>8, <1>9
  <2>. QED BY <1>1, <1>9, <1>11, <2>1
<1>13. d \in [bytes : Seq(Byte), id : 0 .. MaxBytes] /\ (d = NoFrame \/ d.id = id)
  <2>1. CASE m = Len(F)
    <3>1. <<>> \in Seq(Byte) /\ 0 \in 0 .. MaxBytes
      BY EmptySeq
    <3>2. NoFrame \in [bytes : Seq(Byte), id : 0 .. MaxBytes]
      BY <3>1 DEF NoFrame
    <3>. QED BY <1>12, <2>1, <3>2, Zenon
  <2>2. CASE m # Len(F)
    <3>1. PICK x \in Seq(Byte) : x = SubSeq(F, m + 1, Len(F))
      BY <1>9
    <3>2. d = [bytes |-> x, id |-> id]
      BY <1>12, <2>2, <3>1
    <3>. QED BY <3>2
  <2>. QED BY <2>1, <2>2
<1>14. Typed'
  <2>1. noise' \in 0 .. MaxNoise /\ coming' \in [bytes : Seq(Byte), id : 0 .. MaxBytes]
    BY <1>1, <1>11, <1>13 DEF IInv, Typed, TypeOK
  <2>. QED BY <1>1, <1>2, <1>9, <2>1, ReceivedTyped
<1>15. StandsAt(Append(ring, e), d, F, k)
  <2>1. Since(ring[Len(ring)].ts, e.ts) <= T15
    BY <1>2, <1>10 DEF IInv, Timed
  <2>2. IF m = Len(F) THEN d.id # ring[k].frame
        ELSE d = [bytes |-> SubSeq(F, m + 1, Len(F)), id |-> ring[k].frame]
    BY <1>2, <1>3, <1>12 DEF NoFrame
  <2>3. Len(ring) - k + 2 = m /\ Len(ring) - k + 3 = m + 1
    BY <1>2, <1>6
  <2>4. IF Len(ring) - k + 2 = Len(F) THEN d.id # ring[k].frame
        ELSE d = [bytes |-> SubSeq(F, Len(ring) - k + 3, Len(F)), id |-> ring[k].frame]
    BY <2>2, <2>3
  <2>5. e.frame = ring[k].frame /\ e.byte = F[Len(ring) - k + 2]
    BY <1>3, <1>10, <2>3
  <2>. QED BY <1>2, <1>3, <1>4, <1>5, <1>7, <2>1, <2>4, <2>5, StandsMore
<1>16. Framed'
  <2>1. SUFFICES ASSUME NEW i \in 1 .. Len(ring'), ring'[i].frame # 0
                 PROVE  \E h \in 1 .. i, fb \in Bodies :
                          /\ ring'[h].frame = ring'[i].frame
                          /\ StandsAt(ring', coming', Frame(fb), h)
    BY DEF Framed
  <2>2. ring'[k] = ring[k] /\ k <= Len(ring)
    BY <1>10
  <2>3. CASE i = Len(ring')
    <3>1. k \in 1 .. i /\ ring'[k].frame = ring'[i].frame
      BY <1>2, <1>3, <1>10, <2>2, <2>3
    <3>. QED BY <1>4, <1>10, <1>11, <1>15, <3>1
  <2>4. CASE i # Len(ring')
    <3>1. i \in 1 .. Len(ring) /\ ring'[i] = ring[i]
      BY <1>2, <1>10, <2>1, <2>4, LastOrBefore
    <3>2. PICK h \in 1 .. i, fb \in Bodies :
            ring[h].frame = ring[i].frame /\ StandsAt(ring, coming, Frame(fb), h)
      BY <2>1, <3>1 DEF IInv, Framed
    <3>3. PICK G : G = Frame(fb)
      OBVIOUS
    <3>4. G \in Seq(Byte) /\ Len(G) \in Nat
      BY <3>3, FrameIs, LenProperties
    <3>5. h \in 1 .. Len(ring) /\ ring'[h] = ring[h]
      BY <1>10, <3>1
    <3>6. CASE ring[h].frame = id
      <4>1. h = k
        <5>1. /\ ring[h].frame = ring[k].frame <=> k <= h /\ h < k + Len(F)
              /\ ring[k].frame = ring[h].frame <=> h <= k /\ k < h + Len(G)
          BY <1>3, <1>4, <3>2, <3>3, <3>5, Zenon DEF StandsAt
        <5>2. k <= h /\ h <= k
          BY <1>3, <3>6, <5>1
        <5>. QED BY <3>5, <5>2
      <4>2. k \in 1 .. i /\ ring'[k].frame = ring'[i].frame
        BY <3>2, <3>5, <3>1, <4>1
      <4>. QED BY <1>4, <1>10, <1>11, <1>15, <4>2
    <3>7. CASE ring[h].frame # id
      <4>1. h + Len(G) <= Len(ring) + 1
        <5>1. IF h + Len(G) <= Len(ring) + 1 THEN coming.id # ring[h].frame
              ELSE coming = [bytes |-> SubSeq(G, Len(ring) - h + 2, Len(G)), id |-> ring[h].frame]
          BY <3>2, <3>3, Zenon DEF StandsAt
        <5>2. ~ (h + Len(G) <= Len(ring) + 1) => id = ring[h].frame
          BY <1>0, <5>1
        <5>. QED BY <3>7, <5>2
      <4>2. e.frame # ring[h].frame /\ d.id # ring[h].frame
        BY <1>10, <1>13, <2>1, <3>1, <3>2, <3>7 DEF NoFrame
      <4>3. StandsAt(Append(ring, e), d, G, h)
        BY <1>2, <3>2, <3>3, <3>4, <3>5, <4>1, <4>2, StandsOn
      <4>. QED BY <1>10, <1>11, <3>1, <3>2, <3>3, <3>5, <4>3
    <3>. QED BY <3>6, <3>7
  <2>. QED BY <2>3, <2>4
<1>17. Carried'
  <2>1. ASSUME NEW i \in 1 .. Len(ring') PROVE ring'[i].frame <= sent'
    <3>1. CASE i = Len(ring')
      BY <1>2, <1>10, <3>1
    <3>2. CASE i # Len(ring')
      <4>1. i \in 1 .. Len(ring) /\ ring'[i] = ring[i]
        BY <1>2, <1>10, <3>2, LastOrBefore
      <4>2. ring[i].frame <= sent /\ ring[i] \in Entry
        BY <1>2, <4>1, ElementOfSeq DEF IInv, Carried
      <4>. QED BY <1>10, <4>1, <4>2 DEF Entry
    <3>. QED BY <3>1, <3>2
  <2>2. coming'.id <= sent'
    BY <1>2, <1>10, <1>11, <1>13 DEF NoFrame
  <2>3. Sending' => coming'.id # 0 /\ ring'[Len(ring')].frame = coming'.id
    BY <1>2, <1>10, <1>11, <1>13 DEF NoFrame, Sending
  <2>4. ~Sending' => coming' = NoFrame
    <3>1. SUFFICES ASSUME m # Len(F) PROVE Sending'
      BY <1>11, <1>12
    <3>2. \A i \in m + 1 .. Len(F) : F[i] \in Byte
      BY <1>5, <1>8
    <3>3. Len(SubSeq(F, m + 1, Len(F))) = Len(F) - (m + 1) + 1
      BY <1>5, <1>8, <3>1, <3>2, SubSeqProperties
    <3>4. Len(SubSeq(F, m + 1, Len(F))) # 0 /\ Len(<<>>) = 0
      BY <1>5, <1>8, <3>1, <3>3
    <3>5. coming'.bytes = SubSeq(F, m + 1, Len(F))
      BY <1>11, <1>12, <3>1
    <3>. QED BY <3>4, <3>5 DEF Sending
  <2>5. ring' # <<>> /\ quiet' <= T15
    BY <1>10
  <2>. QED BY <2>1, <2>2, <2>3, <2>4, <2>5, Zenon DEF Carried
<1>. QED BY <1>10, <1>14, <1>16, <1>17 DEF IInv

LEMMA ExtractCallKeeps == ASSUME IInv, ExtractCall PROVE IInv'
<1>1. PICK a : a = Extract(ring, now)
  OBVIOUS
<1>2. ring \in Seq(Entry) /\ now \in Stamp /\ Len(ring) \in Nat
  BY LenProperties DEF IInv, Typed, TypeOK, Stamp
<1>3. /\ a.drop \in 0 .. Len(ring)
      /\ a.status \in {"none", "ok", "crc", "frame", "gap"}
      /\ Len(a.frame) = IF a.status = "ok" THEN a.drop ELSE 0
  BY <1>1, <1>2, ExtractKeeps
<1>4. PICK q \in 0 .. Len(ring) : q = a.drop
  BY <1>3
<1>5. /\ result' = a /\ ring' = SubSeq(ring, q + 1, Len(ring))
      /\ now' = now /\ coming' = coming /\ quiet' = quiet /\ sent' = sent /\ noise' = noise
  BY <1>1, <1>4 DEF ExtractCall
<1>6. /\ ring' \in Seq(Entry) /\ Len(ring') = Len(ring) - q
      /\ \A i \in 1 .. Len(ring) - q : ring'[i] = ring[q + i]
  <2>1. \A i \in q + 1 .. Len(ring) : ring[i] \in Entry
    BY <1>2, ElementOfSeq
  <2>2. /\ ring' \in Seq(Entry)
        /\ Len(ring') = IF q + 1 <= Len(ring) THEN Len(ring) - (q + 1) + 1 ELSE 0
        /\ \A i \in 1 .. Len(ring) - (q + 1) + 1 : ring'[i] = ring[q + 1 + i - 1]
    BY <1>2, <1>5, <2>1, SubSeqProperties
  <2>. QED BY <1>2, <2>2
<1>7. Typed'
  <2>1. \A i \in 1 .. Len(ring') : ring'[i] \in Entry
    BY <1>6, ElementOfSeq
  <2>2. \A i \in 1 .. Len(ring') : ring'[i].ts \in 0 .. UsWrap - 1 /\ ring'[i].frame \in 0 .. MaxBytes
    BY <2>1 DEF Entry, Stamp
  <2>3. Len(ring) <= MaxRing
    BY DEF IInv, Typed, TypeOK
  <2>4. Len(ring') <= MaxRing /\ a.drop \in 0 .. MaxRing
    BY <1>2, <1>3, <1>6, <2>3
  <2>5. TypeOK'
    BY <1>3, <1>5, <2>2, <2>4 DEF IInv, Typed, TypeOK
  <2>. QED BY <1>5, <1>6, <2>5 DEF IInv, Typed
\* What Spared says of the frame of any entry.
<1>8. ASSUME NEW i \in 1 .. Len(ring), NEW k \in 1 .. i, NEW body \in Bodies,
             ring[k].frame = ring[i].frame, StandsAt(ring, coming, Frame(body), k)
      PROVE  \/ q < k
             \/ i <= q /\ coming.id # ring[i].frame
  <2>1. PICK F : F = Frame(body)
    OBVIOUS
  <2>2. F \in Seq(Byte) /\ Len(F) \in Nat
    BY <2>1, FrameIs, LenProperties
  <2>3. k \in 1 .. Len(ring)
    BY <1>2
  <2>4. q < k \/ (k = 1 /\ Len(F) <= Len(ring) /\ q = Len(F))
    BY <1>1, <1>4, <1>8, <2>1, <2>3, Spared DEF IInv
  <2>5. /\ ring[i].frame = ring[k].frame <=> k <= i /\ i < k + Len(F)
        /\ IF k + Len(F) <= Len(ring) + 1 THEN coming.id # ring[k].frame
           ELSE coming = [bytes |-> SubSeq(F, Len(ring) - k + 2, Len(F)), id |-> ring[k].frame]
    BY <1>8, <2>1, Zenon DEF StandsAt
  <2>6. CASE k = 1 /\ Len(F) <= Len(ring) /\ q = Len(F)
    <3>1. i <= q
      BY <1>8, <2>2, <2>5, <2>6
    <3>2. k + Len(F) <= Len(ring) + 1
      BY <1>2, <2>2, <2>6
    <3>. QED BY <1>8, <2>5, <3>1, <3>2
  <2>. QED BY <2>4, <2>6
<1>9. Framed'
  <2>1. SUFFICES ASSUME NEW j \in 1 .. Len(ring'), ring'[j].frame # 0
                 PROVE  \E h \in 1 .. j, body \in Bodies :
                          /\ ring'[h].frame = ring'[j].frame
                          /\ StandsAt(ring', coming', Frame(body), h)
    BY DEF Framed
  <2>2. PICK i \in 1 .. Len(ring) : i = q + j /\ ring'[j] = ring[i]
    BY <1>2, <1>6
  <2>3. PICK k \in 1 .. i, body \in Bodies :
          ring[k].frame = ring[i].frame /\ StandsAt(ring, coming, Frame(body), k)
    BY <2>1, <2>2 DEF IInv, Framed
  <2>4. ~ (i <= q)
    BY <1>2, <2>2
  <2>5. q \in 0 .. k - 1 /\ k \in 1 .. Len(ring)
    BY <1>2, <1>8, <2>3, <2>4
  <2>6. PICK F : F = Frame(body)
    OBVIOUS
  <2>7. F \in Seq(Byte)
    BY <2>6, FrameIs
  <2>8. StandsAt(SubSeq(ring, q + 1, Len(ring)), coming, F, k - q)
    BY <1>2, <2>3, <2>5, <2>6, <2>7, StandsShifted
  <2>9. k - q \in 1 .. j /\ k - q \in 1 .. Len(ring) - q
    BY <1>2, <2>2, <2>5
  <2>10. ring'[k - q] = ring[k]
    <3>1. q + (k - q) = k
      BY <2>5
    <3>. QED BY <1>6, <2>9, <3>1
  <2>. QED BY <1>5, <2>2, <2>3, <2>6, <2>8, <2>9, <2>10
<1>10. ASSUME ring' # <<>>
       PROVE  ring # <<>> /\ ring'[Len(ring')] = ring[Len(ring)]
  <2>1. Len(ring') \in Nat \ {0}
    BY <1>6, <1>10, EmptySeq
  <2>2. Len(ring') \in 1 .. Len(ring) - q /\ q + Len(ring') = Len(ring) /\ Len(ring) # 0
    BY <1>2, <1>6, <2>1
  <2>3. ring'[Len(ring')] = ring[q + Len(ring')]
    BY <1>6, <2>2
  <2>4. Len(<<>>) = 0
    OBVIOUS
  <2>. QED BY <2>2, <2>3, <2>4
<1>11. Carried'
  <2>1. ASSUME Sending PROVE ring' # <<>>
    <3>1. ring # <<>> /\ ring[Len(ring)].frame = coming.id /\ coming.id # 0
      BY <2>1 DEF IInv, Carried
    <3>2. Len(ring) \in 1 .. Len(ring)
      BY <1>2, <3>1, EmptySeq
    <3>3. PICK k \in 1 .. Len(ring), body \in Bodies :
            /\ ring[k].frame = ring[Len(ring)].frame
            /\ StandsAt(ring, coming, Frame(body), k)
      BY <3>1, <3>2, Zenon DEF IInv, Framed
    <3>4. q < k
      BY <1>8, <3>1, <3>2, <3>3
    <3>5. Len(ring') # 0 /\ Len(<<>>) = 0
      BY <1>2, <1>6, <3>4
    <3>. QED BY <3>5
  <2>2. ASSUME NEW i \in 1 .. Len(ring') PROVE ring'[i].frame <= sent
    <3>1. q + i \in 1 .. Len(ring) /\ ring'[i] = ring[q + i]
      BY <1>2, <1>6
    <3>. QED BY <3>1 DEF IInv, Carried
  <2>3. Sending' <=> Sending
    BY <1>5 DEF Sending
  <2>4. /\ Sending => /\ ring # <<>> /\ ring[Len(ring)].frame = coming.id
                      /\ coming.id # 0 /\ quiet <= T15
        /\ ~Sending => coming = NoFrame
        /\ coming.id <= sent
    BY DEF IInv, Carried
  <2>. QED BY <1>5, <1>10, <2>1, <2>2, <2>3, <2>4 DEF Carried
<1>12. Timed'
  <2>1. ring # <<>> => Since(ring[Len(ring)].ts, now) = quiet
    BY DEF IInv, Timed
  <2>. QED BY <1>5, <1>10, <2>1 DEF Timed
<1>. QED BY <1>7, <1>9, <1>11, <1>12 DEF IInv

LEMMA StepInv == IInv /\ [Next]_vars => IInv'
<1> SUFFICES ASSUME IInv, [Next]_vars PROVE IInv'
  OBVIOUS
<1>1. CASE Tick
  BY <1>1, TickKeeps
<1>2. ASSUME NEW body \in Bodies, StartFrame(body) PROVE IInv'
  BY <1>2, StartKeeps
<1>3. CASE NextByte
  BY <1>3, NextByteKeeps
<1>4. ASSUME NEW b \in Noise, NoiseByte(b) PROVE IInv'
  BY <1>4, NoiseKeeps
<1>5. CASE ExtractCall
  BY <1>5, ExtractCallKeeps
<1>6. CASE UNCHANGED vars
  <2>1. /\ now' = now /\ ring' = ring /\ coming' = coming /\ quiet' = quiet
        /\ sent' = sent /\ noise' = noise /\ result' = result
    BY <1>6 DEF vars
  <2>. QED BY <2>1 DEF IInv, Typed, TypeOK, Framed, Carried, Sending, Timed
<1>. QED BY <1>1, <1>2, <1>3, <1>4, <1>5, <1>6 DEF Next

-----------------------------------------------------------------------------
(* The theorems *)

\* In every reachable state each frame on the line or in the ring is known
\* byte for byte, with its gaps and what is still to come of it.
THEOREM ExtractInv == Spec => []IInv
<1>1. Init => IInv
  BY InitInv
<1>2. IInv /\ [Next]_vars => IInv'
  BY StepInv
<1>. QED BY <1>1, <1>2, PTL DEF Spec

\* The variables keep their types, and a frame is handed out with "ok" only
\* and with as many bytes as the call consumed (606-803).
THEOREM ExtractTypeCorrect == Spec => []TypeOK
<1>1. IInv => TypeOK
  BY DEF IInv, Typed
<1>. QED BY <1>1, ExtractInv, PTL

\* _extractNextFrame() answers, in every state and whatever the bytes are,
\* with one of the outcomes its callers are modelled with (663-803).
THEOREM ExtractContract == Spec => []Contract
<1>1. IInv => Contract
  <2>1. SUFFICES ASSUME IInv PROVE Contract
    OBVIOUS
  <2>2. ring \in Seq(Entry) /\ now \in Stamp
    BY <2>1 DEF IInv, Typed, TypeOK, Stamp
  <2>3. PICK a : a = Extract(ring, now)
    OBVIOUS
  <2>4. Outcome(a.status, a.drop) \in Outcomes(Stamps(Scanned(ring)), now)
    BY <2>2, <2>3, ExtractKeeps
  <2>. QED BY <2>3, <2>4 DEF Contract
<1>. QED BY <1>1, ExtractInv, PTL

\* A frame that keeps its timing is delivered as it was sent, whatever the
\* noise before and behind it and whenever the extractor is called (700-803).
THEOREM ExtractDelivered == Spec => []Delivered
<1>1. IInv => Delivered
  <2>1. SUFFICES ASSUME IInv PROVE Delivered
    OBVIOUS
  <2>2. PICK a : a = Extract(ring, now)
    OBVIOUS
  <2>3. ring \in Seq(Entry) /\ now \in Stamp /\ Len(ring) \in Nat
    BY <2>1, LenProperties DEF IInv, Typed, TypeOK, Stamp
  <2>4. a.drop \in 0 .. Len(ring)
    BY <2>2, <2>3, ExtractKeeps
  <2>5. ASSUME NEW i \in 1 .. a.drop, ring[i].frame # 0
        PROVE  /\ coming.id # ring[i].frame /\ a.status = "ok"
               /\ a.frame = Bytes(SubSeq(ring, 1, a.drop))
               /\ \A j \in 1 .. Len(ring) : ring[j].frame = ring[i].frame <=> j <= a.drop
    <3>1. i \in 1 .. Len(ring)
      BY <2>3, <2>4
    <3>2. PICK k \in 1 .. i, body \in Bodies :
            ring[k].frame = ring[i].frame /\ StandsAt(ring, coming, Frame(body), k)
      BY <2>1, <2>5, <3>1 DEF IInv, Framed
    <3>3. PICK F : F = Frame(body)
      OBVIOUS
    <3>4. F \in Seq(Byte) /\ Len(F) \in Nat /\ k \in 1 .. Len(ring)
      BY <2>3, <3>1, <3>3, FrameIs, LenProperties
    <3>5. ~ (a.drop < k)
      BY <2>4, <2>3
    <3>6. /\ k = 1 /\ Len(F) <= Len(ring) /\ a.status = "ok" /\ a.drop = Len(F)
          /\ a.frame = Bytes(SubSeq(ring, 1, a.drop))
      BY <2>1, <2>2, <3>2, <3>3, <3>4, <3>5, Spared DEF IInv
    <3>7. /\ \A j \in 1 .. Len(ring) :
               ring[j].frame = ring[k].frame <=> k <= j /\ j < k + Len(F)
          /\ IF k + Len(F) <= Len(ring) + 1 THEN coming.id # ring[k].frame
             ELSE coming = [bytes |-> SubSeq(F, Len(ring) - k + 2, Len(F)), id |-> ring[k].frame]
      BY <3>2, <3>3, Zenon DEF StandsAt
    <3>8. \A j \in 1 .. Len(ring) : k <= j /\ j < k + Len(F) <=> j <= a.drop
      BY <2>3, <3>4, <3>6
    <3>9. k + Len(F) <= Len(ring) + 1
      BY <2>3, <3>4, <3>6
    <3>. QED BY <3>2, <3>6, <3>7, <3>8, <3>9
  <2>. QED BY <2>2, <2>5, Zenon DEF Delivered
<1>. QED BY <1>1, ExtractInv, PTL

=============================================================================
