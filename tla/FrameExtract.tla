---------------------------- MODULE FrameExtract ----------------------------
(***************************************************************************)
(* _extractNextFrame() on real bytes: response lengths, T1.5 and T3.5      *)
(* gaps, the CRC, and what is consumed (ModbusRTUComm.cpp:606-803).        *)
(*                                                                         *)
(* The line carries good frames, each after a silence of T3.5 and with     *)
(* legal gaps, and noise; every byte knows the frame it belongs to, which  *)
(* the extractor does not see.  Extraction may happen at any moment.       *)
(***************************************************************************)
EXTENDS RtuCandidate

CONSTANTS Counted,   \* function codes 1-4: the third byte is a count
          Fixed,     \* function codes 5, 6, 15, 16: 8 bytes
          Exception, \* function codes with the top bit set: 5 bytes
          CrcOf(_),  \* _crc16() as the two bytes on the wire
          Bodies,    \* good frames without their CRC
          Noise,     \* values of a noise byte
          Begin,     \* micros() at the start
          MaxQuiet,  \* bound: silence, shorter than a turn of micros()
          MaxRing,   \* bound: bytes in the ring
          MaxBytes,  \* bound: bytes of a behaviour
          MaxNoise   \* bound: noise bytes of a behaviour

ASSUME ExtractAssumption ==
  /\ {MaxRing, MaxBytes, MaxNoise} \subseteq Nat
  /\ MaxQuiet \in T35 .. UsWrap - 1 /\ Begin \in 0 .. UsWrap - 1
  /\ Noise \subseteq 0 .. 255
  \* A function code has one rule for the length, and none allows a length
  \* below that of the shortest frame.
  /\ Exception \cap (Fixed \cup Counted) = {} /\ Fixed \cap Counted = {}
  /\ MinFrame <= 5

VARIABLES now,     \* micros()
          ring,    \* the RX ring: bytes, stamps, and the frame of each byte
          coming,  \* the frame on the line: its bytes that are still to come
          quiet,   \* silence on the line
          sent,    \* bytes that came in so far
          noise,   \* noise bytes among them
          result   \* what _extractNextFrame() returned last

vars == <<now, ring, coming, quiet, sent, noise, result>>

NoFrame == [bytes |-> <<>>, id |-> 0]

Bytes(s)  == [i \in 1 .. Len(s) |-> s[i].byte]
Stamps(s) == [i \in 1 .. Len(s) |-> s[i].ts]
Frame(body) == body \o CrcOf(body)

-----------------------------------------------------------------------------
\* _expectedFrameLength() of the first n bytes: 0 for "need more", and more
\* than MaxLen for "impossible".
ExpectedLen(b, n) ==
  CASE n < 2 -> 0
    [] n >= 2 /\ b[2] \in Exception -> 5
    [] n >= 2 /\ b[2] \in Fixed -> 8
    [] n >= 3 /\ b[2] \in Counted -> 5 + b[3]
    [] OTHER -> 0

CrcGood(b, n) == SubSeq(b, n - 1, n) = CrcOf(SubSeq(b, 1, n - 2))

Answer(status, n, frame) == [status |-> status, drop |-> n, frame |-> frame]
Nothing == Answer("none", 0, <<>>)

\* Defect: a frame with a bad CRC is handed out all the same.
JudgedLeaking(b, n) == IF CrcGood(b, n) THEN Answer("ok", n, SubSeq(b, 1, n))
                       ELSE Answer("crc", 1, SubSeq(b, 1, n))

\* The CRC decides over n bytes that make a frame.
Judged(b, n) == IF CrcGood(b, n) THEN Answer("ok", n, SubSeq(b, 1, n))
                ELSE Answer("crc", 1, <<>>)

\* A candidate of n bytes that ended by silence.  bad: a gap above T1.5.
Finished(b, n, bad) ==
  LET len == ExpectedLen(b, n)
  IN  CASE len # 0 /\ n < len -> Answer("gap", n, <<>>)
        [] n < MinFrame /\ ~(len # 0 /\ n < len) -> Answer("frame", n, <<>>)
        [] n >= MinFrame /\ ~(len # 0 /\ n < len) /\ bad ->
             Answer("gap", n, <<>>)
        [] OTHER -> Judged(b, n)

\* The scan stops at the first byte that makes the length wrong, or that
\* completes the frame.
WrongAt(b, i) == LET len == ExpectedLen(b, i)
                 IN  len # 0 /\ (len > MaxLen \/ i > len)
CompleteAt(s, i) == ExpectedLen(Bytes(s), i) = i /\ ~Broken(Stamps(s), i)

\* Defect: what has come in so far is a candidate, silence or not.
ScanEager(s, us) ==
  LET b == Bytes(s)
      stops == {i \in 1 .. Len(s) : WrongAt(b, i) \/ CompleteAt(s, i)}
  IN  CASE stops = {} -> Finished(b, Len(s), Broken(Stamps(s), Len(s)))
        [] stops # {} /\ WrongAt(b, Min(stops)) -> Answer("frame", 1, <<>>)
        [] OTHER -> Judged(b, Min(stops))

\* The first T3.5 gap is a gap above T1.5 too, so a candidate that ends at
\* one is always marked bad (711-717).
Scan(s, us) ==
  LET b == Bytes(s)
      end == CandidateEnd(Stamps(s))
      split == end < Len(s)
      stops == {i \in 1 .. end : WrongAt(b, i) \/ CompleteAt(s, i)}
      stop == Min(stops)
  IN  IF stops # {}
      THEN IF WrongAt(b, stop) THEN Answer("frame", 1, <<>>)
                               ELSE Judged(b, stop)
      ELSE IF ~split /\ ~Idle(Stamps(s), us) THEN Nothing
      ELSE Finished(b, end, split \/ Broken(Stamps(s), end))

\* Defect: the first bytes of a frame are thrown away before it has gone on.
ExtractHasty(s, us) == CASE s = <<>> -> Nothing
                         [] Len(s) \in 1 .. MinFrame - 1 ->
                              Answer("gap", Len(s), <<>>)
                         [] OTHER -> Scan(Scanned(s), us)

\* _extractNextFrame().  Fewer bytes than a frame only go by silence.
Extract(s, us) ==
  CASE s = <<>> -> Nothing
    [] Len(s) \in 1 .. MinFrame - 1 ->
         IF Idle(Stamps(s), us) THEN Answer("gap", Len(s), <<>>) ELSE Nothing
    [] OTHER -> Scan(Scanned(s), us)

-----------------------------------------------------------------------------
\* The good frames are the ones whose length the driver can tell.  The end of
\* any other is a silence, and a byte of noise right behind it spoils it.
ASSUME BodiesAssumption ==
  \A body \in Bodies :
    LET n == Len(Frame(body))
    IN  /\ body \in Seq(0 .. 255)
        /\ CrcOf(body) \in Seq(0 .. 255) /\ Len(CrcOf(body)) = 2
        /\ n \in MinFrame .. MaxLen /\ ExpectedLen(Frame(body), n) = n

Init == /\ now = Begin /\ ring = <<>> /\ coming = NoFrame
        /\ quiet = T35 /\ sent = 0 /\ noise = 0 /\ result = Nothing

Sending == coming.bytes # <<>>

\* No gap inside a frame is longer than T1.5.
Tick == /\ quiet < IF Sending THEN T15 ELSE MaxQuiet
        /\ quiet' = quiet + 1 /\ now' = (now + 1) % UsWrap
        /\ UNCHANGED <<ring, coming, sent, noise, result>>

Receive(b, f) ==
  /\ quiet > 0 /\ Len(ring) < MaxRing /\ sent < MaxBytes
  /\ ring' = Append(ring, [byte |-> b, ts |-> now, frame |-> f])
  /\ quiet' = 0 /\ sent' = sent + 1
  /\ UNCHANGED <<now, result>>

\* A frame follows a silence of T3.5; its first byte gives it a name.
StartFrame(body) ==
  /\ ~Sending /\ quiet >= T35 /\ sent + Len(Frame(body)) <= MaxBytes
  /\ coming' = [bytes |-> Tail(Frame(body)), id |-> sent + 1]
  /\ Receive(Head(Frame(body)), sent + 1)
  /\ UNCHANGED noise

NextByte == /\ Sending
            /\ coming' = IF Len(coming.bytes) = 1 THEN NoFrame
                         ELSE [coming EXCEPT !.bytes = Tail(@)]
            /\ Receive(Head(coming.bytes), coming.id)
            /\ UNCHANGED noise

NoiseByte(b) == /\ ~Sending /\ noise < MaxNoise
                /\ noise' = noise + 1
                /\ Receive(b, 0)
                /\ UNCHANGED coming

ExtractCall == /\ result' = Extract(ring, now)
               /\ ring' = SubSeq(ring, result'.drop + 1, Len(ring))
               /\ UNCHANGED <<now, coming, quiet, sent, noise>>

Next == \/ Tick
        \/ \E body \in Bodies : StartFrame(body)
        \/ NextByte
        \/ \E b \in Noise : NoiseByte(b)
        \/ ExtractCall

Spec == Init /\ [][Next]_vars

-----------------------------------------------------------------------------
\* Besides the ranges: the caller is handed a frame with "ok" only, and the
\* bytes consumed for it are the bytes of the frame.
TypeOK ==
  /\ now \in 0 .. UsWrap - 1 /\ quiet \in 0 .. MaxQuiet /\ sent \in 0 .. MaxBytes
  /\ noise \in 0 .. MaxNoise
  /\ Len(ring) <= MaxRing
  /\ \A i \in 1 .. Len(ring) : /\ ring[i].ts \in 0 .. UsWrap - 1
                               /\ ring[i].frame \in 0 .. MaxBytes
  /\ result.status \in {"none", "ok", "crc", "frame", "gap"}
  /\ result.drop \in 0 .. MaxRing
  /\ Len(result.frame) = IF result.status = "ok" THEN result.drop ELSE 0

\* The algorithm keeps the contract its callers are modelled with: it never
\* answers with an outcome the stamps do not allow, and it never leaves a
\* silent line unread.
Contract == LET answer == Extract(ring, now)
            IN  Outcome(answer.status, answer.drop)
                  \in Outcomes(Stamps(Scanned(ring)), now)

\* A frame that keeps T1.5 and T3.5 is not hurt by what was on the line before
\* it or after it, nor by the moment of extraction: a call that consumes a byte
\* of it consumes all of it and nothing else, and delivers it (700-803).
Delivered ==
  LET answer == Extract(ring, now)
  IN  \A i \in 1 .. answer.drop : LET f == ring[i].frame IN f # 0 =>
        /\ coming.id # f /\ answer.status = "ok"
        /\ answer.frame = Bytes(SubSeq(ring, 1, answer.drop))
        /\ \A j \in 1 .. Len(ring) : ring[j].frame = f <=> j <= answer.drop
=============================================================================
