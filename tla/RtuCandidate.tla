---------------------------- MODULE RtuCandidate ----------------------------
(***************************************************************************)
(* What _extractNextFrame() may do with a run of received bytes, seen      *)
(* through their time stamps only (ModbusRTUComm.cpp:663-803).             *)
(*                                                                         *)
(* Outcomes is the contract between the extractor and its callers: the     *)
(* byte values decide which member of the set comes out, the stamps decide *)
(* what the set is.  FrameExtract checks the algorithm against it;         *)
(* RxTransaction builds readAdu() and the drain on it.                     *)
(***************************************************************************)
EXTENDS Integers, Sequences, FiniteSetsExt

CONSTANTS UsWrap,   \* micros() wraps at this value (2^32)
          T15,      \* _charTimeout
          T35,      \* _frameTimeout
          MinFrame, \* bytes of the shortest RTU frame (4)
          MaxLen    \* bytes of the longest one, and of a scan (256)

ASSUME CandidateAssumption ==
  /\ {UsWrap, T15, T35, MinFrame, MaxLen} \subseteq Nat \ {0}
  /\ T15 < T35 /\ T35 < UsWrap /\ MinFrame <= MaxLen

\* However much is waiting, one call looks at a frame's worth (scanCap).
Scanned(s) == SubSeq(s, 1, Min({Len(s), MaxLen}))

\* Unsigned 32-bit subtraction of two readings of micros().
Since(us, now) == (now - us) % UsWrap

\* Silence between byte i and the byte before it.
GapBefore(s, i) == Since(s[i - 1], s[i])

Broken(s, k) == \E i \in 2 .. k : GapBefore(s, i) > T15

\* The first T3.5 silence ends the candidate; without one it is all there is.
CandidateEnd(s) ==
  LET ends == {i \in 2 .. Len(s) : GapBefore(s, i) >= T35}
  IN  IF ends = {} THEN Len(s)
      ELSE (CHOOSE i \in ends : \A j \in ends : i <= j) - 1

Idle(s, now) == Since(s[Len(s)], now) >= T35

\* Is the candidate over: by a silence inside the run, or by one after it?
\* A run that is too short for a frame is only judged as a whole.
Ended(s, now) == \/ Len(s) >= MinFrame /\ CandidateEnd(s) < Len(s)
                 \/ Idle(s, now)

Outcome(status, n) == [status |-> status, drop |-> n]

\* What the extractor may answer to the bytes it scanned, and how many it
\* consumes.
Outcomes(s, now) ==
  LET n == Len(s)
      b == CandidateEnd(s)
      frames == {k \in MinFrame .. b : ~Broken(s, k)}
  IN  IF n = 0 THEN {Outcome("none", 0)}
      ELSE IF n < MinFrame
      THEN {IF Ended(s, now) THEN Outcome("gap", n) ELSE Outcome("none", 0)}
      ELSE {Outcome("ok", k) : k \in frames}
           \cup (IF frames = {} THEN {} ELSE {Outcome("crc", 1)})
           \cup {Outcome("frame", 1)}
           \cup (IF Ended(s, now)
                 THEN {Outcome("gap", b)}
                      \cup (IF b < MinFrame THEN {Outcome("frame", b)} ELSE {})
                 ELSE {Outcome("none", 0)})
=============================================================================
