--------------------------- MODULE RxRing_proofs ---------------------------
(***************************************************************************)
(* The RX ring is a bounded FIFO for every capacity, every set of bytes    *)
(* and time stamps and every interleaving of the two sides.                *)
(*                                                                         *)
(* The argument is by the distance of a slot from tail.  A push reserves   *)
(* room when it loads tail (the consumer can only make more), a read       *)
(* reserves its slot when it loads head (the producer can only put more    *)
(* behind it), so the slot being written is at distance Live and the slot  *)
(* being read at a distance below Live.                                    *)
(***************************************************************************)
EXTENDS RxRing, SequenceTheorems, TLAPS

\* How far slot s is behind tail, going round the array.
Dist(s) == IF s >= tail THEN s - tail ELSE s + Cap - tail

Writing == {"byte", "stamp", "last", "publish"}
Popping == {"popByte", "popStamp", "popStore"}
Peeking == {"peekByte", "peekStamp", "peekReturn"}

\* A push past its full test still has room.
PushHasRoom == pPc \in Writing => Live < Cap - 1

\* What the push has stored so far is still in the slot.
PushedSoFar ==
  /\ pPc \in {"stamp", "last", "publish"} => ring[head].byte = pEntry.byte
  /\ pPc \in {"last", "publish"} => ring[head].ts = pEntry.ts

\* The slot being copied out is in the live part, the oldest one for a pop.
ReadIsLive ==
  /\ cPc \in Popping => cSlot = tail /\ Live > 0
  /\ cPc \in Peeking => Dist(cSlot) < Live

\* What has been copied out is what the slot holds.
CopiedSoFar ==
  /\ cPc \in {"popStamp", "popStore", "peekStamp", "peekReturn"} =>
       cEntry.byte = ring[cSlot].byte
  /\ cPc \in {"popStore", "peekReturn"} => cEntry.ts = ring[cSlot].ts

\* The head the hard clear loaded has not been passed by tail.
ClearIsLive == cPc = "clearTail" => Dist(cSlot) <= Live

IInv == /\ TypeOK
        /\ PushHasRoom /\ PushedSoFar
        /\ ReadIsLive /\ CopiedSoFar /\ ClearIsLive
        /\ KnownIsThere

-----------------------------------------------------------------------------
(* Arithmetic of the indices *)

\* The number of live entries is between 0 and Cap - 1, zero exactly when
\* the two indices meet, and it is what _rxCount() computes.
LEMMA LiveBounds ==
  ASSUME head \in Slot, tail \in Slot
  PROVE  /\ Live \in 0 .. Cap - 1
         /\ Live = 0 <=> head = tail
         /\ Live = Count
         /\ Live = Cap - 1 <=> NextSlot(head) = tail
BY RingAssumption DEF Slot, Live, Count, NextSlot

\* SlotAt and Dist are inverse to each other; the head slot is at distance
\* Live, so it is none of the live slots.
LEMMA SlotAtDist ==
  ASSUME head \in Slot, tail \in Slot
  PROVE  /\ \A k \in Slot : SlotAt(k) \in Slot /\ Dist(SlotAt(k)) = k
         /\ \A s \in Slot : Dist(s) \in Slot /\ SlotAt(Dist(s)) = s
         /\ Dist(head) = Live
         /\ SlotAt(0) = tail
BY RingAssumption DEF Slot, Live, SlotAt, Dist

-----------------------------------------------------------------------------
(* The inductive invariant *)

LEMMA InitIInv == Init => IInv
<1> SUFFICES ASSUME Init PROVE IInv
  OBVIOUS
<1>1. ZeroEntry \in Entry
  BY RingAssumption DEF ZeroEntry, Entry
<1>2. TypeOK
  BY <1>1, RingAssumption DEF Init, TypeOK, Slot
<1> QED
  BY <1>2, RingAssumption
     DEF Init, IInv, PushHasRoom, PushedSoFar, ReadIsLive, CopiedSoFar,
         ClearIsLive, KnownIsThere, Writing, Popping, Peeking, Live

\* Every step keeps the variables in their types.
LEMMA StepTypeOK == IInv /\ [Next]_vars => TypeOK'
<1> SUFFICES ASSUME IInv, [Next]_vars PROVE TypeOK'
  OBVIOUS
<1> USE RingAssumption DEF IInv, TypeOK
<1>0. /\ NextSlot(head) \in Slot /\ NextSlot(tail) \in Slot
      /\ Wrapped(overflow) \in 0 .. CountMax
  BY DEF NextSlot, Slot, Wrapped
<1>1. ASSUME NEW e \in Arrival, PushCall(e) PROVE TypeOK'
  BY <1>1 DEF PushCall, ringVars, consVars, Entry
<1>2. CASE PushFull
  BY <1>0, <1>2 DEF PushFull, consVars
<1>3. CASE PushFree
  BY <1>3 DEF PushFree, ringVars, consVars
<1>4. CASE PushByte
  BY <1>4 DEF PushByte, consVars, Entry
<1>5. CASE PushStamp
  BY <1>5 DEF PushStamp, consVars, Entry
<1>6. CASE PushLast
  BY <1>6 DEF PushLast, consVars, Entry
<1>7. CASE PushPublish
  BY <1>0, <1>7 DEF PushPublish, consVars
<1>8. CASE PopEmpty
  BY <1>8 DEF PopEmpty, ringVars, prodVars
<1>9. CASE PopCall
  BY <1>9 DEF PopCall, ringVars, prodVars
<1>10. ASSUME NEW from, NEW to \in {"popStamp", "peekStamp"},
              CopyByte(from, to)
       PROVE  TypeOK'
  BY <1>10 DEF CopyByte, ringVars, prodVars, Entry
<1>11. ASSUME NEW from, NEW to \in {"popStore", "peekReturn"},
              CopyStamp(from, to)
       PROVE  TypeOK'
  BY <1>11 DEF CopyStamp, ringVars, prodVars, Entry
<1>12. CASE PopStore
  <2>1. (IF cKnown = 0 THEN 0 ELSE cKnown - 1) \in 0 .. Cap - 1
    OBVIOUS
  <2> QED
    BY <1>0, <1>12, <2>1 DEF PopStore, prodVars
<1>13. CASE CountCall
  BY <1>13, LiveBounds DEF CountCall, ringVars, prodVars
<1>14. ASSUME NEW k \in 0 .. Cap, PeekMiss(k) PROVE TypeOK'
  BY <1>14 DEF PeekMiss, ringVars, prodVars
<1>15. ASSUME NEW k \in 0 .. Cap, PeekCall(k) PROVE TypeOK'
  <2>1. k \in Slot
    BY <1>15, LiveBounds DEF PeekCall, Slot
  <2> QED
    BY <1>15, <2>1, SlotAtDist DEF PeekCall, ringVars, prodVars
<1>16. CASE PeekReturn
  BY <1>16 DEF PeekReturn, ringVars, prodVars
<1>17. CASE ClearLoad
  BY <1>17 DEF ClearLoad, ringVars, prodVars
<1>18. CASE ClearTail
  BY <1>18 DEF ClearTail, prodVars
<1>19. CASE ClearLast
  BY <1>19 DEF ClearLast, prodVars
<1>20. CASE Reset
  BY <1>20 DEF Reset, prodVars, Slot
<1>21. CASE UNCHANGED vars
  BY <1>21 DEF vars, ringVars, prodVars, consVars
<1> QED
  BY <1>1, <1>2, <1>3, <1>4, <1>5, <1>6, <1>7, <1>8, <1>9, <1>10, <1>11,
     <1>12, <1>13, <1>14, <1>15, <1>16, <1>17, <1>18, <1>19, <1>20, <1>21
     DEF Next, Producer, Consumer, PopByte, PopStamp, PeekByte, PeekStamp

\* Publishing adds one live entry and moves no other.
LEMMA HeadAdvance ==
  ASSUME head \in Slot, tail \in Slot, NextSlot(head) # tail,
         head' = NextSlot(head), tail' = tail
  PROVE  /\ Live' = Live + 1
         /\ \A s \in Slot : Dist(s)' = Dist(s)
         /\ \A k \in Slot : SlotAt(k)' = SlotAt(k)
BY RingAssumption DEF Slot, Live, NextSlot, Dist, SlotAt

\* Moving tail onto a slot of the live part, or onto head, takes away the
\* entries in front of it and renumbers the others.
LEMMA TailAdvance ==
  ASSUME head \in Slot, tail \in Slot, NEW s \in Slot, Dist(s) <= Live,
         tail' = s, head' = head
  PROVE  /\ Live' = Live - Dist(s)
         /\ \A k \in 0 .. Cap - 1 - Dist(s) : SlotAt(k)' = SlotAt(k + Dist(s))
BY RingAssumption DEF Slot, Live, Dist, SlotAt

\* The slot after tail is at distance one when the ring is not empty.
LEMMA NextOfTail ==
  ASSUME head \in Slot, tail \in Slot, Live > 0
  PROVE  NextSlot(tail) \in Slot /\ Dist(NextSlot(tail)) = 1
BY RingAssumption DEF Slot, Live, Dist, NextSlot

\* Every step keeps the conjuncts other than the types.
LEMMA StepIInv == IInv /\ [Next]_vars => IInv'
<1> SUFFICES ASSUME IInv, [Next]_vars PROVE IInv'
  OBVIOUS
<1> DEFINE Push == PushHasRoom /\ PushedSoFar
           Read == ReadIsLive /\ CopiedSoFar /\ ClearIsLive /\ KnownIsThere
<1>t. TypeOK' BY StepTypeOK
<1>i. /\ head \in Slot /\ tail \in Slot /\ cSlot \in Slot
      /\ ring \in [Slot -> Entry] /\ pEntry \in Entry /\ cEntry \in Entry
      /\ cKnown \in 0 .. Cap - 1 /\ Live \in 0 .. Cap - 1
      /\ Push /\ Read
  BY LiveBounds DEF IInv, TypeOK
<1> HIDE DEF Push, Read
\* A step that leaves the ring and the consumer alone cannot disturb Read,
\* one that leaves the ring and the producer alone cannot disturb Push.
<1>r. UNCHANGED <<ring, head, tail, cPc, cSlot, cEntry, cKnown>> => Read'
  BY <1>i DEF Read, ReadIsLive, CopiedSoFar, ClearIsLive, KnownIsThere,
              Live, Dist
<1>p. UNCHANGED <<ring, head, tail, prodVars>> => Push'
  BY <1>i DEF Push, PushHasRoom, PushedSoFar, Live, prodVars
<1>q. SUFFICES Push' /\ Read'
  BY <1>t DEF Push, Read, IInv
<1>1. ASSUME NEW e \in Arrival, PushCall(e) PROVE Push' /\ Read'
  BY <1>1, <1>r DEF PushCall, ringVars, consVars, Push, PushHasRoom,
                    PushedSoFar, Writing
<1>2. CASE PushFull
  BY <1>2, <1>r DEF PushFull, consVars, Push, PushHasRoom, PushedSoFar,
                    Writing
<1>3. CASE PushFree
  <2>1. Live' < Cap - 1
    BY <1>3, <1>i, LiveBounds, RingAssumption DEF PushFree, ringVars, Live
  <2>2. Push'
    BY <1>3, <2>1 DEF PushFree, Push, PushHasRoom, PushedSoFar, Writing
  <2> QED
    BY <1>3, <1>r, <2>2 DEF PushFree, ringVars, consVars
<1>4. CASE PushByte \/ PushStamp
  <2>1. head # cSlot \/ cPc \notin Popping \cup Peeking
    BY <1>i, SlotAtDist, LiveBounds DEF Read, ReadIsLive
  <2>2. /\ UNCHANGED <<head, tail, pEntry, consVars>>
        /\ \A s \in Slot : s # head => ring'[s] = ring[s]
    BY <1>4, <1>i DEF PushByte, PushStamp
  <2>3. Live' = Live /\ Dist(cSlot)' = Dist(cSlot)
    BY <2>2 DEF Live, Dist, consVars
  <2>4. Read'
    BY <1>i, <2>1, <2>2, <2>3
       DEF Read, ReadIsLive, CopiedSoFar, ClearIsLive, KnownIsThere,
           consVars, Popping, Peeking
  <2>5. PushHasRoom'
    BY <1>4, <1>i, <2>2, <2>3
       DEF PushByte, PushStamp, Push, PushHasRoom, Writing
  <2>6. PushedSoFar'
    BY <1>4, <1>i DEF PushByte, PushStamp, Push, PushedSoFar, Entry
  <2> QED
    BY <2>4, <2>5, <2>6 DEF Push
<1>5. CASE PushLast
  BY <1>5, <1>i, <1>r DEF PushLast, consVars, Push, PushHasRoom,
                          PushedSoFar, Writing, Live
<1>6. CASE PushPublish
  <2>1. NextSlot(head) # tail
    BY <1>6, <1>i, LiveBounds, RingAssumption
       DEF PushPublish, Push, PushHasRoom, Writing
  <2>2. Live' = Live + 1 /\ Dist(cSlot)' = Dist(cSlot)
    <3>1. cSlot' = cSlot
      BY <1>6 DEF PushPublish, consVars
    <3> QED
      BY <1>6, <1>i, <2>1, <3>1, HeadAdvance DEF PushPublish, Dist
  <2>3. /\ UNCHANGED <<ring, tail, cPc, cSlot, cEntry, cKnown>>
        /\ Dist(cSlot) \in Nat /\ Live \in Nat
    BY <1>6, <1>i, SlotAtDist DEF PushPublish, consVars, Slot
  <2>4. ReadIsLive' /\ ClearIsLive' /\ KnownIsThere'
    BY <1>i, <2>2, <2>3 DEF Read, ReadIsLive, ClearIsLive, KnownIsThere
  <2>5. CopiedSoFar'
    BY <1>i, <2>3 DEF Read, CopiedSoFar
  <2>6. Push'
    BY <1>6 DEF PushPublish, Push, PushHasRoom, PushedSoFar, Writing
  <2> QED
    BY <2>4, <2>5, <2>6 DEF Read
<1>7. CASE PopEmpty
  BY <1>7, <1>r, <1>p DEF PopEmpty, ringVars
<1>8. CASE PopCall
  <2>1. Live > 0
    BY <1>8, <1>i, LiveBounds DEF PopCall
  <2>2. Read'
    BY <1>8, <1>i, <2>1
       DEF PopCall, ringVars, Read, ReadIsLive, CopiedSoFar, ClearIsLive,
           KnownIsThere, Popping, Peeking, Live
  <2> QED
    BY <1>8, <1>p, <2>2 DEF PopCall, ringVars
<1>9. CASE PopByte \/ PopStamp \/ PeekByte \/ PeekStamp
  <2>1. Live' = Live /\ Dist(cSlot)' = Dist(cSlot)
    BY <1>9 DEF PopByte, PopStamp, PeekByte, PeekStamp, CopyByte, CopyStamp,
                ringVars, Live, Dist
  <2>2. ReadIsLive' /\ ClearIsLive' /\ KnownIsThere'
    BY <1>9, <1>i, <2>1
       DEF PopByte, PopStamp, PeekByte, PeekStamp, CopyByte, CopyStamp,
           ringVars, Read, ReadIsLive, ClearIsLive, KnownIsThere,
           Popping, Peeking
  <2>3. CopiedSoFar'
    BY <1>9, <1>i
       DEF PopByte, PopStamp, PeekByte, PeekStamp, CopyByte, CopyStamp,
           ringVars, Read, CopiedSoFar, Entry
  <2> QED
    BY <1>9, <1>p, <2>2, <2>3
       DEF PopByte, PopStamp, PeekByte, PeekStamp, CopyByte, CopyStamp,
           ringVars, Read
<1>10. CASE PopStore
  <2>1. /\ Live > 0 /\ cSlot = tail /\ cKnown <= Live
    BY <1>10, <1>i DEF PopStore, Read, ReadIsLive, KnownIsThere, Popping
  <2>2. Live' = Live - 1
    BY <1>10, <1>i, <2>1, NextOfTail, TailAdvance DEF PopStore
  <2>3. Read'
    BY <1>10, <1>i, <2>1, <2>2
       DEF PopStore, Read, ReadIsLive, CopiedSoFar, ClearIsLive,
           KnownIsThere, Popping, Peeking
  <2>4. Push'
    BY <1>10, <1>i, <2>2, RingAssumption
       DEF PopStore, prodVars, Push, PushHasRoom, PushedSoFar
  <2> QED
    BY <2>3, <2>4
<1>11. CASE CountCall
  <2>1. Read'
    BY <1>11, <1>i, LiveBounds
       DEF CountCall, ringVars, Read, ReadIsLive, CopiedSoFar, ClearIsLive,
           KnownIsThere, Popping, Peeking, Live
  <2> QED
    BY <1>11, <1>p, <2>1 DEF CountCall, ringVars
<1>12. ASSUME NEW k \in 0 .. Cap, PeekMiss(k) PROVE Push' /\ Read'
  BY <1>12, <1>r, <1>p DEF PeekMiss, ringVars
<1>13. ASSUME NEW k \in 0 .. Cap, PeekCall(k) PROVE Push' /\ Read'
  <2>1. k \in Slot /\ k < Live
    BY <1>13, <1>i, LiveBounds, RingAssumption DEF PeekCall, Slot
  <2>2. cSlot' = SlotAt(k) /\ Dist(SlotAt(k)) = k
    BY <1>13, <1>i, <2>1, SlotAtDist DEF PeekCall
  <2>3. Dist(cSlot)' < Live'
    BY <1>13, <2>1, <2>2 DEF PeekCall, ringVars, Dist, Live
  <2>4. Read'
    BY <1>13, <1>i, <2>3
       DEF PeekCall, ringVars, Read, ReadIsLive, CopiedSoFar, ClearIsLive,
           KnownIsThere, Popping, Peeking, Live
  <2> QED
    BY <1>13, <1>p, <2>4 DEF PeekCall, ringVars
<1>14. CASE PeekReturn
  <2>1. Read'
    BY <1>14, <1>i
       DEF PeekReturn, ringVars, Read, ReadIsLive, CopiedSoFar, ClearIsLive,
           KnownIsThere, Popping, Peeking, Live
  <2> QED
    BY <1>14, <1>p, <2>1 DEF PeekReturn, ringVars
<1>15. CASE ClearLoad
  <2>1. Dist(cSlot)' = Live'
    BY <1>15, <1>i, SlotAtDist DEF ClearLoad, ringVars, Dist, Live
  <2>2. Read'
    BY <1>15, <1>i, <2>1
       DEF ClearLoad, ringVars, Read, ReadIsLive, CopiedSoFar, ClearIsLive,
           KnownIsThere, Popping, Peeking, Live
  <2> QED
    BY <1>15, <1>p, <2>2 DEF ClearLoad, ringVars
<1>16. CASE ClearTail
  <2>1. Dist(cSlot) <= Live
    BY <1>16, <1>i DEF ClearTail, Read, ClearIsLive
  <2>2. Live' = Live - Dist(cSlot) /\ Dist(cSlot) \in Nat
    BY <1>16, <1>i, <2>1, TailAdvance, SlotAtDist DEF ClearTail, Slot
  <2>3. Read'
    BY <1>16, <1>i, <2>1, <2>2
       DEF ClearTail, Read, ReadIsLive, CopiedSoFar, ClearIsLive,
           KnownIsThere, Popping, Peeking
  <2>4. Push'
    BY <1>16, <1>i, <2>2, RingAssumption
       DEF ClearTail, prodVars, Push, PushHasRoom, PushedSoFar
  <2> QED
    BY <2>3, <2>4
<1>17. CASE ClearLast
  <2>1. Read'
    BY <1>17, <1>i
       DEF ClearLast, Read, ReadIsLive, CopiedSoFar, ClearIsLive,
           KnownIsThere, Popping, Peeking, Live
  <2> QED
    BY <1>17, <1>p, <2>1 DEF ClearLast
<1>18. CASE Reset
  <2>1. Live' = 0
    BY <1>18 DEF Reset, Live
  <2> QED
    BY <1>18, <2>1
       DEF Reset, prodVars, Push, PushHasRoom, PushedSoFar, Read, ReadIsLive,
           CopiedSoFar, ClearIsLive, KnownIsThere, Writing, Popping, Peeking
<1>19. CASE UNCHANGED vars
  BY <1>19, <1>r, <1>p DEF vars, ringVars, prodVars, consVars
<1> QED
  BY <1>1, <1>2, <1>3, <1>4, <1>5, <1>6, <1>7, <1>8, <1>9, <1>10, <1>11,
     <1>12, <1>13, <1>14, <1>15, <1>16, <1>17, <1>18, <1>19
     DEF Next, Producer, Consumer

LEMMA Inductive == Spec => []IInv
<1> QED
  BY InitIInv, StepIInv, PTL DEF Spec

-----------------------------------------------------------------------------
\* Every variable of the ring keeps its type, for every capacity.
THEOREM RingTypeCorrect == Spec => []TypeOK
<1>1. IInv => TypeOK
  BY DEF IInv
<1> QED
  BY <1>1, Inductive, PTL

\* The producer never writes a slot the consumer is copying: no entry is
\* ever read torn, whatever the interleaving and the capacity.
THEOREM RingNoSlotRace == Spec => []NoSlotRace
<1>1. IInv => NoSlotRace
  BY SlotAtDist, LiveBounds
     DEF IInv, TypeOK, NoSlotRace, ReadIsLive, Popping, Peeking
<1> QED
  BY <1>1, Inductive, PTL

\* A count taken once by the extractor stays a lower bound of what is there.
THEOREM RingKnownIsThere == Spec => []KnownIsThere
<1>1. IInv => KnownIsThere
  BY DEF IInv
<1> QED
  BY <1>1, Inductive, PTL

-----------------------------------------------------------------------------
(* The refinement of BoundedFifo *)

\* What the operations of the FIFO do to a sequence, position by position.
LEMMA AppendIs ==
  ASSUME NEW S, NEW s \in Seq(S), NEW e \in S
  PROVE  Append(s, e) = [i \in 1 .. Len(s) + 1 |->
                           IF i <= Len(s) THEN s[i] ELSE e]
<1>1. /\ Append(s, e) \in Seq(S) /\ Len(Append(s, e)) = Len(s) + 1
      /\ Len(s) \in Nat
  OBVIOUS
<1>2. Append(s, e) = [i \in 1 .. Len(s) + 1 |-> Append(s, e)[i]]
  <2>1. Append(s, e) \in [1 .. Len(s) + 1 -> S]
    BY <1>1, LenProperties
  <2> QED
    BY <2>1
<1>3. \A i \in 1 .. Len(s) + 1 :
        Append(s, e)[i] = IF i <= Len(s) THEN s[i] ELSE e
  BY <1>1
<1> QED
  BY <1>2, <1>3

LEMMA TailIs ==
  ASSUME NEW S, NEW s \in Seq(S), Len(s) > 0
  PROVE  Tail(s) = [i \in 1 .. Len(s) - 1 |-> s[i + 1]]
<1>1. /\ Tail(s) \in Seq(S) /\ Len(Tail(s)) = Len(s) - 1
      /\ Len(s) \in Nat
  OBVIOUS
<1>2. Tail(s) = [i \in 1 .. Len(s) - 1 |-> Tail(s)[i]]
  <2>1. Tail(s) \in [1 .. Len(s) - 1 -> S]
    BY <1>1, LenProperties
  <2> QED
    BY <2>1
<1>3. \A i \in 1 .. Len(s) - 1 : Tail(s)[i] = s[i + 1]
  BY <1>1
<1> QED
  BY <1>2, <1>3

LEMMA SubSeqIs ==
  ASSUME NEW S, NEW s \in Seq(S), NEW n \in 0 .. Len(s)
  PROVE  SubSeq(s, n + 1, Len(s)) = [i \in 1 .. Len(s) - n |-> s[i + n]]
OBVIOUS

\* The content is a sequence of entries as long as the live part.
LEMMA ContentIsSeq ==
  ASSUME TypeOK
  PROVE  Content \in Seq(Entry) /\ Len(Content) = Live
<1>1. Live \in 0 .. Cap - 1
  BY LiveBounds DEF TypeOK
<1>2. ASSUME NEW i \in 1 .. Live PROVE ring[SlotAt(i - 1)] \in Entry
  <2>1. i - 1 \in Slot
    BY <1>1, RingAssumption DEF Slot
  <2>2. SlotAt(i - 1) \in Slot
    BY <2>1, SlotAtDist DEF TypeOK
  <2> QED
    BY <2>2 DEF TypeOK
<1> QED
  BY <1>1, <1>2 DEF Content

\* Two entries with the same halves are the same entry.
LEMMA EntryIsItsHalves ==
  ASSUME NEW e \in Entry, NEW f \in Entry, e.byte = f.byte, e.ts = f.ts
  PROVE  e = f
BY DEF Entry

\* A store into the slot at head, or into none, leaves the content alone.
LEMMA ContentSame ==
  ASSUME TypeOK, UNCHANGED <<head, tail>>,
         \A s \in Slot : s # head => ring'[s] = ring[s]
  PROVE  Content' = Content
<1>1. Live \in 0 .. Cap - 1 /\ Live' = Live
  BY LiveBounds DEF TypeOK, Live
<1>2. ASSUME NEW k \in 0 .. Live - 1
      PROVE  SlotAt(k) \in Slot /\ SlotAt(k) # head
  <2>1. k \in Slot /\ k # Live
    BY <1>1, RingAssumption DEF Slot
  <2> QED
    BY <2>1, SlotAtDist DEF TypeOK
<1>3. \A k \in 0 .. Live - 1 : SlotAt(k)' = SlotAt(k)
  BY DEF SlotAt
<1>4. \A i \in 1 .. Live : ring'[SlotAt(i - 1)'] = ring[SlotAt(i - 1)]
  BY <1>1, <1>2, <1>3
<1> QED
  BY <1>1, <1>4 DEF Content

\* Publishing appends the pushed entry and there was room for it.
LEMMA PublishAccepts ==
  ASSUME IInv, PushPublish
  PROVE  \E e \in Entry : Fifo!Accept(e)
<1> USE DEF IInv
<1>1. /\ Live \in 0 .. Cap - 1 /\ Live < Cap - 1 /\ NextSlot(head) # tail
      /\ head \in Slot /\ tail \in Slot
  BY LiveBounds, RingAssumption
     DEF TypeOK, PushPublish, PushHasRoom, Writing
<1>2. Live' = Live + 1 /\ \A k \in Slot : SlotAt(k)' = SlotAt(k)
  BY <1>1, HeadAdvance DEF PushPublish
<1>3. ring[head] = pEntry
  BY <1>1, EntryIsItsHalves DEF TypeOK, PushPublish, PushedSoFar
<1>4. SlotAt(Live) = head
  BY <1>1, SlotAtDist
<1>5. Content' = Append(Content, pEntry)
  <2>1. Content' = [i \in 1 .. Live + 1 |-> ring[SlotAt(i - 1)]]
    BY <1>1, <1>2, RingAssumption DEF Content, PushPublish, Slot
  <2>2. Len(Content) = Live /\ Content \in Seq(Entry)
    BY ContentIsSeq
  <2>3. \A i \in 1 .. Live : Content[i] = ring[SlotAt(i - 1)]
    BY DEF Content
  <2> DEFINE C == Content
  <2> HIDE DEF C
  <2>4. Append(C, pEntry) = [i \in 1 .. Len(C) + 1 |->
                               IF i <= Len(C) THEN C[i] ELSE pEntry]
    BY <2>2, AppendIs DEF C, TypeOK
  <2>5. ASSUME NEW i \in 1 .. Live + 1
        PROVE  ring[SlotAt(i - 1)] = IF i <= Live THEN Content[i] ELSE pEntry
    BY <1>1, <1>3, <1>4, <2>3
  <2> QED
    BY <2>1, <2>2, <2>4, <2>5 DEF C
<1>6. Len(Content) < Cap - 1
  BY <1>1, ContentIsSeq
<1> QED
  BY <1>5, <1>6 DEF Fifo!Accept, PushPublish, consVars, TypeOK

\* The store of tail in a pop removes the oldest entry and returns it whole.
LEMMA PopRemoves ==
  ASSUME IInv, PopStore
  PROVE  Fifo!Remove
<1> USE DEF IInv
<1>1. /\ Live \in 0 .. Cap - 1 /\ Live > 0 /\ cSlot = tail
      /\ head \in Slot /\ tail \in Slot
  BY LiveBounds DEF TypeOK, PopStore, ReadIsLive, Popping
<1>2. Live' = Live - 1 /\ \A k \in 0 .. Cap - 2 : SlotAt(k)' = SlotAt(k + 1)
  BY <1>1, NextOfTail, TailAdvance, RingAssumption DEF PopStore
<1>3. ring[tail] = cEntry
  BY <1>1, EntryIsItsHalves DEF TypeOK, PopStore, CopiedSoFar
<1>4. Content \in Seq(Entry) /\ Len(Content) = Live
  BY ContentIsSeq
<1>5. Content[1] = cEntry
  BY <1>1, <1>3, SlotAtDist DEF Content
<1>6. Content' = [i \in 1 .. Live - 1 |-> ring[SlotAt(i)]]
  <2>1. \A i \in 1 .. Live - 1 : SlotAt(i - 1)' = SlotAt(i)
    BY <1>1, <1>2, RingAssumption
  <2> QED
    BY <1>1, <1>2, <2>1 DEF Content, PopStore
<1>7. Content' = Tail(Content)
  <2>1. \A i \in 1 .. Live - 1 : Content[i + 1] = ring[SlotAt(i)]
    BY <1>1 DEF Content
  <2>2. Tail(Content) = [i \in 1 .. Live - 1 |-> Content[i + 1]]
    BY <1>1, <1>4, TailIs
  <2> QED
    BY <1>6, <2>1, <2>2
<1>8. Content # <<>> /\ Head(Content) = cEntry
  BY <1>1, <1>4, <1>5
<1> QED
  BY <1>7, <1>8 DEF Fifo!Remove, PopStore

\* A peek returns the entry at the offset of the slot it copied.
LEMMA PeekLooks ==
  ASSUME IInv, PeekReturn
  PROVE  \E k \in 0 .. Cap : Fifo!LookAt(k)
<1> USE DEF IInv
<1>1. /\ Live \in 0 .. Cap - 1 /\ Dist(cSlot) < Live
      /\ cSlot \in Slot /\ Dist(cSlot) \in Slot
  BY LiveBounds, SlotAtDist DEF TypeOK, PeekReturn, ReadIsLive, Peeking
<1>2. ring[cSlot] = cEntry
  BY <1>1, EntryIsItsHalves DEF TypeOK, PeekReturn, CopiedSoFar
<1>3. Content[Dist(cSlot) + 1] = cEntry
  <2> DEFINE d == Dist(cSlot)
  <2>1. d \in Nat /\ d < Live /\ SlotAt(d) = cSlot
    BY <1>1, SlotAtDist DEF TypeOK, Slot
  <2> HIDE DEF d
  <2>2. \A i \in 1 .. Live : Content[i] = ring[SlotAt(i - 1)]
    BY DEF Content
  <2>3. d + 1 \in 1 .. Live /\ d + 1 - 1 = d
    BY <1>1, <2>1
  <2>4. Content[d + 1] = ring[SlotAt(d)]
    <3>1. \A i \in 1 .. Live : \A k : k = i - 1 => Content[i] = ring[SlotAt(k)]
      BY <2>2
    <3>2. d = (d + 1) - 1
      BY <2>1
    <3> QED
      BY <2>3, <3>1, <3>2
  <2> QED
    BY <1>2, <2>1, <2>4 DEF d
<1>4. Content' = Content
  BY ContentSame DEF PeekReturn, ringVars
<1> QED
  BY <1>1, <1>3, <1>4, ContentIsSeq, RingAssumption
     DEF Fifo!LookAt, PeekReturn, ringVars, Slot

\* The hard clear throws away the entries in front of the head it loaded.
LEMMA ClearDiscards ==
  ASSUME IInv, ClearTail
  PROVE  \E n \in 0 .. Cap - 1 : Fifo!Discard(n)
<1> USE DEF IInv
<1> DEFINE n == Dist(cSlot)
<1>1. /\ Live \in 0 .. Cap - 1 /\ n <= Live /\ n \in 0 .. Cap - 1
      /\ head \in Slot /\ tail \in Slot /\ cSlot \in Slot
  BY LiveBounds, SlotAtDist DEF TypeOK, ClearTail, ClearIsLive, Slot
<1>2. /\ Live' = Live - n
      /\ \A k \in 0 .. Cap - 1 - n : SlotAt(k)' = SlotAt(k + n)
  BY <1>1, TailAdvance DEF ClearTail
<1>3. Content' = SubSeq(Content, n + 1, Len(Content))
  <2> HIDE DEF n
  <2>1. Content \in Seq(Entry) /\ Len(Content) = Live
    BY ContentIsSeq
  <2>2. \A i \in 1 .. Live - n : SlotAt(i - 1)' = SlotAt(i - 1 + n)
    BY <1>1, <1>2, RingAssumption
  <2>3. Content' = [i \in 1 .. Live - n |-> ring[SlotAt(i - 1 + n)]]
    BY <1>1, <1>2, <2>2 DEF Content, ClearTail
  <2>4. \A i \in 1 .. Live - n : Content[i + n] = ring[SlotAt(i - 1 + n)]
    BY <1>1 DEF Content
  <2>5. SubSeq(Content, n + 1, Len(Content)) =
          [i \in 1 .. Live - n |-> Content[i + n]]
    BY <1>1, <2>1, SubSeqIs
  <2> QED
    BY <2>3, <2>4, <2>5
<1> QED
  BY <1>1, <1>3, ContentIsSeq DEF Fifo!Discard, ClearTail

\* Every step of the ring is a step of the FIFO or changes nothing in it.
LEMMA StepRefines == IInv /\ [Next]_vars => [Fifo!Next]_(Fifo!vars)
<1> SUFFICES ASSUME IInv, [Next]_vars PROVE [Fifo!Next]_(Fifo!vars)
  OBVIOUS
<1>t. TypeOK /\ Len(Content) = Live /\ Content \in Seq(Entry)
  BY ContentIsSeq DEF IInv
<1>u. UNCHANGED ringVars => Content' = Content
  BY <1>t, ContentSame DEF ringVars
<1>1. ASSUME NEW e \in Arrival, PushCall(e) PROVE UNCHANGED Fifo!vars
  BY <1>1, <1>u DEF PushCall, ringVars, consVars, Fifo!vars
<1>2. CASE PushFull
  <2>1. Content' = Content
    BY <1>2, <1>t, ContentSame DEF PushFull
  <2>2. Live = Cap - 1
    BY <1>2, <1>t, LiveBounds DEF PushFull, TypeOK
  <2>3. Fifo!Refuse
    BY <1>2, <1>t, <2>1, <2>2
       DEF PushFull, consVars, Fifo!Refuse, Fifo!Succ, Wrapped
  <2> QED
    BY <2>3 DEF Fifo!Next
<1>3. CASE PushFree
  BY <1>3, <1>u DEF PushFree, ringVars, consVars, Fifo!vars
<1>4. CASE PushByte \/ PushStamp
  <2>1. Content' = Content
    BY <1>4, <1>t, ContentSame DEF PushByte, PushStamp, TypeOK
  <2> QED
    BY <1>4, <2>1 DEF PushByte, PushStamp, consVars, Fifo!vars
<1>5. CASE PushLast
  <2>1. Content' = Content
    BY <1>5, <1>t, ContentSame DEF PushLast
  <2> QED
    BY <1>5, <2>1 DEF PushLast, consVars, Fifo!vars
<1>6. CASE PushPublish
  BY <1>6, PublishAccepts DEF Fifo!Next
<1>7. CASE PopEmpty
  <2>1. Fifo!FindEmpty
    BY <1>7, <1>t, <1>u, LiveBounds
       DEF PopEmpty, ringVars, TypeOK, Fifo!FindEmpty
  <2> QED
    BY <2>1 DEF Fifo!Next
<1>8. CASE PopCall \/ CountCall \/ ClearLoad
  BY <1>8, <1>u DEF PopCall, CountCall, ClearLoad, ringVars, Fifo!vars
<1>9. CASE PopByte \/ PopStamp \/ PeekByte \/ PeekStamp
  BY <1>9, <1>u DEF PopByte, PopStamp, PeekByte, PeekStamp, CopyByte,
                    CopyStamp, ringVars, Fifo!vars
<1>10. CASE PopStore
  BY <1>10, PopRemoves DEF Fifo!Next
<1>11. ASSUME NEW k \in 0 .. Cap, PeekMiss(k) PROVE Fifo!LookPast(k)
  BY <1>11, <1>t, <1>u, LiveBounds
     DEF PeekMiss, ringVars, TypeOK, Fifo!LookPast
<1>12. ASSUME NEW k \in 0 .. Cap, PeekCall(k) PROVE UNCHANGED Fifo!vars
  BY <1>12, <1>u DEF PeekCall, ringVars, Fifo!vars
<1>13. CASE PeekReturn
  <2>1. PICK k \in 0 .. Cap : Fifo!LookAt(k)
    BY <1>13, PeekLooks
  <2> QED
    BY <2>1, RingAssumption DEF Fifo!Next
<1>14. CASE ClearTail
  BY <1>14, ClearDiscards DEF Fifo!Next
<1>15. CASE ClearLast
  <2>1. Content' = Content
    BY <1>15, <1>t, ContentSame DEF ClearLast
  <2> QED
    BY <1>15, <2>1 DEF ClearLast, Fifo!vars
<1>16. CASE Reset
  <2>1. Live' = 0
    BY <1>16 DEF Reset, Live
  <2>2. Content' = <<>>
    BY <2>1 DEF Content
  <2> QED
    BY <1>16, <2>2 DEF Reset, Fifo!Restart, Fifo!Next
<1>17. CASE UNCHANGED vars
  BY <1>17, <1>u DEF vars, ringVars, consVars, Fifo!vars
<1> QED
  <2>1. ASSUME NEW k \in 0 .. Cap, PeekMiss(k) PROVE Fifo!Next
    BY <1>11, <2>1, RingAssumption DEF Fifo!Next
  <2> QED
    BY <1>1, <1>2, <1>3, <1>4, <1>5, <1>6, <1>7, <1>8, <1>9, <1>10, <1>12,
       <1>13, <1>14, <1>15, <1>16, <1>17, <2>1 DEF Next, Producer, Consumer

\* The ring implements the bounded FIFO: for every capacity and every
\* interleaving nothing is lost below Cap - 1 entries, losses are counted,
\* and entries come out whole and in order.
THEOREM RingImplementsFifo == Spec => FifoSpec
<1>1. Init => Fifo!Init
  <2>1. Init => Live = 0
    BY DEF Init, Live
  <2> QED
    BY <2>1 DEF Init, Content, Fifo!Init
<1> QED
  BY <1>1, StepRefines, Inductive, PTL DEF Spec, FifoSpec, Fifo!Spec
=============================================================================
