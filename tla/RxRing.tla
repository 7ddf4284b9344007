------------------------------- MODULE RxRing -------------------------------
(***************************************************************************)
(* The single-producer single-consumer RX ring of ModbusRTUComm, access by *)
(* access (ModbusRTUComm.cpp:522-604 and 1019-1022).                       *)
(*                                                                         *)
(* The producer is _ingestPoll(): the RX thread when there is one, else    *)
(* the owner of the driver.  The consumer is the owner.  One step is one   *)
(* access to a variable the other side may touch; the acquire and release  *)
(* orders of the code on head and tail make the plain accesses to the      *)
(* slots happen in this order for the other side too.  An index is loaded  *)
(* by the side that owns it without a step of its own: nobody else stores  *)
(* it.  Time stamps are arbitrary here, RxTransaction takes them from a    *)
(* clock.                                                                  *)
(***************************************************************************)
EXTENDS Naturals, Sequences

CONSTANTS Cap,       \* MBUS_RTU_RX_RING_SIZE, or 1 when that is 0
          Byte,      \* values of a byte
          Stamp,     \* values of a micros() time stamp
          Arrival,   \* the entries the transport delivers
          NoEntry,   \* a read that returned false
          CountMax   \* largest value of _rxOverflowCount

ASSUME RingAssumption ==
  /\ Cap \in Nat \ {0}
  /\ CountMax \in Nat
  /\ 0 \in Byte /\ 0 \in Stamp
  /\ Arrival \subseteq [byte : Byte, ts : Stamp]
  /\ NoEntry \notin [byte : Byte, ts : Stamp]

VARIABLES ring,       \* _rxRing: one RxEntry per slot
          head,       \* _rxHead, stored by the producer only
          tail,       \* _rxTail, stored by the consumer only
          overflow,   \* _rxOverflowCount
          lastRx,     \* _lastRxByteUs, 0 meaning "none since the reset"
          pPc,        \* where the producer is inside _pushRxByte()
          pEntry,     \* its arguments
          cPc,        \* where the consumer is, and in which operation
          cSlot,      \* slot index it holds: the one it reads, or the clear's
          cEntry,     \* what it has copied out of the slot so far
          cKnown,     \* entries known to be there since the last _rxCount()
          result      \* last result of _popRxByte() or _peekRx()

ringVars == <<ring, head, tail, overflow, lastRx>>
prodVars == <<pPc, pEntry>>
consVars == <<cPc, cSlot, cEntry, cKnown, result>>
vars == <<ringVars, prodVars, consVars>>

Slot  == 0 .. Cap - 1
Entry == [byte : Byte, ts : Stamp]

\* Defect: the index wraps one slot too late.
NextSlotWrapsLate(i) == IF i + 1 > Cap THEN 0 ELSE i + 1

\* next = i + 1, and 0 at the end of the array.
NextSlot(i) == IF i + 1 >= Cap THEN 0 ELSE i + 1

\* idx = tail + offset, less Cap when that runs past the end.
SlotAt(k) == IF tail + k >= Cap THEN tail + k - Cap ELSE tail + k

\* Defect: an empty ring is counted as a wrapped one.
CountWrapsEmpty == IF head > tail THEN head - tail ELSE Cap - (tail - head)

\* _rxCount(), and the count inside _peekRx().
Count == IF head >= tail THEN head - tail ELSE Cap - (tail - head)

Wrapped(n) == IF n = CountMax THEN 0 ELSE n + 1

ZeroEntry == [byte |-> 0, ts |-> 0]

Init == /\ ring = [i \in Slot |-> ZeroEntry]
        /\ head = 0 /\ tail = 0 /\ overflow = 0 /\ lastRx = 0
        /\ pPc = "idle" /\ pEntry = ZeroEntry
        /\ cPc = "idle" /\ cSlot = 0 /\ cEntry = ZeroEntry /\ cKnown = 0
        /\ result = NoEntry

-----------------------------------------------------------------------------
(* Producer: _pushRxByte(byte, tsUs) *)

PushCall(e) == /\ pPc = "idle"
               /\ pPc' = "tail" /\ pEntry' = e
               /\ UNCHANGED <<ringVars, consVars>>

\* The acquire load of tail finds the ring full: count the byte and drop it.
PushFull == /\ pPc = "tail" /\ NextSlot(head) = tail
            /\ overflow' = Wrapped(overflow)
            /\ pPc' = "idle"
            /\ UNCHANGED <<ring, head, tail, lastRx, pEntry, consVars>>

\* Defect: the ring is written without a look at whether it is full.
PushFreeUnchecked == /\ pPc = "tail"
                     /\ pPc' = "byte"
                     /\ UNCHANGED <<ringVars, pEntry, consVars>>

PushFree == /\ pPc = "tail" /\ NextSlot(head) # tail
            /\ pPc' = "byte"
            /\ UNCHANGED <<ringVars, pEntry, consVars>>

PushByte == /\ pPc = "byte"
            /\ ring' = [ring EXCEPT ![head].byte = pEntry.byte]
            /\ pPc' = "stamp"
            /\ UNCHANGED <<head, tail, overflow, lastRx, pEntry, consVars>>

PushStamp == /\ pPc = "stamp"
             /\ ring' = [ring EXCEPT ![head].ts = pEntry.ts]
             /\ pPc' = "last"
             /\ UNCHANGED <<head, tail, overflow, lastRx, pEntry, consVars>>

\* _lastRxByteUs (the _lastTrafficMs store beside it is TxGate's).
PushLast == /\ pPc = "last"
            /\ lastRx' = pEntry.ts
            /\ pPc' = "publish"
            /\ UNCHANGED <<ring, head, tail, overflow, pEntry, consVars>>

PushPublish == /\ pPc = "publish"
               /\ head' = NextSlot(head)
               /\ pPc' = "idle"
               /\ UNCHANGED <<ring, tail, overflow, lastRx, pEntry, consVars>>

Producer == \/ \E e \in Arrival : PushCall(e)
            \/ PushFull \/ PushFree \/ PushByte \/ PushStamp
            \/ PushLast \/ PushPublish

-----------------------------------------------------------------------------
(* Consumer: _popRxByte(), _peekRx(offset), _rxCount() and the hard clear *)

PopEmpty == /\ cPc = "idle" /\ head = tail
            /\ result' = NoEntry
            /\ UNCHANGED <<ringVars, prodVars, cPc, cSlot, cEntry, cKnown>>

PopCall == /\ cPc = "idle" /\ head # tail
           /\ cPc' = "popByte" /\ cSlot' = tail
           /\ UNCHANGED <<ringVars, prodVars, cEntry, cKnown, result>>

\* The two halves of copying the slot out, for a pop or for a peek.
CopyByte(from, to) ==
  /\ cPc = from
  /\ cEntry' = [cEntry EXCEPT !.byte = ring[cSlot].byte]
  /\ cPc' = to
  /\ UNCHANGED <<ringVars, prodVars, cSlot, cKnown, result>>

CopyStamp(from, to) ==
  /\ cPc = from
  /\ cEntry' = [cEntry EXCEPT !.ts = ring[cSlot].ts]
  /\ cPc' = to
  /\ UNCHANGED <<ringVars, prodVars, cSlot, cKnown, result>>

PopByte  == CopyByte("popByte", "popStamp")
PopStamp == CopyStamp("popStamp", "popStore")

PopStore == /\ cPc = "popStore"
            /\ tail' = NextSlot(tail)
            /\ result' = cEntry
            /\ cKnown' = IF cKnown = 0 THEN 0 ELSE cKnown - 1
            /\ cPc' = "idle"
            /\ UNCHANGED <<ring, head, overflow, lastRx, prodVars,
                           cSlot, cEntry>>

CountCall == /\ cPc = "idle"
             /\ cKnown' = Count
             /\ UNCHANGED <<ringVars, prodVars, cPc, cSlot, cEntry, result>>

PeekMiss(k) == /\ cPc = "idle" /\ k >= Count
               /\ result' = NoEntry
               /\ UNCHANGED <<ringVars, prodVars, cPc, cSlot, cEntry, cKnown>>

\* Defect: the bound of a peek is off by one, and reaches the free slot.
PeekCallPastEnd(k) == /\ cPc = "idle" /\ k <= Count
                      /\ cPc' = "peekByte" /\ cSlot' = SlotAt(k)
                      /\ UNCHANGED <<ringVars, prodVars, cEntry, cKnown,
                                     result>>

PeekCall(k) == /\ cPc = "idle" /\ k < Count
               /\ cPc' = "peekByte" /\ cSlot' = SlotAt(k)
               /\ UNCHANGED <<ringVars, prodVars, cEntry, cKnown, result>>

PeekByte  == CopyByte("peekByte", "peekStamp")
PeekStamp == CopyStamp("peekStamp", "peekReturn")

PeekReturn == /\ cPc = "peekReturn"
              /\ result' = cEntry
              /\ cPc' = "idle"
              /\ UNCHANGED <<ringVars, prodVars, cSlot, cEntry, cKnown>>

\* Drain escape: tail := head, then the "no byte yet" sentinel.  Bytes
\* published between the load and the store of tail survive it.
ClearLoad == /\ cPc = "idle"
             /\ cSlot' = head /\ cPc' = "clearTail"
             /\ UNCHANGED <<ringVars, prodVars, cEntry, cKnown, result>>

ClearTail == /\ cPc = "clearTail"
             /\ tail' = cSlot /\ cKnown' = 0
             /\ cPc' = "clearLast"
             /\ UNCHANGED <<ring, head, overflow, lastRx, prodVars,
                            cSlot, cEntry, result>>

ClearLast == /\ cPc = "clearLast"
             /\ lastRx' = 0
             /\ cPc' = "idle"
             /\ UNCHANGED <<ring, head, tail, overflow, prodVars,
                            cSlot, cEntry, cKnown, result>>

Consumer == \/ PopEmpty \/ PopCall \/ PopByte \/ PopStamp \/ PopStore
            \/ CountCall
            \/ \E k \in 0 .. Cap : PeekMiss(k) \/ PeekCall(k)
            \/ PeekByte \/ PeekStamp \/ PeekReturn
            \/ ClearLoad \/ ClearTail \/ ClearLast

-----------------------------------------------------------------------------
\* begin(): the RX thread has been joined, so nobody is inside the ring.
Reset == /\ pPc = "idle" /\ cPc = "idle"
         /\ head' = 0 /\ tail' = 0 /\ overflow' = 0 /\ lastRx' = 0
         /\ cKnown' = 0
         /\ UNCHANGED <<ring, prodVars, cPc, cSlot, cEntry, result>>

Next == Producer \/ Consumer \/ Reset

Spec == Init /\ [][Next]_vars

-----------------------------------------------------------------------------
TypeOK ==
  /\ ring \in [Slot -> Entry]
  /\ head \in Slot /\ tail \in Slot
  /\ overflow \in 0 .. CountMax
  /\ lastRx \in Stamp
  /\ pPc \in {"idle", "tail", "byte", "stamp", "last", "publish"}
  /\ pEntry \in Entry
  /\ cPc \in {"idle", "popByte", "popStamp", "popStore", "peekByte",
              "peekStamp", "peekReturn", "clearTail", "clearLast"}
  /\ cSlot \in Slot /\ cEntry \in Entry
  /\ cKnown \in 0 .. Cap - 1
  /\ result \in Entry \cup {NoEntry}

\* The entries between tail and head, oldest first.
Live == IF tail <= head THEN head - tail ELSE head + Cap - tail
Content == [i \in 1 .. Live |-> ring[SlotAt(i - 1)]]

\* The producer never writes the slot the consumer is copying: the two
\* halves of an entry the extractor sees come from the same push
\* (_pushRxByte 539-540 against _popRxByte 555-557 and _peekRx 578).
NoSlotRace ==
  ~ /\ pPc \in {"byte", "stamp"}
    /\ cPc \in {"popByte", "popStamp", "peekByte", "peekStamp"}
    /\ cSlot = head

\* What _rxCount() told the extractor stays there: the extractor takes the
\* count once and then peeks up to it while bytes keep arriving.
KnownIsThere == cKnown <= Live

\* The code is a bounded FIFO of Cap - 1 entries (see BoundedFifo).
Fifo == INSTANCE BoundedFifo
          WITH queue <- Content, lost <- overflow, Room <- Cap - 1

FifoSpec == Fifo!Spec
=============================================================================
