---------------------------- MODULE BoundedFifo ----------------------------
(***************************************************************************)
(* What the RX ring promises the rest of the driver: a first-in first-out  *)
(* queue with a fixed amount of room.  Nothing is lost while there is      *)
(* room, a loss is counted, the reader gets the entries whole and in the   *)
(* order they were accepted, and only the reader removes them.             *)
(* ModbusRTUComm.cpp:505-604 implements it without a lock, RxRing.tla is   *)
(* that code and RxRing_proofs.tla the proof that it does.                 *)
(***************************************************************************)
EXTENDS Naturals, Sequences

CONSTANTS Entry,     \* what the queue holds
          NoEntry,   \* returned by a read that finds nothing
          Room,      \* number of entries the queue can hold
          CountMax   \* largest value of the loss counter before it wraps

VARIABLES queue,     \* accepted entries not yet removed, oldest first
          lost,      \* number of entries refused for lack of room
          result     \* what the reader's last removal or look-ahead gave

vars == <<queue, lost, result>>

\* A counter that wraps after CountMax, like a uint32_t.
Succ(n) == IF n = CountMax THEN 0 ELSE n + 1

Init == queue = <<>> /\ lost = 0 /\ result = NoEntry

Accept(e) == /\ Len(queue) < Room
             /\ queue' = Append(queue, e)
             /\ UNCHANGED <<lost, result>>

\* Refused only when there is no room, and never silently.
Refuse == /\ Len(queue) = Room
          /\ lost' = Succ(lost)
          /\ UNCHANGED <<queue, result>>

Remove == /\ queue # <<>>
          /\ result' = Head(queue)
          /\ queue' = Tail(queue)
          /\ UNCHANGED lost

FindEmpty == /\ queue = <<>>
             /\ result' = NoEntry
             /\ UNCHANGED <<queue, lost>>

LookAt(k) == /\ k < Len(queue)
             /\ result' = queue[k + 1]
             /\ UNCHANGED <<queue, lost>>

LookPast(k) == /\ k >= Len(queue)
               /\ result' = NoEntry
               /\ UNCHANGED <<queue, lost>>

\* The n oldest entries are thrown away at once.
Discard(n) == /\ n <= Len(queue)
              /\ queue' = SubSeq(queue, n + 1, Len(queue))
              /\ UNCHANGED <<lost, result>>

Restart == queue' = <<>> /\ lost' = 0 /\ UNCHANGED result

Next == \/ \E e \in Entry : Accept(e)
        \/ Refuse
        \/ Remove
        \/ FindEmpty
        \/ \E k \in 0 .. Room + 1 : LookAt(k) \/ LookPast(k)
        \/ \E n \in 0 .. Room : Discard(n)
        \/ Restart

Spec == Init /\ [][Next]_vars
=============================================================================
