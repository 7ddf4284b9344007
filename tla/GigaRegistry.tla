---------------------------- MODULE GigaRegistry -----------------------------
(***************************************************************************)
(* The registry of GIGA serial adapters: a fixed number of slots, shared   *)
(* by adapters that are constructed directly and by those the placement    *)
(* facade constructs (GigaBufferedSerial.h:27-40, 229-285 and 327-418).    *)
(* Only a registered adapter gets readable callbacks and the bounded       *)
(* transmit drain.                                                         *)
(*                                                                         *)
(* A port is the storage an adapter may be constructed in, and stands for  *)
(* its address.  The documentation forbids to construct or destroy while   *)
(* the transport works, so each operation is a step.                       *)
(***************************************************************************)
EXTENDS Integers

CONSTANTS Ports,      \* storage for adapters
          Cap,        \* kRegistryCap
          None        \* no adapter, nullptr

ASSUME RegistryAssumption == Cap \in Nat \ {0} /\ None \notin Ports

VARIABLES slots,      \* _registry()
          alive,      \* adapters that are constructed
          answer      \* what the last operation of the registry said

registry == <<slots, alive, answer>>

Slot == 1 .. Cap
Free == {i \in Slot : slots[i] = None}
Used == {slots[i] : i \in Slot} \ {None}

\* registered(), contains(), find() and count() all read the slots.
Registered(p) == p \in Used

RegistryInit == /\ slots = [i \in Slot |-> None]
                /\ alive = {} /\ answer = "none"

\* Defect: slots that were given back are not used again.
FirstFreeAtEnd == LET taken == {i \in Slot : slots[i] # None}
                  IN  IF taken = {} THEN 1
                      ELSE 1 + (CHOOSE i \in taken : \A j \in taken : j <= i)

\* The lowest free slot; Cap + 1 if there is none.
FirstFree == IF Free = {} THEN Cap + 1
             ELSE CHOOSE i \in Free : \A j \in Free : i <= j

\* Defect: without a free slot the one after the last is written.
RegisterPastEnd(p) == slots' = [i \in Slot \cup {FirstFree} |->
                                 IF i = FirstFree THEN p ELSE slots[i]]

\* _registerInstance()
Register(p) == slots' = [i \in Slot |-> IF i = FirstFree THEN p ELSE slots[i]]

\* Defect: the destructor leaves the adapter in its slot.
UnregisterNot(p) == UNCHANGED slots

\* Defect: the slots behind it are given up too.
UnregisterRest(p) == slots' = [i \in Slot |-> IF \E j \in 1 .. i : slots[j] = p
                                              THEN None ELSE slots[i]]

\* _unregisterInstance(), in the destructor
Unregister(p) == slots' = [i \in Slot |-> IF slots[i] = p THEN None
                                          ELSE slots[i]]

-----------------------------------------------------------------------------
\* A declared adapter: without a free slot it exists all the same.
Construct(p) == /\ p \notin alive
                /\ alive' = alive \cup {p}
                /\ Register(p)
                /\ answer' = "constructed"

Destroy(p) == /\ p \in alive
              /\ alive' = alive \ {p}
              /\ Unregister(p)
              /\ answer' = "destroyed"

\* constructAt() with storage that is missing, too small or misaligned.
ConstructAtRefused(why) == /\ answer' = why
                           /\ UNCHANGED <<slots, alive>>

\* constructAt(): an adapter that finds no slot is destroyed on the spot.
ConstructAtFull(p) == /\ p \notin alive /\ FirstFree \notin Slot
                      /\ answer' = "full"
                      /\ UNCHANGED <<slots, alive>>

ConstructAtOk(p) == /\ p \notin alive /\ FirstFree \in Slot
                    /\ alive' = alive \cup {p}
                    /\ Register(p)
                    /\ answer' = "ok"

\* destroyAt() on any pointer the caller still has, stale ones included; it
\* compares addresses and does not touch the adapter before it has found it.
DestroyAt(p) == IF Registered(p)
                THEN /\ alive' = alive \ {p}
                     /\ Unregister(p)
                     /\ answer' = IF p \in alive THEN "destroyed" ELSE "twice"
                ELSE answer' = "refused" /\ UNCHANGED <<slots, alive>>

RegistryNext ==
  \/ \E p \in Ports : \/ Construct(p) \/ Destroy(p)
                      \/ ConstructAtFull(p) \/ ConstructAtOk(p)
                      \/ DestroyAt(p)
  \/ \E why \in {"invalid", "misaligned"} : ConstructAtRefused(why)

RegistrySpec == RegistryInit /\ [][RegistryNext]_registry

-----------------------------------------------------------------------------
Answers == {"none", "constructed", "ok", "full", "invalid", "misaligned",
            "destroyed", "refused", "twice"}

RegistryTypeOK == /\ slots \in [Slot -> Ports \cup {None}]
                  /\ alive \subseteq Ports /\ answer \in Answers

\* The slots hold live adapters, each once: a lookup by address can neither
\* find an adapter that is gone nor miss the second entry of one that is
\* unregistered (239-285).
SlotsAreLive == /\ Used \subseteq alive
                /\ \A i, j \in Slot : slots[i] = slots[j] /\ slots[i] # None => i = j

\* constructAt() refuses for want of room only when every slot holds a live
\* adapter, whatever came and went before; and destroyAt() runs no destructor
\* twice (360-403).
FullIsFull == /\ answer = "full" => \A i \in Slot : slots[i] \in alive
              /\ answer # "twice"

\* An adapter keeps its admission, or the lack of it, for life: one that was
\* refused at construction is not registered later, when a slot is free, and
\* no other adapter's end takes a slot away (27-40, 239-257).
AdmissionIsFinal ==
  [][\A p \in alive \cap alive' : Registered(p)' = Registered(p)]_<<slots, alive>>
=============================================================================
