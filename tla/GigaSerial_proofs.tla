-------------------------- MODULE GigaSerial_proofs --------------------------
(***************************************************************************)
(* Theorems about the registry of GIGA adapters, for every set of ports    *)
(* and every number of slots, and about the transport that uses it: a      *)
(* transmission takes no step of the registry, so what holds of the        *)
(* registry alone holds of GigaSerial; and about the transmission itself,  *)
(* at every rate, in every format of Modbus RTU, for every buffer and any  *)
(* preemption.                                                             *)
(***************************************************************************)
EXTENDS GigaSerial, Clock_proofs

USE RegistryAssumption DEF Slot

-----------------------------------------------------------------------------
(* The lowest free slot *)

\* A set of slots that is not empty has a least member.
LEMMA LeastSlot ==
  ASSUME NEW S \in SUBSET Slot, S # {}
  PROVE  \E i \in S : \A j \in S : i <= j
<1>1. IsWellFoundedOn(OpToRel(<, Nat), Nat)
  BY NatLessThanWellFounded
<1>2. S \subseteq Nat
  OBVIOUS
<1>3. PICK i \in S : \A j \in S : ~ (<<j, i>> \in OpToRel(<, Nat))
  BY <1>1, <1>2, WFMin, Zenon
<1>4. ASSUME NEW j \in S PROVE i <= j
  <2>1. i \in Nat /\ j \in Nat
    BY <1>2
  <2>2. ~ (j < i)
    BY <1>3, <2>1 DEF OpToRel
  <2>. QED BY <2>1, <2>2
<1>. QED BY <1>4

\* FirstFree is a free slot if there is one, and no slot otherwise.
LEMMA FirstFreeFits == /\ FirstFree \in Slot => slots[FirstFree] = None
                       /\ FirstFree \notin Slot => Free = {}
<1>1. CASE Free = {}
  BY <1>1 DEF FirstFree
<1>2. CASE Free # {}
  <2>1. Free \in SUBSET Slot
    BY DEF Free
  <2>2. \E i \in Free : \A j \in Free : i <= j
    BY <1>2, <2>1, LeastSlot
  <2>3. FirstFree \in Free
    BY <1>2, <2>2 DEF FirstFree
  <2>. QED BY <2>3 DEF Free
<1>. QED BY <1>1, <1>2

-----------------------------------------------------------------------------
(* The registry *)

\* What the three properties need of each other: an adapter in a slot is alive, so one
\* that is not alive may be registered without being there twice.
RegistryInv == RegistryTypeOK /\ SlotsAreLive /\ FullIsFull

LEMMA RegistryInvInit == RegistryInit => RegistryInv
BY DEF RegistryInit, RegistryInv, RegistryTypeOK, Answers, SlotsAreLive, Used, FullIsFull

\* To register an adapter that is not alive keeps the slots in order.
LEMMA RegisterKeeps ==
  ASSUME RegistryInv, NEW p \in Ports, p \notin alive,
         alive' = alive \cup {p}, Register(p)
  PROVE  slots' \in [Slot -> Ports \cup {None}] /\ SlotsAreLive'
<1>. USE DEF RegistryInv, RegistryTypeOK, SlotsAreLive, Used, Register
<1>1. slots' \in [Slot -> Ports \cup {None}]
  OBVIOUS
<1>2. \A i \in Slot : slots'[i] = p \/ slots'[i] = slots[i]
  OBVIOUS
<1>3. \A i \in Slot : slots[i] # p
  OBVIOUS
<1>4. Used' \subseteq alive'
  BY <1>2
<1>5. ASSUME NEW i \in Slot, NEW j \in Slot, slots'[i] = slots'[j], slots'[i] # None
      PROVE  i = j
  BY <1>3, <1>5
<1>. QED BY <1>1, <1>4, <1>5

\* To unregister one that goes keeps them in order too.
LEMMA UnregisterKeeps ==
  ASSUME RegistryInv, NEW p \in Ports, alive' = alive \ {p}, Unregister(p)
  PROVE  slots' \in [Slot -> Ports \cup {None}] /\ SlotsAreLive'
BY DEF RegistryInv, RegistryTypeOK, SlotsAreLive, Used, Unregister

LEMMA RegistryInvNext ==
  ASSUME RegistryInv, [RegistryNext]_registry
  PROVE  RegistryInv'
<1>1. ASSUME NEW p \in Ports, Construct(p) PROVE RegistryInv'
  <2>1. slots' \in [Slot -> Ports \cup {None}] /\ SlotsAreLive'
    BY <1>1, RegisterKeeps DEF Construct
  <2>. QED BY <1>1, <2>1
        DEF Construct, RegistryInv, RegistryTypeOK, Answers, FullIsFull
<1>2. ASSUME NEW p \in Ports, Destroy(p) PROVE RegistryInv'
  <2>1. slots' \in [Slot -> Ports \cup {None}] /\ SlotsAreLive'
    BY <1>2, UnregisterKeeps DEF Destroy
  <2>. QED BY <1>2, <2>1
        DEF Destroy, RegistryInv, RegistryTypeOK, Answers, FullIsFull
<1>3. ASSUME NEW p \in Ports, ConstructAtFull(p) PROVE RegistryInv'
  <2>1. Free = {}
    BY <1>3, FirstFreeFits DEF ConstructAtFull
  <2>2. \A i \in Slot : slots[i] \in alive
    BY <2>1 DEF Free, RegistryInv, SlotsAreLive, Used
  <2>. QED BY <1>3, <2>2
        DEF ConstructAtFull, RegistryInv, RegistryTypeOK, Answers, SlotsAreLive,
            Used, FullIsFull
<1>4. ASSUME NEW p \in Ports, ConstructAtOk(p) PROVE RegistryInv'
  <2>1. slots' \in [Slot -> Ports \cup {None}] /\ SlotsAreLive'
    BY <1>4, RegisterKeeps DEF ConstructAtOk
  <2>. QED BY <1>4, <2>1
        DEF ConstructAtOk, RegistryInv, RegistryTypeOK, Answers, FullIsFull
<1>5. ASSUME NEW p \in Ports, DestroyAt(p) PROVE RegistryInv'
  <2>1. CASE Registered(p)
    <3>1. p \in alive
      BY <2>1 DEF Registered, RegistryInv, SlotsAreLive
    <3>2. slots' \in [Slot -> Ports \cup {None}] /\ SlotsAreLive'
      BY <1>5, <2>1, UnregisterKeeps DEF DestroyAt
    <3>. QED BY <1>5, <2>1, <3>1, <3>2
          DEF DestroyAt, RegistryInv, RegistryTypeOK, Answers, FullIsFull
  <2>2. CASE ~Registered(p)
    BY <1>5, <2>2 DEF DestroyAt, RegistryInv, RegistryTypeOK, Answers, SlotsAreLive,
                      Used, FullIsFull
  <2>. QED BY <2>1, <2>2
<1>6. ASSUME NEW why \in {"invalid", "misaligned"}, ConstructAtRefused(why)
      PROVE  RegistryInv'
  BY <1>6 DEF ConstructAtRefused, RegistryInv, RegistryTypeOK, Answers, SlotsAreLive,
              Used, FullIsFull
<1>7. CASE UNCHANGED registry
  BY <1>7 DEF registry, RegistryInv, RegistryTypeOK, SlotsAreLive, Used, FullIsFull
<1>. QED BY <1>1, <1>2, <1>3, <1>4, <1>5, <1>6, <1>7 DEF RegistryNext

LEMMA RegistrySafe == RegistrySpec => []RegistryInv
BY RegistryInvInit, RegistryInvNext, PTL DEF RegistrySpec

\* Registration does not move: an adapter that stays alive keeps its slot or its lack of
\* one, through every construction and destruction of others.
LEMMA AdmissionStep ==
  ASSUME RegistryInv, [RegistryNext]_registry
  PROVE  [\A p \in alive \cap alive' : Registered(p)' = Registered(p)]_<<slots, alive>>
<1>. USE DEF RegistryInv, RegistryTypeOK, SlotsAreLive, Used, Registered
<1>1. ASSUME NEW p \in Ports, p \notin alive, alive' = alive \cup {p}, Register(p),
             NEW q \in alive
      PROVE  (q \in Used)' <=> q \in Used
  <2>1. \A i \in Slot : slots[i] # None => slots'[i] = slots[i]
    BY <1>1, FirstFreeFits DEF Register
  <2>2. \A i \in Slot : slots'[i] = p \/ slots'[i] = slots[i]
    BY <1>1 DEF Register
  <2>3. q # p /\ q # None
    BY <1>1
  <2>. QED BY <2>1, <2>2, <2>3
<1>2. ASSUME NEW p \in Ports, alive' = alive \ {p}, Unregister(p), NEW q \in alive'
      PROVE  (q \in Used)' <=> q \in Used
  BY <1>2 DEF Unregister
<1>3. ASSUME NEW p \in Ports, Construct(p) \/ ConstructAtOk(p), NEW q \in alive
      PROVE  (q \in Used)' <=> q \in Used
  BY <1>1, <1>3 DEF Construct, ConstructAtOk
<1>4. ASSUME NEW p \in Ports, Destroy(p) \/ DestroyAt(p), NEW q \in alive'
      PROVE  (q \in Used)' <=> q \in Used
  BY <1>2, <1>4 DEF Destroy, DestroyAt
<1>5. ASSUME UNCHANGED slots, NEW q PROVE (q \in Used)' <=> q \in Used
  BY <1>5
<1>. QED
  BY <1>3, <1>4, <1>5 DEF RegistryNext, registry, ConstructAtFull, ConstructAtRefused

-----------------------------------------------------------------------------
(* The transport *)

\* A step of GigaSerial is a step of the registry, or leaves it alone.
LEMMA SerialStep == [Next]_vars => [RegistryNext]_registry
BY DEF Next, vars, registry, Administer, Begin, Transmit, WriteSome, WriteStall, WriteDone,
       Lookup, FlushDone, FlushWait, WaitOver, WaitAgain, WaitPause, Delay, Release,
       Return, Elapse, Stand

\* The transport uses the registry as the registry is specified.
THEOREM SerialUsesRegistry == Spec => RegistrySpec
<1>1. Init => RegistryInit
  BY DEF Init
<1>. QED BY <1>1, SerialStep, PTL DEF Spec, RegistrySpec

\* The slots hold live adapters, each once: the callback dispatch and destroyAt() find
\* nothing that is gone (Giga 239-292).
THEOREM SerialSlotsAreLive == Spec => []SlotsAreLive
BY SerialUsesRegistry, RegistrySafe, PTL DEF RegistryInv

\* "full" is said only when every slot holds a live adapter, and no destructor runs twice
\* (Giga 360-403).
THEOREM SerialFullIsFull == Spec => []FullIsFull
BY SerialUsesRegistry, RegistrySafe, PTL DEF RegistryInv

\* Admission is decided at construction, for life (Giga 27-40).
THEOREM SerialAdmissionIsFinal == Spec => AdmissionIsFinal
<1>1. RegistryInv /\ [RegistryNext]_registry
        => [\A p \in alive \cap alive' : Registered(p)' = Registered(p)]_<<slots, alive>>
  BY AdmissionStep
<1>. QED BY <1>1, SerialUsesRegistry, RegistrySafe, PTL DEF RegistrySpec, AdmissionIsFinal

-----------------------------------------------------------------------------
(* The time of a character *)

LEMMA Sizes ==
  /\ UsWrap \in Nat \ {0} /\ SleepUs \in Nat \ {0} /\ ShortUs \in Nat \ {0}
  /\ TxRoom \in Nat \ {0} /\ Lag \in Nat \ {0} /\ ShortUs < SleepUs
  /\ WriteTimeoutUs \in Nat /\ FlushTimeoutUs \in Nat
  /\ Start \subseteq 0 .. UsWrap - 1 /\ Bauds \subseteq Nat \ {0}
  /\ Frames \subseteq Nat \ {0} /\ Formats \subseteq Configs
  /\ Second \in Nat \ {0} /\ FixedT15 \in Nat \ {0} /\ FixedT35 \in Nat \ {0}
  /\ LongestFrame \in Nat \ {0} /\ MaxEnvelope \in Nat
BY SerialAssumption, LinkAssumption

\* Rounding up.
LEMMA CeilDivIs ==
  ASSUME NEW a \in Nat, NEW b \in Nat \ {0}
  PROVE  /\ CeilDiv(a, b) \in Nat
         /\ b * CeilDiv(a, b) >= a /\ b * CeilDiv(a, b) < a + b
         /\ a > 0 => CeilDiv(a, b) > 0
<1>1. /\ CeilDiv(a, b) \in Nat
      /\ b * CeilDiv(a, b) >= a /\ b * CeilDiv(a, b) < a + b
  BY Rounded DEF CeilDiv
<1>2. CeilDiv(a, b) = 0 => b * CeilDiv(a, b) = 0
  OBVIOUS
<1>. QED BY <1>1, <1>2

LEMMA CeilDivOrder ==
  ASSUME NEW a \in Nat, NEW c \in Nat, NEW b \in Nat \ {0}, a <= c
  PROVE  CeilDiv(a, b) <= CeilDiv(c, b)
<1>1. a + b - 1 \in Nat /\ c + b - 1 \in Nat /\ a + b - 1 <= c + b - 1
  OBVIOUS
<1>. QED BY <1>1, DivOrder DEF CeilDiv

\* Both tables count between nine and twelve bits, and the same number for a format of
\* Modbus RTU.
LEMMA BitsAre ==
  ASSUME NEW c \in Configs
  PROVE  /\ BitsPerChar(c) \in 10 .. 12
         /\ WireBits(DecodeSerialConfig(c)) \in 9 .. 12
         /\ c \in RtuConfigs => BitsPerChar(c) = WireBits(DecodeSerialConfig(c))
<1>1. /\ c.data \in 5 .. 8 /\ c.parity \in {"none", "even", "odd", "mark", "space"}
      /\ c.stop \in {"one", "oneAndHalf", "two"}
  BY DEF Configs
<1>2. WireBits(DecodeSerialConfig(c))
        = 1 + (IF c.data = 7 THEN 7 ELSE 8) + (IF c.stop = "two" THEN 2 ELSE 1)
            + (IF HasParity(c) THEN 1 ELSE 0)
  BY <1>1 DEF WireBits, DecodeSerialConfig, HasParity
<1>3. c \in RtuConfigs => /\ c.data = 8 /\ c.stop \in {"one", "two"}
  BY DEF RtuConfigs
<1>4. /\ BitsPerChar(c) \in 10 .. 12
      /\ c \in RtuConfigs =>
           BitsPerChar(c) = 1 + 8 + (IF c.stop = "two" THEN 2 ELSE 1)
                              + (IF HasParity(c) THEN 1 ELSE 0)
  BY <1>3 DEF BitsPerChar
<1>. QED BY <1>1, <1>2, <1>3, <1>4

LEMMA TimesAre ==
  ASSUME NEW b \in Bauds, NEW c \in Configs
  PROVE  /\ CharUs(b, c) \in Nat \ {0}
         /\ CeilDiv(WireBits(DecodeSerialConfig(c)) * Second, b) \in Nat \ {0}
         /\ CharTimeout(b, c) \in Nat /\ FrameTimeout(b, c) \in Nat
         /\ PostDelayUs(b, c) = CharUs(b, c) + 2
<1>1. /\ BitsPerChar(c) \in Nat \ {0} /\ WireBits(DecodeSerialConfig(c)) \in Nat \ {0}
      /\ b \in Nat \ {0}
  BY BitsAre, Sizes
<1>2. \A n \in Nat \ {0} : n * Second \in Nat /\ n * Second > 0
  BY Sizes
<1>3. ASSUME NEW n \in Nat \ {0} PROVE CeilDiv(n * Second, b) \in Nat \ {0}
  <2> DEFINE a == n * Second
  <2>1. a \in Nat /\ a > 0
    BY <1>2
  <2> HIDE DEF a
  <2>2. CeilDiv(a, b) \in Nat /\ (a > 0 => CeilDiv(a, b) > 0)
    BY <1>1, <2>1, CeilDivIs
  <2>. QED BY <2>1, <2>2 DEF a
<1>4. CharUs(b, c) \in Nat \ {0}
  BY <1>1, <1>3 DEF CharUs
<1>5. \A n \in Nat : n \div 2 \in Nat
  OBVIOUS
<1>6. CharTimeout(b, c) \in Nat /\ FrameTimeout(b, c) \in Nat
  BY <1>4, <1>5, Sizes DEF CharTimeout, FrameTimeout
<1>. QED BY <1>1, <1>3, <1>4, <1>6 DEF PostDelayUs

-----------------------------------------------------------------------------
(* Types *)

Typed == TypeOK /\ RegistryInv /\ (pc # "idle" => baud # 0)

\* What the adapter and the driver compute while they send.
LEMMA SendTypes ==
  ASSUME Typed, baud # 0
  PROVE  /\ CommChar \in Nat \ {0} /\ WireChar \in Nat \ {0} /\ T35 \in Nat
         /\ PostDelayUs(baud, config) = CommChar + 2
         /\ Buffered \in Int /\ Room \in Int
<1>1. baud \in Bauds /\ config \in Configs
  BY Sizes DEF Typed, TypeOK
<1>2. /\ CommChar \in Nat \ {0} /\ WireChar \in Nat \ {0} /\ T35 \in Nat
      /\ PostDelayUs(baud, config) = CommChar + 2
  BY <1>1, TimesAre DEF CommChar, WireChar, T35
<1>3. wireUs \in Nat
  BY DEF Typed, TypeOK
<1>4. Buffered \in Int
  <2>1. CeilDiv(wireUs, WireChar) \in Nat
    BY <1>2, <1>3, CeilDivIs
  <2>. QED BY <2>1 DEF Buffered
<1>. QED BY <1>2, <1>4, Sizes DEF Room

LEMMA ElapseTyped ==
  ASSUME Typed, baud # 0, NEW d \in Nat, Elapse(d)
  PROVE  /\ now' \in 0 .. UsWrap - 1 /\ wireUs' \in Nat /\ quietUs' \in Nat
         /\ UNCHANGED <<slots, alive, answer, baud, config>>
<1>1. T35 \in Nat /\ now \in Int /\ wireUs \in Nat /\ quietUs \in Nat
  BY SendTypes DEF Typed, TypeOK
<1>2. now' \in 0 .. UsWrap - 1
  BY <1>1, Sizes DEF Elapse
<1>3. wireUs' \in Nat /\ quietUs' \in Nat
  BY <1>1 DEF Elapse, Larger, Smaller
<1>. QED BY <1>2, <1>3 DEF Elapse, registry, link

LEMMA TypedInit == Init => Typed
<1>1. Init => RegistryInv
  BY RegistryInvInit DEF Init
<1>2. ASSUME Init PROVE TypeOK /\ pc = "idle"
  <2>1. 0 \in 0 .. UsWrap - 1 /\ FALSE \in BOOLEAN
    BY Sizes
  <2>2. RegistryTypeOK
    BY <1>1, <1>2 DEF RegistryInv
  <2>3. sure \in BOOLEAN /\ baud = 0 /\ config \in Formats /\ now = 0 /\ startUs = 0
        /\ waitUs = 0 /\ pc = "idle" /\ left = 0 /\ sent = 0 /\ wireUs = 0 /\ quietUs = 0
        /\ driver = "low"
    BY <1>2 DEF Init
  <2>. QED BY <2>1, <2>2, <2>3 DEF TypeOK
<1>. QED BY <1>1, <1>2 DEF Typed

LEMMA TypedIdle == Typed /\ Administer => Typed'
<1> SUFFICES ASSUME Typed, Administer PROVE Typed'
  OBVIOUS
<1>1. RegistryInv'
  BY RegistryInvNext DEF Administer, Typed
<1>. QED BY <1>1 DEF Typed, TypeOK, RegistryInv, Administer, link, place, wire

\* The registry is left alone.
LEMMA RegistryKept ==
  ASSUME RegistryInv, UNCHANGED <<slots, alive, answer>> PROVE RegistryInv'
BY DEF RegistryInv, RegistryTypeOK, SlotsAreLive, FullIsFull, Used

LEMMA TypedCalls ==
  ASSUME Typed
  PROVE  /\ \A b \in Bauds, c \in Formats : Begin(b, c) => Typed'
         /\ \A n \in Frames, at \in Start : Transmit(n, at) => Typed'
<1>. USE DEF Typed, TypeOK
<1>1. ASSUME NEW b \in Bauds, NEW c \in Formats, Begin(b, c) PROVE Typed'
  BY <1>1, RegistryKept, Sizes DEF Begin, registry, place, wire, RegistryInv
<1>2. ASSUME NEW n \in Frames, NEW at \in Start, Transmit(n, at) PROVE Typed'
  BY <1>2, RegistryKept, Sizes DEF Transmit, registry, link, RegistryInv
<1>. QED BY <1>1, <1>2

LEMMA TypedSteps ==
  ASSUME Typed,
         WriteSome \/ WriteDone \/ FlushDone \/ WaitOver \/ Release \/ Return
  PROVE  Typed'
<1>. USE DEF Typed, TypeOK
<1>1. CASE WriteSome
  <2>1. WireChar \in Nat /\ Room \in Int /\ left \in Nat /\ sent \in Nat /\ wireUs \in Nat
    BY <1>1, SendTypes DEF WriteSome
  <2>2. PICK m \in Nat : /\ m <= left /\ left' = left - m /\ sent' = sent + m
                         /\ wireUs' = wireUs + m * WireChar
    BY <1>1, <2>1 DEF WriteSome, Smaller
  <2>3. left' \in Nat /\ sent' \in Nat /\ wireUs' \in Nat
    BY <2>1, <2>2
  <2>. QED BY <1>1, <2>3, RegistryKept DEF WriteSome, registry, link, RegistryInv
<1>2. CASE WriteDone \/ FlushDone \/ WaitOver \/ Release \/ Return
  <2>1. RegistryInv' /\ baud' = baud /\ config' = config
    BY <1>2, RegistryKept DEF WriteDone, FlushDone, WaitOver, Release, Return, Stand,
         registry, link
  <2>2. 0 \in 0 .. UsWrap - 1 /\ (Buffered = 0) \in BOOLEAN
    BY Sizes
  <2>3. CASE WriteDone \/ Release
    BY <2>1, <2>3 DEF WriteDone, Release, Stand, wire, RegistryInv
  <2>4. CASE FlushDone \/ WaitOver
    BY <2>1, <2>2, <2>4 DEF FlushDone, WaitOver, Stand, wire, RegistryInv
  <2>5. CASE Return
    <3>1. sure' \in BOOLEAN
      BY <2>5 DEF Return
    <3>. QED BY <2>1, <2>2, <2>5, <3>1 DEF Return, RegistryInv
  <2>. QED BY <1>2, <2>3, <2>4, <2>5
<1>. QED BY <1>1, <1>2

LEMMA TypedLookup ==
  ASSUME Typed, NEW d \in 0 .. Lag, Lookup(d)
  PROVE  Typed'
<1>1. baud # 0 /\ d \in Nat /\ sent \in Nat
  BY Sizes DEF Typed, TypeOK, Lookup
<1>2. /\ now' \in 0 .. UsWrap - 1 /\ wireUs' \in Nat /\ quietUs' \in Nat
      /\ UNCHANGED <<slots, alive, answer, baud, config>>
  BY <1>1, ElapseTyped DEF Lookup
<1>3. RegistryInv'
  BY <1>2, RegistryKept DEF Typed
<1>4. waitUs' \in 0 .. UsWrap - 1
  <2>1. (sent + 1) * CommChar \in Nat
    BY <1>1, SendTypes
  <2>. QED BY <2>1, Sizes DEF Lookup, Estimate, Smaller
<1>5. startUs' = now' /\ sure' \in BOOLEAN /\ pc' \in {"delay", "wait", "flush"}
      /\ UNCHANGED <<left, sent, driver>>
  BY DEF Lookup
<1>. QED BY <1>1, <1>2, <1>3, <1>4, <1>5 DEF Typed, TypeOK, RegistryInv

LEMMA PauseIs == ASSUME Typed PROVE PauseUs \in 1 .. SleepUs
<1>1. waitUs - Since(startUs) \in Int
  BY Sizes DEF Typed, TypeOK, Since
<1>2. RemainingUs \in Nat
  BY <1>1, Sizes DEF RemainingUs
<1>. QED BY <1>2, Sizes DEF PauseUs

LEMMA TypedWaits ==
  ASSUME Typed, NEW d \in 0 .. Lag,
         WriteStall(d) \/ FlushWait(d) \/ WaitAgain(d) \/ WaitPause(d) \/ Delay(d)
  PROVE  Typed'
<1>1. baud # 0 /\ d \in Nat
  BY Sizes DEF Typed, WriteStall, FlushWait, WaitAgain, WaitPause, Delay
<1>2. PICK e \in Nat : Elapse(e)
  <2>1. PauseUs + d \in Nat /\ PostDelayUs(baud, config) + d \in Nat
    BY <1>1, PauseIs, SendTypes, Sizes
  <2>. QED BY <1>1, <2>1 DEF WriteStall, FlushWait, WaitAgain, WaitPause, Delay
<1>3. /\ now' \in 0 .. UsWrap - 1 /\ wireUs' \in Nat /\ quietUs' \in Nat
      /\ UNCHANGED <<slots, alive, answer, baud, config>>
  BY <1>1, <1>2, ElapseTyped
<1>4. RegistryInv'
  BY <1>3, RegistryKept DEF Typed
<1>5. /\ UNCHANGED <<left, sent, startUs, waitUs, sure, driver>>
      /\ pc' \in {"write", "flush", "pause", "wait", "release"}
  BY DEF WriteStall, FlushWait, WaitAgain, WaitPause, Delay, place
<1>. QED BY <1>1, <1>3, <1>4, <1>5 DEF Typed, TypeOK, RegistryInv

LEMMA TypedNext == Typed /\ [Next]_vars => Typed'
<1> SUFFICES ASSUME Typed, [Next]_vars PROVE Typed'
  OBVIOUS
<1>1. CASE UNCHANGED vars
  BY <1>1, RegistryKept DEF vars, registry, link, place, wire, Typed, TypeOK, RegistryInv
<1>2. CASE Administer
  BY <1>2, TypedIdle
<1>3. CASE \/ \E b \in Bauds, c \in Formats : Begin(b, c)
           \/ \E n \in Frames, at \in Start : Transmit(n, at)
  BY <1>3, TypedCalls
<1>4. CASE WriteSome \/ WriteDone \/ FlushDone \/ WaitOver \/ Release \/ Return
  BY <1>4, TypedSteps
<1>5. ASSUME NEW d \in 0 .. Lag,
             WriteStall(d) \/ FlushWait(d) \/ WaitAgain(d) \/ WaitPause(d) \/ Delay(d)
      PROVE  Typed'
  BY <1>5, TypedWaits
<1>6. CASE \E d \in 0 .. Lag : Lookup(d)
  BY <1>6, TypedLookup
<1>. QED BY <1>1, <1>2, <1>3, <1>4, <1>5, <1>6, Sizes DEF Next

\* The driver and the adapter keep their types, at every rate, in every format and for every
\* length of a frame.
THEOREM SerialTypeCorrect == Spec => []TypeOK
<1>1. Typed => TypeOK
  BY DEF Typed
<1>. QED BY <1>1, TypedInit, TypedNext, PTL DEF Spec

-----------------------------------------------------------------------------
(* The envelope of begin() *)

LEMMA EnvelopeHolds ==
  ASSUME NEW b \in Bauds, NEW c \in RtuConfigs
  PROVE  MaxFrameReceiveUs(b, c) >=
           Smaller(MaxEnvelope,
                   LongestFrame * CeilDiv(WireBits(DecodeSerialConfig(c)) * Second, b)
                     + (LongestFrame - 1) * CharTimeout(b, c))
<1> DEFINE x == CeilDiv(WireBits(DecodeSerialConfig(c)) * Second, b)
           y == CeilDiv(BudgetBits(c) * Second, b)
           pauses == (LongestFrame - 1) * CharTimeout(b, c)
<1>1. c \in Configs
  BY DEF RtuConfigs
<1>2. /\ WireBits(DecodeSerialConfig(c)) \in Nat /\ BudgetBits(c) \in Nat
      /\ WireBits(DecodeSerialConfig(c)) <= BudgetBits(c)
  BY <1>1, BitsAre DEF BudgetBits, Larger
<1>3. \A m, n \in Nat : m <= n => /\ m * Second \in Nat /\ n * Second \in Nat
                                 /\ m * Second <= n * Second
  BY Sizes
<1>4. x \in Nat /\ y \in Nat /\ x <= y
  <2>1. b \in Nat \ {0}
    BY Sizes
  <2>2. \A m, n \in Nat : m <= n => CeilDiv(m, b) \in Nat /\ CeilDiv(n, b) \in Nat
                                    /\ CeilDiv(m, b) <= CeilDiv(n, b)
    BY <2>1, CeilDivOrder, CeilDivIs
  <2>. QED BY <1>2, <1>3, <2>2
<1>5. CharTimeout(b, c) \in Nat /\ FrameTimeout(b, c) \in Nat
  BY <1>1, TimesAre
<1>6. pauses \in Nat
  BY <1>5, Sizes
<1>7. MaxFrameReceiveUs(b, c) = Smaller(MaxEnvelope, LongestFrame * y + pauses + FrameTimeout(b, c))
  BY DEF MaxFrameReceiveUs
<1> HIDE DEF x, y, pauses
<1>8. LongestFrame * x \in Nat /\ LongestFrame * y \in Nat /\ LongestFrame * x <= LongestFrame * y
  BY <1>4, Sizes
<1>9. Smaller(MaxEnvelope, LongestFrame * y + pauses + FrameTimeout(b, c))
        >= Smaller(MaxEnvelope, LongestFrame * x + pauses)
  <2> DEFINE p == LongestFrame * x
             q == LongestFrame * y
  <2> HIDE DEF p, q
  <2>1. p \in Nat /\ q \in Nat /\ p <= q
    BY <1>8 DEF p, q
  <2>2. Smaller(MaxEnvelope, q + pauses + FrameTimeout(b, c)) >= Smaller(MaxEnvelope, p + pauses)
    BY <1>5, <1>6, <2>1, Sizes DEF Smaller
  <2>. QED BY <2>2 DEF p, q
<1>. QED BY <1>7, <1>9 DEF x, pauses

\* The two tables of formats agree and the envelope holds the longest legal frame, at
\* every rate, with fixed timers or without (cpp:129-143 and 169-184).
THEOREM SerialLinkAgrees == Spec => []LinkAgrees
<1>1. ASSUME Typed PROVE LinkAgrees
  <2> SUFFICES ASSUME baud # 0, config \in RtuConfigs
               PROVE  /\ BitsPerChar(config) = WireBits(DecodeSerialConfig(config))
                      /\ MaxFrameReceiveUs(baud, config) >=
                           Smaller(MaxEnvelope, LongestFrame * WireChar
                                     + (LongestFrame - 1) * CharTimeout(baud, config))
    BY DEF LinkAgrees
  <2>1. baud \in Bauds /\ config \in Configs
    BY <1>1 DEF Typed, TypeOK, RtuConfigs
  <2>. QED BY <2>1, BitsAre, EnvelopeHolds DEF WireChar
<1>. QED BY <1>1, TypedInit, TypedNext, PTL DEF Spec

-----------------------------------------------------------------------------
(* The wait for the bytes to leave *)

\* The loop began e ago, at most a preemption after the last byte was accepted.  What is on
\* the wire by then is gone, and a frame that fits the buffer has left as soon as the wire can
\* send it.
Waiting(e) ==
  /\ now = (startUs + e) % UsWrap
  /\ wireUs = 0 \/ wireUs + e <= sent * WireChar
  /\ Fits => quietUs + sent * WireChar <= e + Lag + wireUs
  /\ e < waitUs + (IF pc = "wait" THEN SleepUs + 2 * Lag ELSE Lag)

Paced ==
  /\ pc = "idle" => ~sure /\ wireUs = 0
  /\ sure => pc \in {"delay", "release", "low"}
  /\ driver = "low" => pc \in {"idle", "low"}
  /\ pc # "idle" => left + sent \in Frames
  /\ wireUs # 0 => quietUs = 0
  /\ pc \in {"write", "lookup"} =>
       /\ wireUs <= sent * WireChar
       /\ left + sent <= TxRoom + 1 => quietUs = 0 /\ wireUs = sent * WireChar
  /\ pc = "flush" /\ Fits => quietUs <= Lag
  /\ pc \in {"wait", "pause"} => /\ waitUs = (sent + 1) * CommChar
                                 /\ \E e \in Nat : Waiting(e)
  /\ pc = "delay" /\ sure => /\ wireUs <= WireChar
                             /\ Fits => quietUs < CommChar + SleepUs + 3 * Lag
  /\ pc \in {"release", "low"} /\ sure =>
       /\ wireUs = 0
       /\ Fits => quietUs <= 2 * CommChar + SleepUs + 4 * Lag + 1

PInv == Typed /\ Paced

\* What the driver computes by, and what is true of the wire.
LEMMA SameChar ==
  ASSUME Legal, Typed, baud # 0
  PROVE  CommChar = WireChar
<1>1. config \in RtuConfigs /\ config \in Configs
  BY DEF Legal, Typed, TypeOK, RtuConfigs
<1>. QED BY <1>1, BitsAre DEF CommChar, WireChar, CharUs

\* All characters but the one in the shift register are in the buffer.
LEMMA BufferedIs ==
  ASSUME Typed, baud # 0
  PROVE  /\ Buffered = 0 => wireUs <= WireChar
         /\ \A n \in Nat \ {0} : wireUs = n * WireChar => Buffered = n - 1
<1>1. WireChar \in Nat \ {0} /\ wireUs \in Nat
  BY SendTypes DEF Typed, TypeOK
<1> DEFINE W == WireChar
           q == CeilDiv(wireUs, W)
<1>2. q \in Nat /\ W * q >= wireUs
  BY <1>1, CeilDivIs
<1>3. Buffered = 0 => wireUs <= W
  <2>1. Buffered = IF wireUs = 0 THEN 0 ELSE q - 1
    BY DEF Buffered
  <2> HIDE DEF q
  <2>2. q = 1 => W * q = W
    BY <1>1
  <2>. QED BY <1>1, <1>2, <2>1, <2>2
<1>4. ASSUME NEW n \in Nat \ {0}, wireUs = n * W PROVE Buffered = n - 1
  <2>1. wireUs # 0
    BY <1>1, <1>4
  <2> HIDE DEF W
  <2>2. /\ n * W + W - 1 \in Int /\ W \in Nat \ {0} /\ n \in Int /\ W - 1 \in 0 .. W - 1
        /\ n * W + W - 1 = W * n + (W - 1)
    BY <1>1 DEF W
  <2>3. (n * W + W - 1) \div W = n
    BY <2>2, DivIs
  <2>. QED BY <1>4, <2>1, <2>3 DEF Buffered, CeilDiv, W
<1>. QED BY <1>3, <1>4

\* Time that goes by empties the wire, and only then is it silence.
LEMMA ElapseIs ==
  ASSUME Typed, baud # 0, NEW d \in Nat, Elapse(d)
  PROVE  /\ now' = (now + d) % UsWrap
         /\ wireUs' = IF wireUs > d THEN wireUs - d ELSE 0
         /\ wireUs > d => quietUs' = 0
         /\ wireUs <= d => quietUs' <= quietUs + d - wireUs
         /\ WireChar' = WireChar /\ CommChar' = CommChar /\ baud' = baud
<1>1. T35 \in Nat /\ now \in Int /\ wireUs \in Nat /\ quietUs \in Nat
  BY SendTypes DEF Typed, TypeOK
<1>2. baud' = baud /\ config' = config
  BY DEF Elapse, link
<1>. QED BY <1>1, <1>2 DEF Elapse, Larger, Smaller, WireChar, CommChar

LEMMA PacedInit == Init => Paced
BY DEF Init, Paced

\* Between two transmissions, and the first and last step of one.
LEMMA PacedEnds ==
  ASSUME PInv,
         \/ Administer \/ Return \/ Release \/ UNCHANGED vars
         \/ \E b \in Bauds, c \in Formats : Begin(b, c)
         \/ \E n \in Frames, at \in Start : Transmit(n, at)
  PROVE  Paced'
<1>. USE DEF PInv
<1>1. CASE Administer \/ \E b \in Bauds, c \in Formats : Begin(b, c)
  BY <1>1 DEF Administer, Begin, Paced, place, wire
<1>2. CASE \E n \in Frames, at \in Start : Transmit(n, at)
  <2>1. PICK n \in Frames, at \in Start : Transmit(n, at)
    BY <1>2
  <2>2. WireChar' = WireChar /\ WireChar \in Nat /\ 0 * WireChar = 0
    <3>1. baud' = baud /\ config' = config /\ baud # 0
      BY <2>1 DEF Transmit, link
    <3>2. WireChar \in Nat
      BY <3>1, SendTypes
    <3>. QED BY <3>1, <3>2 DEF WireChar
  <2>3. n + 0 = n
    BY Sizes
  <2>. QED BY <2>1, <2>2, <2>3 DEF Transmit, Paced
<1>3. CASE Return
  BY <1>3 DEF Return, Paced
<1>4. CASE Release
  <2>1. WireChar' = WireChar /\ CommChar' = CommChar
    BY <1>4 DEF Release, Stand, link, WireChar, CommChar
  <2>2. Fits' <=> Fits
    BY <1>4 DEF Release, Fits
  <2>. QED BY <1>4, <2>1, <2>2 DEF Release, Stand, Paced, wire
<1>5. CASE UNCHANGED vars
  <2>1. WireChar' = WireChar /\ CommChar' = CommChar /\ (Fits' <=> Fits)
    BY <1>5 DEF vars, link, place, WireChar, CommChar, Fits
  <2>2. \A e \in Nat : Waiting(e) => Waiting(e)'
    BY <1>5, <2>1 DEF vars, place, wire, Waiting
  <2>. QED BY <1>5, <2>1, <2>2 DEF vars, place, wire, Paced
<1>. QED BY <1>1, <1>2, <1>3, <1>4, <1>5

\* Writing: a frame the buffer can hold finds room for every byte at once.
LEMMA PacedWrite ==
  ASSUME PInv, Legal, NEW d \in 1 .. Lag, WriteSome \/ WriteStall(d) \/ WriteDone
  PROVE  Paced'
<1>. USE DEF PInv
<1>1. pc = "write" /\ baud # 0 /\ ~sure
  BY DEF WriteSome, WriteStall, WriteDone, Typed, Paced
<1>2. /\ WireChar \in Nat \ {0} /\ Room \in Int /\ left \in Nat /\ sent \in Nat /\ wireUs \in Nat
      /\ quietUs \in Nat /\ TxRoom \in Nat \ {0} /\ left + sent \in Frames
  BY <1>1, SendTypes, Sizes DEF Typed, TypeOK, Paced
<1>3. /\ wireUs <= sent * WireChar
      /\ left + sent <= TxRoom + 1 => quietUs = 0 /\ wireUs = sent * WireChar
  BY <1>1 DEF Paced
<1>4. left + sent <= TxRoom + 1 /\ left > 0 => Room > 0
  <2>1. CASE sent = 0
    <3>1. sent * WireChar = 0
      BY <1>2, <2>1
    <3>. QED BY <1>2, <1>3, <2>1, <3>1 DEF Room, Buffered
  <2>2. CASE sent # 0
    <3>1. wireUs = sent * WireChar => Buffered = sent - 1
      BY <1>1, <1>2, <2>2, BufferedIs
    <3>. QED BY <1>2, <1>3, <3>1 DEF Room
  <2>. QED BY <2>1, <2>2
<1>5. WireChar' = WireChar
  BY <1>1 DEF WriteSome, WriteStall, WriteDone, Stand, Elapse, link, WireChar
<1>6. CASE WriteSome
  <2>1. PICK m \in Nat : /\ m <= left /\ left' = left - m /\ sent' = sent + m
                         /\ wireUs' = wireUs + m * WireChar
    BY <1>2, <1>6 DEF WriteSome, Smaller
  <2>2. left' + sent' = left + sent
    BY <1>2, <2>1
  <2>3. /\ wireUs' <= sent' * WireChar
        /\ wireUs = sent * WireChar => wireUs' = sent' * WireChar
    <3>1. (sent + m) * WireChar = sent * WireChar + m * WireChar
      BY <1>2
    <3>2. sent * WireChar \in Nat /\ m * WireChar \in Nat
      BY <1>2
    <3>. QED BY <1>2, <1>3, <2>1, <3>1, <3>2
  <2>. QED BY <1>1, <1>2, <1>3, <1>5, <1>6, <2>2, <2>3 DEF WriteSome, Paced
<1>7. CASE WriteStall(d)
  <2>1. ~ (left + sent <= TxRoom + 1)
    BY <1>2, <1>4, <1>7 DEF WriteStall
  <2>2. d \in Nat /\ Elapse(d) /\ d > 0
    BY <1>7, Sizes DEF WriteStall
  <2>3. /\ wireUs' = IF wireUs > d THEN wireUs - d ELSE 0
        /\ wireUs > d => quietUs' = 0
    BY <1>1, <2>2, ElapseIs
  <2>4. wireUs' <= sent * WireChar
    <3>1. sent * WireChar \in Nat
      BY <1>2
    <3>. QED BY <1>2, <1>3, <2>2, <2>3, <3>1
  <2>. QED BY <1>1, <1>2, <1>5, <1>7, <2>1, <2>2, <2>3, <2>4 DEF WriteStall, place, Paced
<1>8. CASE WriteDone
  BY <1>1, <1>2, <1>3, <1>5, <1>8 DEF WriteDone, Stand, wire, Paced
<1>. QED BY <1>6, <1>7, <1>8

\* The clock of the wait starts at most a preemption after the last byte was accepted.
LEMMA PacedLookup ==
  ASSUME PInv, Legal, NEW d \in 0 .. Lag, Lookup(d)
  PROVE  Paced'
<1>. USE DEF PInv
<1>1. /\ pc = "lookup" /\ baud # 0 /\ ~sure /\ sent' = sent /\ left' = left
      /\ startUs' = now' /\ driver' = driver /\ driver # "low" /\ Elapse(d)
      /\ d \in Nat /\ d <= Lag
  BY Sizes DEF Lookup, Typed, TypeOK, Paced
<1>2. /\ WireChar \in Nat \ {0} /\ left \in Nat /\ sent \in Nat /\ wireUs \in Nat
      /\ quietUs \in Nat /\ left + sent \in Frames /\ CommChar = WireChar
  BY <1>1, SendTypes, SameChar DEF Typed, TypeOK, Paced
<1>3. /\ wireUs <= sent * WireChar
      /\ left + sent <= TxRoom + 1 => quietUs = 0 /\ wireUs = sent * WireChar
  BY <1>1 DEF Paced
<1>4. WireChar' = WireChar /\ CommChar' = CommChar /\ (Fits' <=> Fits)
  BY <1>1, ElapseIs DEF Fits
<1>5. Fits => quietUs = 0 /\ wireUs = sent * WireChar
  BY <1>2, <1>3 DEF Fits
<1> DEFINE W == sent * WireChar
<1>6. W \in Nat /\ W' = W
  BY <1>1, <1>2, <1>4
<1>7. /\ wireUs' = IF wireUs > d THEN wireUs - d ELSE 0
      /\ wireUs > d => quietUs' = 0
      /\ wireUs <= d => quietUs' <= quietUs + d - wireUs
  BY <1>1, ElapseIs
<1>8. now' \in 0 .. UsWrap - 1 /\ wireUs' \in Nat /\ quietUs' \in Nat
  BY <1>1, ElapseTyped
<1>9. wireUs' <= W /\ (wireUs' # 0 => quietUs' = 0)
  <2> HIDE DEF W
  <2>1. wireUs <= W
    BY <1>3 DEF W
  <2>. QED BY <1>1, <1>2, <1>6, <1>7, <2>1
<1>10. Fits => quietUs' <= Lag /\ quietUs' + W <= Lag + wireUs'
  <2> HIDE DEF W
  <2>1. Fits => quietUs = 0 /\ wireUs = W
    BY <1>5 DEF W
  <2>2. CASE wireUs > d
    BY <1>1, <1>2, <1>6, <1>7, <2>1, <2>2, Sizes
  <2>3. CASE wireUs <= d
    <3>1. wireUs' = 0 /\ quietUs' <= quietUs + d - wireUs
      BY <1>1, <1>2, <1>7, <2>3
    <3>2. Fits => quietUs' <= d - W
      BY <1>2, <1>6, <1>8, <2>1, <3>1
    <3>3. W \in Nat /\ quietUs' \in Nat /\ d \in Nat /\ d <= Lag /\ Lag \in Nat
      BY <1>1, <1>6, <1>8, Sizes
    <3>4. \A q, w, c, m \in Nat : q <= c - w /\ c <= m => q <= m /\ q + w <= m + 0
      OBVIOUS
    <3>. QED BY <3>1, <3>2, <3>3, <3>4
  <2>. QED BY <1>1, <1>2, <2>2, <2>3
<1>11. CASE pc' = "delay"
  <2>1. sent = 0
    BY <1>11 DEF Lookup
  <2>2. wireUs' = 0 /\ ~ Fits
    <3>1. 0 * WireChar = 0
      BY <1>2
    <3>. QED BY <1>2, <1>8, <1>9, <2>1, <3>1, Sizes DEF Fits
  <2>. QED BY <1>1, <1>2, <1>4, <1>11, <2>2 DEF Paced
<1>12. CASE pc' = "flush"
  <2>1. ~ sure'
    BY <1>12 DEF Lookup
  <2>. QED BY <1>1, <1>2, <1>4, <1>9, <1>10, <1>12, <2>1 DEF Paced
<1>13. CASE pc' = "wait"
  <2>1. ~ sure' /\ waitUs' = Estimate
    BY <1>13 DEF Lookup
  <2>2. (sent + 1) * CommChar < UsWrap
    <3> DEFINE n == left + sent
    <3>1. (n + 1) * CommChar + SleepUs + 2 * Lag <= UsWrap
      BY <1>1, <1>2 DEF Legal, InClock, CommChar, Typed, TypeOK
    <3>2. (sent + 1) * CommChar <= (n + 1) * CommChar
      <4>1. sent + 1 \in Nat /\ n + 1 \in Nat /\ sent + 1 <= n + 1 /\ CommChar \in Nat
        BY <1>2
      <4>. QED BY <4>1
    <3>3. (sent + 1) * CommChar \in Nat /\ (n + 1) * CommChar \in Nat
      BY <1>2
    <3> HIDE DEF n
    <3>. QED BY <3>1, <3>2, <3>3, Sizes
  <2>3. waitUs' = (sent + 1) * CommChar /\ waitUs' \in Nat
    <3>1. (sent + 1) * CommChar \in Nat
      BY <1>2
    <3>. QED BY <2>1, <2>2, <3>1, Sizes DEF Estimate, Smaller
  <2>4. Waiting(0)'
    <3>1. now' = (now' + 0) % UsWrap
      <4>1. \A x \in 0 .. UsWrap - 1 : x = (x + 0) % UsWrap
        BY Sizes
      <4>. QED BY <1>8, <4>1
    <3>2. wireUs' = 0 \/ wireUs' + 0 <= W
      BY <1>8, <1>9
    <3>3. Fits => quietUs' + W <= 0 + Lag + wireUs'
      BY <1>10, Sizes
    <3>4. 0 < waitUs' + (SleepUs + 2 * Lag)
      BY <2>3, Sizes
    <3>. QED BY <1>1, <1>4, <1>6, <1>13, <3>1, <3>2, <3>3, <3>4 DEF Waiting
  <2>. QED BY <1>1, <1>2, <1>4, <1>9, <1>13, <2>1, <2>3, <2>4 DEF Paced
<1>. QED BY <1>11, <1>12, <1>13 DEF Lookup

LEMMA PacedFlush ==
  ASSUME PInv, Legal, NEW d \in 1 .. Lag, FlushWait(d) \/ FlushDone
  PROVE  Paced'
<1>. USE DEF PInv
<1>1. pc = "flush" /\ baud # 0 /\ ~sure /\ left' = left /\ sent' = sent /\ driver' = driver
      /\ driver # "low" /\ left + sent \in Frames
  BY DEF FlushWait, FlushDone, place, Typed, TypeOK, Paced
<1>2. /\ WireChar \in Nat \ {0} /\ wireUs \in Nat /\ quietUs \in Nat /\ CommChar = WireChar
      /\ d \in Nat /\ d <= Lag
  BY <1>1, SendTypes, SameChar, Sizes DEF Typed, TypeOK
<1>3. (Fits' <=> Fits) /\ (Fits => quietUs <= Lag) /\ (wireUs # 0 => quietUs = 0)
  BY <1>1 DEF Fits, Paced
<1>4. CASE FlushWait(d)
  <2>1. wireUs # 0
    BY <1>4 DEF FlushWait, Buffered
  <2>2. Elapse(d) /\ pc' = pc /\ sure' = sure
    BY <1>4 DEF FlushWait, place
  <2>3. /\ wireUs' = IF wireUs > d THEN wireUs - d ELSE 0
        /\ wireUs > d => quietUs' = 0
        /\ wireUs <= d => quietUs' <= quietUs + d - wireUs
    BY <1>1, <1>2, <2>2, ElapseIs
  <2>4. quietUs' \in Nat
    BY <1>1, <1>2, <2>2, ElapseTyped
  <2>5. quietUs' <= Lag /\ (wireUs' # 0 => quietUs' = 0)
    BY <1>2, <1>3, <2>1, <2>3, <2>4, Sizes
  <2>. QED BY <1>1, <2>2, <2>5 DEF Paced
<1>5. CASE FlushDone
  <2>1. pc' = "delay" /\ wireUs' = wireUs /\ quietUs' = quietUs /\ (sure' => Buffered = 0)
        /\ WireChar' = WireChar /\ CommChar' = CommChar
    BY <1>5 DEF FlushDone, Stand, wire, link, WireChar, CommChar
  <2>2. sure' => wireUs <= WireChar
    BY <1>1, <2>1, BufferedIs
  <2>3. Fits => quietUs < CommChar + SleepUs + 3 * Lag
    BY <1>2, <1>3, Sizes
  <2>. QED BY <1>1, <1>3, <2>1, <2>2, <2>3 DEF Paced
<1>. QED BY <1>4, <1>5

\* Readings of micros() during the loop.
LEMMA ReadingIs ==
  ASSUME Typed, NEW e \in Nat, now = (startUs + e) % UsWrap
  PROVE  /\ Since(startUs) \in Nat /\ Since(startUs) <= e
         /\ e < UsWrap => Since(startUs) = e
         /\ \A d \in Nat : (now + d) % UsWrap = (startUs + (e + d)) % UsWrap
<1>0. UsWrap \in Nat \ {0} /\ startUs \in Int /\ startUs \in 0 .. UsWrap - 1
  BY Sizes DEF Typed, TypeOK
<1> DEFINE q == (startUs + e) \div UsWrap
<1>1. q \in Int /\ now \in Int /\ startUs + e = UsWrap * q + now
  BY <1>0, ModRange
<1> HIDE DEF q
<1>2. Since(startUs) = e % UsWrap
  <2>1. now - startUs = e + UsWrap * (-q) /\ -q \in Int /\ e \in Int
    <3>1. PICK k \in Int : k = UsWrap * q /\ UsWrap * (-q) = -k
      BY <1>0, <1>1
    <3>2. startUs + e = k + now
      BY <1>1, <3>1
    <3>3. startUs \in Int /\ now \in Int /\ e \in Int /\ k \in Int /\ -q \in Int
      BY <1>0, <1>1
    <3>4. now - startUs = e + (-k) /\ -q \in Int /\ e \in Int
      BY ONLY <3>2, <3>3
    <3>. QED BY <3>1, <3>4
  <2>2. (e + UsWrap * (-q)) % UsWrap = e % UsWrap
    BY <1>0, <2>1, ModMore
  <2>. QED BY <2>1, <2>2 DEF Since
<1>3. e % UsWrap \in Nat /\ e % UsWrap <= e /\ (e < UsWrap => e % UsWrap = e)
  BY <1>0
<1>4. ASSUME NEW d \in Nat PROVE (now + d) % UsWrap = (startUs + (e + d)) % UsWrap
  <2>1. startUs + (e + d) = (now + d) + UsWrap * q /\ now + d \in Int
    <3>1. PICK k \in Int : k = UsWrap * q
      BY <1>0, <1>1
    <3>2. startUs + e = k + now
      BY <1>1, <3>1
    <3>3. startUs \in Int /\ now \in Int /\ e \in Int /\ d \in Int /\ k \in Int
      BY <1>0, <1>1
    <3>4. startUs + (e + d) = (now + d) + k /\ now + d \in Int
      BY ONLY <3>2, <3>3
    <3>. QED BY <3>1, <3>4
  <2>2. ((now + d) + UsWrap * q) % UsWrap = (now + d) % UsWrap
    BY <1>0, <1>1, <2>1, ModMore
  <2>. QED BY <2>1, <2>2
<1>. QED BY <1>2, <1>3, <1>4

\* Silence is what is left of the time when the wire is empty.
LEMMA Balance ==
  \A q, r, w, x, e, d, m \in Int :
    q + x <= e + m + w /\ r <= q + d - w => r + x <= e + d + m
OBVIOUS

\* Time that goes by in the loop.
LEMMA WaitingGoes ==
  ASSUME PInv, baud # 0, NEW e \in Nat, Waiting(e), NEW d \in Nat, Elapse(d),
         UNCHANGED <<left, sent, startUs, waitUs>>,
         e + d < waitUs + (IF pc' = "wait" THEN SleepUs + 2 * Lag ELSE Lag)
  PROVE  Waiting(e + d)' /\ (wireUs' # 0 => quietUs' = 0)
<1>. USE DEF PInv
<1>1. /\ WireChar \in Nat \ {0} /\ sent \in Nat /\ wireUs \in Nat /\ quietUs \in Nat
  BY SendTypes DEF Typed, TypeOK
<1>2. /\ now' = (now + d) % UsWrap
      /\ wireUs' = IF wireUs > d THEN wireUs - d ELSE 0
      /\ wireUs > d => quietUs' = 0
      /\ wireUs <= d => quietUs' <= quietUs + d - wireUs
      /\ WireChar' = WireChar
  BY ElapseIs
<1>3. wireUs' \in Nat /\ quietUs' \in Nat
  BY ElapseTyped
<1>4. now' = (startUs + (e + d)) % UsWrap
  BY <1>2, ReadingIs DEF Waiting
<1> DEFINE W == sent * WireChar
<1>5. W \in Nat /\ W' = W
  BY <1>1, <1>2
<1>6. (wireUs = 0 \/ wireUs + e <= W) /\ (Fits => quietUs + W <= e + Lag + wireUs)
      /\ (wireUs # 0 => quietUs = 0)
  BY DEF Waiting, Paced
<1>7. Fits' <=> Fits
  BY DEF Fits
<1> HIDE DEF W
<1>8. wireUs' = 0 \/ wireUs' + (e + d) <= W
  BY <1>1, <1>2, <1>5, <1>6
<1>9. Fits => quietUs' + W <= (e + d) + Lag + wireUs'
  <2>1. CASE wireUs > d
    BY <1>1, <1>2, <1>3, <1>5, <1>6, <2>1, Sizes
  <2>2. CASE wireUs <= d
    <3>1. wireUs' = 0 /\ quietUs' <= quietUs + d - wireUs
      BY <1>1, <1>2, <2>2
    <3>2. ASSUME Fits PROVE quietUs + W <= e + Lag + wireUs
      BY <1>6, <3>2
    <3>3. /\ W \in Int /\ quietUs \in Int /\ wireUs \in Int /\ quietUs' \in Int /\ e \in Int
          /\ d \in Int /\ Lag \in Int
      BY <1>1, <1>3, <1>5, Sizes
    <3>4. quietUs + W <= e + Lag + wireUs => quietUs' + W <= e + d + Lag
      BY <3>1, <3>3, Balance, Zenon
    <3>5. e + d + Lag = (e + d) + Lag + wireUs'
      BY <3>1, <3>3
    <3>. QED BY <3>2, <3>4, <3>5
  <2>. QED BY <1>1, <2>1, <2>2
<1>10. wireUs' # 0 => quietUs' = 0
  BY <1>1, <1>2
<1>11. sent' * WireChar' = W
  BY <1>2 DEF W
<1>. QED BY <1>4, <1>7, <1>8, <1>9, <1>10, <1>11 DEF Waiting

\* The loop stops no sooner than the estimate, and looks at the clock often enough to stop
\* a sleep and two preemptions after it.
LEMMA PacedWait ==
  ASSUME PInv, Legal, NEW d \in 0 .. Lag, WaitOver \/ WaitAgain(d) \/ WaitPause(d)
  PROVE  Paced'
<1>. USE DEF PInv
<1>1. /\ pc \in {"wait", "pause"} /\ baud # 0 /\ ~sure /\ left' = left /\ sent' = sent
      /\ driver' = driver /\ driver # "low" /\ left + sent \in Frames /\ startUs' = startUs
      /\ waitUs = (sent + 1) * CommChar
  BY DEF WaitOver, WaitAgain, WaitPause, Typed, TypeOK, Paced
<1>2. /\ WireChar \in Nat \ {0} /\ wireUs \in Nat /\ quietUs \in Nat /\ CommChar = WireChar
      /\ sent \in Nat /\ left \in Nat /\ waitUs \in Nat /\ d \in Nat /\ d <= Lag
  BY <1>1, SendTypes, SameChar, Sizes DEF Typed, TypeOK
<1>3. PICK e \in Nat : Waiting(e)
  BY <1>1 DEF Paced
<1>4. waitUs = sent * WireChar + WireChar
  BY <1>1, <1>2
<1>5. (Fits' <=> Fits) /\ WireChar' = WireChar /\ CommChar' = CommChar
  BY <1>1 DEF Fits, WaitOver, WaitAgain, WaitPause, Stand, Elapse, link, WireChar, CommChar
<1> DEFINE W == sent * WireChar
<1>6. W \in Nat
  BY <1>2
<1>7. CASE WaitOver
  <2>1. waitUs <= e
    <3>1. Since(startUs) >= waitUs
      BY <1>7 DEF WaitOver
    <3>2. Since(startUs) \in Nat /\ Since(startUs) <= e
      BY <1>3, ReadingIs DEF Waiting
    <3>. QED BY <1>2, <3>1, <3>2
  <2>2. (wireUs = 0 \/ wireUs + e <= W) /\ (Fits => quietUs + W <= e + Lag + wireUs)
        /\ e < waitUs + (SleepUs + 2 * Lag) /\ waitUs = W + WireChar
    BY <1>3, <1>4, <1>7 DEF Waiting, WaitOver
  <2> HIDE DEF W
  <2>3. wireUs = 0 /\ (Fits => quietUs < CommChar + SleepUs + 3 * Lag)
    BY <1>2, <1>6, <2>1, <2>2, Sizes
  <2>4. pc' = "delay" /\ wireUs' = wireUs /\ quietUs' = quietUs
    BY <1>7 DEF WaitOver, Stand, wire
  <2>5. 0 <= WireChar
    BY <1>2
  <2>. QED BY <1>1, <1>5, <2>3, <2>4, <2>5 DEF Paced
<1>8. CASE WaitAgain(d)
  <2>1. e < UsWrap
    <3> DEFINE n == left + sent
    <3>1. (n + 1) * CommChar + SleepUs + 2 * Lag <= UsWrap
      BY <1>1 DEF Legal, InClock, CommChar, Typed, TypeOK
    <3>2. (sent + 1) * CommChar <= (n + 1) * CommChar
      <4>1. sent + 1 \in Nat /\ n + 1 \in Nat /\ sent + 1 <= n + 1 /\ CommChar \in Nat
        BY <1>2
      <4>. QED BY <4>1
    <3>3. (n + 1) * CommChar \in Nat
      BY <1>2
    <3>4. e < waitUs + (SleepUs + 2 * Lag)
      BY <1>3, <1>8 DEF Waiting, WaitAgain
    <3>5. waitUs <= (n + 1) * CommChar
      BY <1>1, <3>2
    <3> HIDE DEF n
    <3>. QED BY <1>2, <3>1, <3>3, <3>4, <3>5, Sizes
  <2>2. e < waitUs
    BY <1>3, <1>8, <2>1, ReadingIs DEF Waiting, WaitAgain
  <2>3. e + d < waitUs + Lag
    BY <1>2, <2>2, Sizes
  <2>4. pc' = "pause" /\ Elapse(d) /\ waitUs' = waitUs /\ sure' = sure
    BY <1>8 DEF WaitAgain
  <2>5. Waiting(e + d)' /\ (wireUs' # 0 => quietUs' = 0)
    BY <1>1, <1>2, <1>3, <2>3, <2>4, WaitingGoes
  <2>6. waitUs' = (sent' + 1) * CommChar'
    BY <1>1, <1>5, <2>4
  <2>7. e + d \in Nat
    BY <1>2
  <2>. QED BY <1>1, <2>4, <2>5, <2>6, <2>7 DEF Paced
<1>9. CASE WaitPause(d)
  <2>1. PauseUs \in 1 .. SleepUs
    BY PauseIs
  <2>2. PICK s \in Nat : s = PauseUs + d /\ s <= SleepUs + Lag
    BY <1>2, <2>1, Sizes
  <2>3. pc' = "wait" /\ Elapse(s) /\ waitUs' = waitUs /\ sure' = sure
    BY <1>9, <2>2 DEF WaitPause
  <2>4. e < waitUs + Lag
    BY <1>3, <1>9 DEF Waiting, WaitPause
  <2>5. e + s < waitUs + (SleepUs + 2 * Lag)
    BY <1>2, <2>2, <2>4, Sizes
  <2>6. Waiting(e + s)' /\ (wireUs' # 0 => quietUs' = 0)
    BY <1>1, <1>2, <1>3, <2>2, <2>3, <2>5, WaitingGoes
  <2>7. waitUs' = (sent' + 1) * CommChar'
    BY <1>1, <1>5, <2>3
  <2>8. e + s \in Nat
    BY <2>2
  <2>. QED BY <1>1, <2>3, <2>6, <2>7, <2>8 DEF Paced
<1>. QED BY <1>7, <1>8, <1>9

\* The delay is a character and more: the one in the shift register has left.
LEMMA PacedDelay ==
  ASSUME PInv, Legal, NEW d \in 0 .. Lag, Delay(d)
  PROVE  Paced'
<1>. USE DEF PInv
<1>1. pc = "delay" /\ baud # 0 /\ left' = left /\ sent' = sent /\ driver' = driver
      /\ driver # "low" /\ left + sent \in Frames /\ pc' = "release" /\ sure' = sure
      /\ (wireUs # 0 => quietUs = 0)
  BY DEF Delay, Typed, TypeOK, Paced
<1>2. /\ WireChar \in Nat \ {0} /\ wireUs \in Nat /\ quietUs \in Nat /\ CommChar = WireChar
      /\ d \in Nat /\ d <= Lag /\ PostDelayUs(baud, config) = CommChar + 2
  BY <1>1, SendTypes, SameChar, Sizes DEF Typed, TypeOK
<1> DEFINE s == PostDelayUs(baud, config) + d
<1>3. s \in Nat /\ s = WireChar + 2 + d /\ Elapse(s)
  BY <1>2 DEF Delay
<1>4. /\ wireUs' = IF wireUs > s THEN wireUs - s ELSE 0
      /\ wireUs > s => quietUs' = 0
      /\ wireUs <= s => quietUs' <= quietUs + s - wireUs
      /\ CommChar' = CommChar
  BY <1>1, <1>3, ElapseIs
<1>5. quietUs' \in Nat /\ wireUs' \in Nat
  BY <1>1, <1>3, ElapseTyped
<1> HIDE DEF s
<1>6. wireUs' # 0 => quietUs' = 0
  BY <1>2, <1>3, <1>4
<1>7. sure => wireUs <= WireChar /\ (Fits => quietUs < CommChar + SleepUs + 3 * Lag)
  BY <1>1 DEF Paced
<1>8. sure => wireUs' = 0 /\ (Fits => quietUs' <= 2 * CommChar + SleepUs + 4 * Lag + 1)
  BY <1>2, <1>3, <1>4, <1>5, <1>7, Sizes
<1>9. Fits' <=> Fits
  BY <1>1 DEF Fits
<1>. QED BY <1>1, <1>4, <1>6, <1>8, <1>9 DEF Paced

LEMMA PInvNext == Legal /\ PInv /\ [Next]_vars => PInv'
<1> SUFFICES ASSUME Legal, PInv, [Next]_vars PROVE Paced'
  BY TypedNext DEF PInv
<1>1. 1 \in 1 .. Lag /\ 0 \in 0 .. Lag
  BY Sizes
<1>2. CASE \/ Administer \/ Return \/ Release \/ UNCHANGED vars
           \/ \E b \in Bauds, c \in Formats : Begin(b, c)
           \/ \E n \in Frames, at \in Start : Transmit(n, at)
  BY <1>2, PacedEnds
<1>3. CASE WriteSome \/ WriteDone \/ \E d \in 1 .. Lag : WriteStall(d)
  BY <1>1, <1>3, PacedWrite
<1>4. CASE \E d \in 0 .. Lag : Lookup(d)
  BY <1>4, PacedLookup
<1>5. CASE FlushDone \/ \E d \in 1 .. Lag : FlushWait(d)
  BY <1>1, <1>5, PacedFlush
<1>6. CASE WaitOver \/ \E d \in 0 .. Lag : WaitAgain(d) \/ WaitPause(d)
  BY <1>1, <1>6, PacedWait
<1>7. CASE \E d \in 0 .. Lag : Delay(d)
  BY <1>7, PacedDelay
<1>. QED BY <1>2, <1>3, <1>4, <1>5, <1>6, <1>7 DEF Next

LEMMA AlwaysPaced == ASSUME Legal PROVE Spec => []PInv
<1>1. Init => PInv
  BY TypedInit, PacedInit DEF PInv
<1>2. PInv /\ [Next]_vars => PInv'
  BY PInvNext
<1>. QED BY <1>1, <1>2, PTL DEF Spec

\* DE goes low when the last stop bit is out, in every legal format and at every rate, whichever
\* of the two ways the driver waited, unless flush() timed out (Giga 116-163 and 217-227).
THEOREM SerialDrainCovers ==
  ASSUME Legal
  PROVE  Spec => []DrainCovers
<1>1. PInv => DrainCovers
  BY DEF PInv, Paced, DrainCovers
<1>. QED BY <1>1, AlwaysPaced, PTL

\* Where two characters, a sleep and four preemptions are less than T3.5, DE goes low before
\* a slave may answer.
THEOREM SerialReleasedInTime ==
  ASSUME Legal, Prompt
  PROVE  Spec => []ReleasedInTime
<1>1. ASSUME PInv PROVE ReleasedInTime
  <2> SUFFICES ASSUME pc = "low", sure, Fits PROVE quietUs <= T35
    BY DEF ReleasedInTime
  <2>1. baud \in Bauds /\ config \in Formats /\ quietUs \in Nat /\ baud # 0
    BY <1>1 DEF PInv, Typed, TypeOK
  <2>2. 2 * CommChar + SleepUs + 4 * Lag + 1 <= T35
    BY <2>1 DEF Prompt, CommChar, T35
  <2>3. quietUs <= 2 * CommChar + SleepUs + 4 * Lag + 1
    BY <1>1 DEF PInv, Paced
  <2>4. CommChar \in Nat /\ T35 \in Nat
    BY <1>1, <2>1, SendTypes DEF PInv
  <2>. QED BY <2>1, <2>2, <2>3, <2>4, Sizes
<1>. QED BY <1>1, AlwaysPaced, PTL
=============================================================================
