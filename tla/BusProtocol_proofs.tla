------------------------- MODULE BusProtocol_proofs --------------------------
(***************************************************************************)
(* Theorems about requests and answers, for every set of requests, every   *)
(* time-out, every width of micros() and any number of calls, strays,      *)
(* repeats and queued frames.                                              *)
(***************************************************************************)
EXTENDS BusProtocol, SequenceTheorems, TLAPS

USE BusAssumption

-----------------------------------------------------------------------------
(* Types *)

Units  == {r.unit : r \in Requests} \cup {0, "other", "crc"}
Codes  == {r.fc : r \in Requests} \cup {0, "read", "crc"}
Shapes == {r.shape : r \in Requests} \cup {0}

\* The frames there can be on the line, when they came in, and for whom.
StrayFrame == [unit |-> "other", fc |-> "read", exc |-> FALSE, shape |-> 0]
Frame == {AnswerTo(r) : r \in Requests} \cup {StrayFrame}
Entry == [req : Nat, at : Nat \ {0}, frame : Frame]

Fates == {"unread", "given up", "answered"}
Sent  == [at : Nat, asked : Requests, came : Nat, fate : Fates,
          took : Entry \cup {NoFrame}]
Adus  == [unit : Units, fc : Codes, exc : BOOLEAN, shape : Shapes, full : BOOLEAN]

Pending == [valid : BOOLEAN, unit : Units, fc : Codes, shape : Shapes, until : 0..UsWrap - 1]

Typed ==
  /\ pc \in {"idle", "writeDrain", "gate", "read", "readDrain"}
  /\ result \in {"none", "sent", "refused", "success", "failed"}
  /\ t \in 1..MaxTime
  /\ lastAt \in Nat /\ began \in Nat /\ drainFrom \in Nat /\ cleared \in Nat
  /\ firstAt \in Nat \cup {Never} /\ lateEnd \in Nat \cup {Never}
  /\ adu \in Adus
  /\ queue \in Seq(Entry) /\ got \in Entry \cup {NoFrame}
  /\ sent \in Seq(Sent) /\ cur \in 0..Len(sent)
  /\ txSeq \in Nat /\ strays \in Nat
  /\ accepted \in [frame : Frame, at : Nat, seq : Nat] \cup {NoneYet}
  /\ calls \in [read : Nat, write : Nat]
  /\ pending \in Pending

\* What a frame on the line looks like.
LEMMA FrameFields ==
  ASSUME NEW f \in Frame
  PROVE  /\ f.unit \in Units /\ f.fc \in Codes /\ f.exc \in BOOLEAN /\ f.fc # "crc"
         /\ f.unit = "other" => f = StrayFrame
<1>1. CASE f = StrayFrame
  BY <1>1 DEF StrayFrame, Units, Codes
<1>2. ASSUME NEW r \in Requests, f = AnswerTo(r)
      PROVE  f.unit = r.unit /\ f.fc = r.fc /\ f.exc = r.bad
  BY <1>2 DEF AnswerTo
<1>3. ASSUME NEW r \in Requests, f = AnswerTo(r)
      PROVE  /\ f.unit \in Units /\ f.fc \in Codes /\ f.exc \in BOOLEAN
             /\ f.fc # "crc" /\ f.unit # "other"
  BY <1>2, <1>3 DEF Units, Codes
<1>. QED BY <1>1, <1>3 DEF Frame

LEMMA EntryIsNotNoFrame == NoFrame \notin Entry /\ NoFrame.at = 0 /\ NoFrame.req = 0
BY DEF NoFrame, Entry

\* The parts of it.
LEMMA Types ==
  ASSUME Typed
  PROVE  /\ t \in Nat \ {0} /\ t \in Nat /\ t \in 1..MaxTime /\ lastAt \in Nat
         /\ began \in Nat /\ drainFrom \in Nat /\ cleared \in Nat
         /\ firstAt \in Nat \cup {Never} /\ lateEnd \in Nat \cup {Never}
         /\ adu \in Adus /\ queue \in Seq(Entry) /\ got \in Entry \cup {NoFrame}
         /\ sent \in Seq(Sent) /\ cur \in 0..Len(sent) /\ txSeq \in Nat
         /\ accepted \in [frame : Frame, at : Nat, seq : Nat] \cup {NoneYet}
         /\ calls \in [read : Nat, write : Nat] /\ strays \in Nat
         /\ pending \in Pending
<1>1. /\ t \in 1..MaxTime /\ lastAt \in Nat
      /\ began \in Nat /\ drainFrom \in Nat /\ cleared \in Nat
      /\ firstAt \in Nat \cup {Never} /\ lateEnd \in Nat \cup {Never}
      /\ adu \in Adus /\ queue \in Seq(Entry) /\ got \in Entry \cup {NoFrame}
      /\ sent \in Seq(Sent) /\ cur \in 0..Len(sent) /\ txSeq \in Nat
      /\ accepted \in [frame : Frame, at : Nat, seq : Nat] \cup {NoneYet}
      /\ calls \in [read : Nat, write : Nat] /\ strays \in Nat /\ pending \in Pending
  BY Zenon DEF Typed
<1>2. t \in Nat \ {0}
  BY ONLY <1>1
<1>. QED BY <1>1, <1>2, Zenon

\* What the timed-out request becomes keeps its type.
LEMMA PendingTyped ==
  ASSUME Typed
  PROVE  /\ \A now \in Nat : Expire(pending, now) \in
              Pending
         /\ Settled \in Pending
<1>1. Settled \in Pending
  BY DEF Settled, Pending, Units, Codes, Shapes
<1>. QED BY <1>1, Types DEF Expire

LEMMA TypedInit == Init => Typed
BY DEF Init, Typed, Pending, Never, Adus, Units, Codes, Shapes, NoFrame, NoneYet, Settled

\* Each step keeps the types.
LEMMA TypedTime == Typed /\ (Tick \/ Rest \/ UNCHANGED vars) => Typed'
<1>. SUFFICES ASSUME Typed, Tick \/ Rest \/ UNCHANGED vars PROVE Typed'
  OBVIOUS
<1>1. t' \in 1..MaxTime
  <2>. t \in 1..MaxTime
    BY Types
  <2>1. CASE Tick
    BY <2>1 DEF Tick
  <2>2. CASE Rest
    <3>1. PICK d \in Rests : t + d <= MaxTime /\ t' = t + d
      BY <2>2 DEF Rest
    <3>2. d \in Nat
      BY BusAssumption
    <3>. QED BY <3>1, <3>2
  <2>. QED BY <2>1, <2>2 DEF vars
<1>2. UNCHANGED <<pc, result, adu, wire, memory, call, sent, cur, cleared, calls>>
  BY DEF Tick, Rest, vars
<1>. QED BY <1>1, <1>2 DEF Typed, wire, memory, call

\* What a request on the wire is made of.
LEMMA SentFields ==
  ASSUME Typed, NEW q \in 1..Len(sent)
  PROVE  /\ sent[q] \in Sent
         /\ sent[q].at \in Nat /\ sent[q].asked \in Requests /\ sent[q].came \in Nat
         /\ sent[q].fate \in Fates /\ sent[q].took \in Entry \cup {NoFrame}
<1>1. sent \in Seq(Sent)
  BY Types
<1>2. sent[q] \in Sent
  BY <1>1, ElementOfSeq
<1>. QED BY <1>2 DEF Sent

\* The request the ADU was sent as is one of them.
LEMMA CurIsSent ==
  ASSUME Typed, cur # 0 PROVE cur \in 1..Len(sent)
<1>1. cur \in 0..Len(sent)
  BY Types
<1>. QED BY ONLY <1>1, cur # 0

\* A frame that comes in is the last of the queue, and bears the time.
Arrival(q, f) == [req |-> q, at |-> t, frame |-> f]
LEMMA ComesQueue ==
  ASSUME Typed, NEW q \in Nat, NEW f \in Frame, Comes(q, f)
  PROVE  /\ Arrival(q, f) \in Entry /\ queue' = Append(queue, Arrival(q, f))
         /\ queue' \in Seq(Entry) /\ lastAt' = t
<1>1. t \in Nat \ {0} /\ queue \in Seq(Entry)
  BY Types
<1>2. Arrival(q, f) \in Entry
  BY <1>1 DEF Entry, Arrival
<1>3. queue' = Append(queue, Arrival(q, f)) /\ lastAt' = t
  BY DEF Comes, Arrival
<1>. QED BY <1>1, <1>2, <1>3

\* What the slaves put on the line, for whom, and when.
Known(e) == IF e.req = 0 THEN e.frame = StrayFrame
            ELSE e.req \in 1..Len(sent) /\ e.frame = AnswerTo(sent[e.req].asked)
LEMMA StrayQueue ==
  ASSUME Typed, Stray
  PROVE  /\ \E e \in Entry : queue' = Append(queue, e) /\ e.at = t /\ Known(e)
         /\ queue' \in Seq(Entry) /\ lastAt' = t
<1>1. StrayFrame \in Frame /\ Comes(0, StrayFrame)
  BY DEF Frame, Stray, StrayFrame
<1>2. Arrival(0, StrayFrame).at = t /\ Known(Arrival(0, StrayFrame))
  BY DEF Arrival, Known
<1>. QED BY <1>1, <1>2, ComesQueue

LEMMA AnswerQueue ==
  ASSUME Typed, NEW q \in 1..Len(sent), Answer(q)
  PROVE  /\ \E e \in Entry : queue' = Append(queue, e) /\ e.at = t /\ Known(e)
         /\ queue' \in Seq(Entry) /\ lastAt' = t
<1>. DEFINE f == AnswerTo(sent[q].asked)
<1>0. sent[q].asked \in Requests
  BY SentFields
<1>1. f \in Frame /\ q \in Nat \ {0} /\ Comes(q, f)
  BY <1>0 DEF Frame, Answer
<1>2. Arrival(q, f).at = t /\ Known(Arrival(q, f))
  BY DEF Arrival, Known
<1>. HIDE DEF f
<1>. QED BY <1>1, <1>2, ComesQueue

\* What taking the oldest frame leaves.
LEMMA QueueTail ==
  ASSUME Typed, queue # <<>>
  PROVE  /\ Head(queue) \in Entry /\ Head(queue) = queue[1] /\ 1 \in 1..Len(queue)
         /\ Tail(queue) \in Seq(Entry) /\ Len(Tail(queue)) = Len(queue) - 1
         /\ \A i \in 1..Len(Tail(queue)) :
              i + 1 \in 1..Len(queue) /\ Tail(queue)[i] = queue[i + 1]
<1>1. queue \in Seq(Entry)
  BY Types
<1>2. Len(queue) \in Nat /\ Len(queue) # 0
  BY <1>1, EmptySeq
<1>3. /\ Head(queue) = queue[1] /\ Tail(queue) \in Seq(Entry)
      /\ Len(Tail(queue)) = Len(queue) - 1
      /\ \A i \in 1..Len(Tail(queue)) : Tail(queue)[i] = queue[i + 1]
  BY <1>1, HeadTailProperties
<1>4. 1 \in 1..Len(queue) /\ \A i \in 1..Len(queue) - 1 : i + 1 \in 1..Len(queue)
  BY ONLY <1>2
<1>5. queue[1] \in Entry
  BY <1>1, <1>4, ElementOfSeq
<1>. QED BY <1>3, <1>4, <1>5

\* What a request becomes when an answer comes in, and when a read returns.
More(s, c) == [s EXCEPT !.came = c]
Told(s, f, k) == [s EXCEPT !.fate = f, !.took = k]
LEMMA MoreFields ==
  ASSUME NEW s \in Sent, NEW c \in Nat
  PROVE  /\ More(s, c) \in Sent /\ More(s, c).at = s.at /\ More(s, c).asked = s.asked
         /\ More(s, c).fate = s.fate /\ More(s, c).took = s.took
BY DEF More, Sent

LEMMA ToldFields ==
  ASSUME NEW s \in Sent, NEW f \in Fates, NEW k \in Entry \cup {NoFrame}
  PROVE  /\ Told(s, f, k) \in Sent /\ Told(s, f, k).at = s.at
         /\ Told(s, f, k).asked = s.asked
         /\ Told(s, f, k).fate = f /\ Told(s, f, k).took = k
<1>. DEFINE E == Entry \cup {NoFrame}
<1>1. /\ s \in [at : Nat, asked : Requests, came : Nat, fate : Fates, took : E] /\ k \in E
      /\ Sent = [at : Nat, asked : Requests, came : Nat, fate : Fates, took : E]
  BY DEF Sent
<1>. HIDE DEF E
<1>. QED BY <1>1 DEF Told

\* What an answer changes of the requests.
LEMMA SentAnswer ==
  ASSUME Typed, NEW q \in 1..Len(sent), Answer(q)
  PROVE  /\ sent' \in Seq(Sent) /\ Len(sent') = Len(sent)
         /\ \A r \in 1..Len(sent) :
              /\ sent'[r].at = sent[r].at /\ sent'[r].asked = sent[r].asked
              /\ sent'[r].fate = sent[r].fate /\ sent'[r].took = sent[r].took
<1>1. sent \in Seq(Sent)
  BY Types
<1>. DEFINE more == sent[q].came + 1
            new  == More(sent[q], more)
<1>2. sent' = [sent EXCEPT ![q] = new]
  BY DEF Answer, More
<1>3. /\ new \in Sent /\ new.at = sent[q].at /\ new.asked = sent[q].asked
      /\ new.fate = sent[q].fate /\ new.took = sent[q].took
  <2>1. sent[q] \in Sent /\ sent[q].came \in Nat
    BY SentFields
  <2>2. \A c \in Nat : c + 1 \in Nat
    OBVIOUS
  <2>3. more \in Nat
    BY ONLY <2>1, <2>2
  <2>. HIDE DEF more
  <2>. QED BY <2>1, <2>3, MoreFields
<1>. HIDE DEF new, more
<1>4. /\ sent' \in Seq(Sent) /\ Len(sent') = Len(sent)
      /\ \A r \in 1..Len(sent) : sent'[r] = IF r = q THEN new ELSE sent[r]
  BY <1>1, <1>2, <1>3, ExceptSeq
<1>. QED BY <1>3, <1>4

\* What a read that returns changes of the requests: only the one in the ADU.
LEMMA SentReturn ==
  ASSUME Typed, NEW ok \in BOOLEAN, ReadReturn(ok)
  PROVE  /\ sent' \in Seq(Sent) /\ Len(sent') = Len(sent)
         /\ \A r \in 1..Len(sent) :
              /\ sent'[r].at = sent[r].at /\ sent'[r].asked = sent[r].asked
              /\ r # cur => sent'[r] = sent[r]
         /\ cur # 0 => /\ sent'[cur].fate = IF ok THEN "answered" ELSE "given up"
                       /\ sent'[cur].took = IF got = NoFrame THEN sent[cur].took ELSE got
<1>1. sent \in Seq(Sent) /\ cur \in 0..Len(sent) /\ got \in Entry \cup {NoFrame}
  BY Types
<1>2. CASE cur = 0
  BY <1>1, <1>2 DEF ReadReturn
<1>3. CASE cur # 0
  <2>. DEFINE told == IF ok THEN "answered" ELSE "given up"
              kept == IF got = NoFrame THEN sent[cur].took ELSE got
              new  == Told(sent[cur], told, kept)
  <2>1. cur \in 1..Len(sent)
    BY <1>1, <1>3
  <2>2. sent[cur] \in Sent /\ told \in Fates /\ kept \in Entry \cup {NoFrame}
    BY <1>1, <2>1, SentFields DEF Fates
  <2>3. sent' = [sent EXCEPT ![cur] = new]
    BY <1>3, <2>1, <1>1 DEF ReadReturn, Told
  <2>4. /\ new \in Sent /\ new.at = sent[cur].at /\ new.asked = sent[cur].asked
        /\ new.fate = told /\ new.took = kept
    <3>. HIDE DEF told, kept
    <3>. QED BY <2>2, ToldFields
  <2>. HIDE DEF new, told, kept
  <2>5. /\ sent' \in Seq(Sent) /\ Len(sent') = Len(sent)
        /\ \A r \in 1..Len(sent) : sent'[r] = IF r = cur THEN new ELSE sent[r]
    BY <1>1, <2>1, <2>3, <2>4, ExceptSeq
  <2>. QED BY <2>1, <2>4, <2>5 DEF told, kept
<1>. QED BY <1>2, <1>3

LEMMA TypedSlaves == Typed /\ Slaves => Typed'
<1>1. ASSUME Typed, Stray PROVE Typed'
  <2>0. t \in Nat
    BY <1>1, Types
  <2>1. queue' \in Seq(Entry) /\ lastAt' \in Nat
    BY <1>1, <2>0, StrayQueue
  <2>2. strays \in Nat /\ strays' = strays + 1
    BY <1>1, Types DEF Stray
  <2>3. strays' \in Nat
    BY ONLY <2>2
  <2>. QED BY <1>1, <2>1, <2>3 DEF Stray, Typed, memory, call
<1>2. ASSUME Typed, NEW q \in 1..Len(sent), Answer(q) PROVE Typed'
  <2>1. t \in Nat
    BY <1>2, Types
  <2>2. queue' \in Seq(Entry) /\ lastAt' \in Nat
    BY <1>2, <2>1, AnswerQueue
  <2>3. sent' \in Seq(Sent) /\ Len(sent') = Len(sent)
    BY <1>2, SentAnswer
  <2>. QED BY <1>2, <2>2, <2>3 DEF Answer, Typed, memory, call
<1>. QED BY <1>1, <1>2 DEF Slaves

\* What a read that returns leaves of its own.
LEMMA ReturnTyped ==
  ASSUME Typed, NEW ok \in BOOLEAN, ReadReturn(ok)
  PROVE  /\ pc' \in {"idle", "writeDrain", "gate", "read", "readDrain"}
         /\ result' \in {"none", "sent", "refused", "success", "failed"}
         /\ began' \in Nat /\ drainFrom' \in Nat
         /\ firstAt' \in Nat \cup {Never} /\ lateEnd' \in Nat \cup {Never}
         /\ got' \in Entry \cup {NoFrame} /\ adu' \in Adus
<1>1. adu \in Adus /\ adu' = [adu EXCEPT !.full = ok]
  BY Types DEF ReadReturn
<1>2. adu' \in Adus
  BY <1>1 DEF Adus
<1>. QED BY <1>2 DEF ReadReturn, CallOver

LEMMA TypedDrain == Typed /\ Drain => Typed'
<1>. SUFFICES ASSUME Typed, Drain PROVE Typed'
  OBVIOUS
<1>0. t \in Nat
  BY Types
<1>1. CASE DrainFrame
  <2>1. queue' \in Seq(Entry)
    BY <1>1, QueueTail DEF DrainFrame
  <2>2. pending' \in Pending
    <3>1. Head(queue).at \in Nat
      BY <1>1, QueueTail DEF DrainFrame, Entry
    <3>. QED BY <1>0, <1>1, <3>1, PendingTyped
             DEF DrainFrame, Consume, Expire
  <2>. QED BY <1>1, <2>1, <2>2 DEF DrainFrame, Typed, call
<1>2. CASE DrainIdle
  <2>1. pending' \in Pending
    BY <1>0, <1>2, PendingTyped DEF DrainIdle, Drained
  <2>2. CASE pc = "writeDrain"
    BY <1>2, <2>1, <2>2 DEF DrainIdle, Drained, CallOver, Typed, wire
  <2>3. CASE pc # "writeDrain"
    <3>1. ReadReturn(got # NoFrame) /\ (got # NoFrame) \in BOOLEAN
      BY <1>2, <2>3 DEF DrainIdle, Drained
    <3>. DEFINE ok == got # NoFrame
    <3>2. ReadReturn(ok) /\ ok \in BOOLEAN
      BY <3>1
    <3>. HIDE DEF ok
    <3>3. sent' \in Seq(Sent) /\ Len(sent') = Len(sent)
      BY <3>2, SentReturn
    <3>4. UNCHANGED <<t, wire, txSeq, accepted, cur, calls, cleared>>
      BY <1>2, <2>3 DEF DrainIdle, Drained
    <3>. QED BY <2>1, <3>2, <3>3, <3>4, ReturnTyped DEF Typed, wire
  <2>. QED BY <2>2, <2>3
<1>3. CASE DrainEscape
  <2>1. /\ queue' \in Seq(Entry) /\ lastAt' \in Nat
        /\ pending' \in Pending
    BY <1>3, PendingTyped DEF DrainEscape
  <2>2. UNCHANGED <<t, strays, txSeq, accepted, cur, cleared, calls>>
    BY <1>3 DEF DrainEscape
  <2>3. CASE pc = "writeDrain"
    BY <1>3, <2>1, <2>2, <2>3 DEF DrainEscape, CallOver, Typed
  <2>4. CASE pc # "writeDrain"
    <3>1. ReadReturn(FALSE)
      BY <1>3, <2>4 DEF DrainEscape
    <3>2. sent' \in Seq(Sent) /\ Len(sent') = Len(sent)
      BY <3>1, SentReturn
    <3>. QED BY <2>1, <2>2, <3>1, <3>2, ReturnTyped DEF Typed
  <2>. QED BY <2>3, <2>4
<1>. QED BY <1>1, <1>2, <1>3 DEF Drain

LEMMA TypedWrite == Typed /\ Write => Typed'
<1>. SUFFICES ASSUME Typed, Write PROVE Typed'
  OBVIOUS
<1>0. t \in Nat /\ txSeq \in Nat
  BY Types
<1>a. \A r \in Requests : FilledBy(r) \in Adus
  BY DEF FilledBy, Adus, Units, Codes, Shapes
<1>b. Scrambled(adu) \in Adus
  <2>1. adu \in Adus /\ "crc" \in Units /\ "crc" \in Codes
    BY Types DEF Units, Codes
  <2>. QED BY <2>1 DEF Scrambled, Adus
<1>1. CASE WriteCall
  <2>1. adu' \in Adus
    BY <1>1, <1>a, Types DEF WriteCall
  <2>2. pending' \in Pending
    BY <1>0, <1>1, PendingTyped DEF WriteCall
  <2>3. calls' \in [read : Nat, write : Nat]
    <3>1. calls \in [read : Nat, write : Nat] /\ calls' = [calls EXCEPT !.write = @ + 1]
      BY <1>1, Types DEF WriteCall
    <3>. QED BY <3>1
  <2>4. cur' \in 0..Len(sent')
    BY <1>1, Types DEF WriteCall
  <2>5. /\ pc' = "writeDrain" /\ result' = "none" /\ drainFrom' = t
        /\ UNCHANGED <<t, wire, txSeq, accepted, began, firstAt, lateEnd, got, sent, cleared>>
    BY <1>1 DEF WriteCall
  <2>. QED BY <2>1, <2>2, <2>3, <2>4, <2>5 DEF Typed, wire
<1>2. CASE Send
  <2>1. PICK asked \in Requests :
          sent' = Append(sent, [at |-> t', asked |-> asked, came |-> 0,
                                fate |-> "unread", took |-> NoFrame])
    BY <1>2 DEF Send
  <2>2. t' \in 1..MaxTime
    <3>1. t \in 1..MaxTime /\ TxUs \in Nat /\ MaxTime \in Nat
      BY BusAssumption, Types
    <3>2. t' = t + TxUs /\ t + TxUs <= MaxTime
      BY <1>2 DEF Send
    <3>. QED BY <3>1, <3>2
  <2>3. [at |-> t', asked |-> asked, came |-> 0, fate |-> "unread", took |-> NoFrame]
          \in Sent
    BY <2>2 DEF Sent, Fates
  <2>4. sent \in Seq(Sent)
    BY Types
  <2>5. sent' \in Seq(Sent) /\ Len(sent') = Len(sent) + 1
    BY <2>1, <2>3, <2>4, AppendProperties
  <2>6. cur' \in 0..Len(sent') /\ txSeq' \in Nat
    BY <1>0, <1>2, <2>4, <2>5 DEF Send
  <2>. QED BY <1>2, <2>2, <2>5, <2>6 DEF Send, Typed, wire, call
<1>3. CASE SendFails
  <2>1. adu' \in Adus
    BY <1>3, <1>b, Types DEF SendFails
  <2>. QED BY <1>3, <2>1 DEF SendFails, Typed, wire, call, memory
<1>4. CASE SendNothing
  <2>1. adu' \in Adus /\ txSeq' \in Nat
    BY <1>0, <1>4, <1>b DEF SendNothing
  <2>. QED BY <1>4, <2>1 DEF SendNothing, Typed, wire, call
<1>. QED BY <1>1, <1>2, <1>3, <1>4 DEF Write

\* Taking the oldest frame, whatever it is.
LEMMA TakeTyped ==
  ASSUME Typed, TakeFrame
  PROVE  /\ queue' \in Seq(Entry) /\ firstAt' \in Nat \cup {Never}
         /\ Oldest \in Entry /\ Oldest.at \in Nat /\ Oldest.frame \in Frame
<1>1. Oldest \in Entry /\ queue' \in Seq(Entry)
  BY QueueTail DEF TakeFrame, Oldest
<1>2. Oldest.at \in Nat /\ Oldest.frame \in Frame
  BY <1>1 DEF Entry
<1>3. firstAt' \in Nat \cup {Never}
  <2>1. firstAt \in Nat \cup {Never} /\ began \in Nat
    BY Types
  <2>2. firstAt' = IF firstAt = Never THEN Later(Oldest.at, began) ELSE firstAt
    BY DEF TakeFrame
  <2>. QED BY <1>2, <2>1, <2>2 DEF Later
<1>. QED BY <1>1, <1>2, <1>3

LEMMA TypedRead == Typed /\ Read => Typed'
<1>. SUFFICES ASSUME Typed, Read PROVE Typed'
  OBVIOUS
<1>0. t \in Nat /\ txSeq \in Nat /\ drainFrom \in Nat
  <2>1. t \in 1..MaxTime /\ txSeq \in Nat /\ drainFrom \in Nat
    BY Types
  <2>. QED BY <2>1
<1>a. \A now \in Nat : Expire(pending, now) \in Pending
  BY PendingTyped
<1>b. Settled \in Pending
  BY PendingTyped
<1>1. CASE ReadCall
  <2>1. adu' \in Adus
    <3>1. adu \in Adus /\ adu' = [adu EXCEPT !.full = FALSE]
      BY <1>1, Types DEF ReadCall
    <3>. QED BY <3>1 DEF Adus
  <2>2. calls' \in [read : Nat, write : Nat]
    <3>1. calls \in [read : Nat, write : Nat] /\ calls' = [calls EXCEPT !.read = @ + 1]
      BY <1>1, Types DEF ReadCall
    <3>. QED BY <3>1
  <2>3. pending' \in Pending
    BY <1>0, <1>1, <1>a DEF ReadCall
  <2>4. /\ pc' = "read" /\ began' = t /\ firstAt' = Never /\ lateEnd' = Never
        /\ got' = NoFrame
        /\ UNCHANGED <<t, result, wire, txSeq, accepted, drainFrom, sent, cur, cleared>>
    BY <1>1 DEF ReadCall
  <2>. QED BY <1>0, <2>1, <2>2, <2>3, <2>4 DEF Typed, wire
<1>2. CASE FrameDuplicate
  <2>1. pending' \in Pending /\ drainFrom' \in Nat
    BY <1>0, <1>2, <1>a DEF FrameDuplicate, Resume
  <2>. QED BY <1>2, <2>1, TakeTyped DEF FrameDuplicate, TakeFrame, Resume, Typed
<1>3. CASE FrameMatch
  <2>1. adu' \in Adus
    <3>1. Oldest.frame \in Frame
      BY <1>3, TakeTyped DEF FrameMatch
    <3>2. Oldest.frame.unit \in Units /\ Oldest.frame.fc \in Codes
          /\ Oldest.frame.exc \in BOOLEAN /\ 0 \in Shapes
      BY <3>1, FrameFields DEF Shapes
    <3>. QED BY <1>3, <3>2 DEF FrameMatch, Adus
  <2>2. accepted' \in [frame : Frame, at : Nat, seq : Nat]
    BY <1>0, <1>3, TakeTyped DEF FrameMatch
  <2>3. pending' \in Pending
    BY <1>3, <1>b DEF FrameMatch
  <2>. QED BY <1>0, <1>3, <2>1, <2>2, <2>3, TakeTyped
           DEF FrameMatch, TakeFrame, Typed
<1>4. CASE FrameOther
  <2>1. pending' \in Pending
    BY <1>0, <1>4, <1>a, <1>b, TakeTyped DEF FrameOther, Consume, Expire
  <2>2. drainFrom' \in Nat
    BY <1>0, <1>4 DEF FrameOther, Resume
  <2>. QED BY <1>4, <2>1, <2>2, TakeTyped DEF FrameOther, TakeFrame, Resume, Typed
<1>5. CASE ReadTimesOut
  <2>1. pending' \in Pending
    <3>1. adu \in Adus
      BY Types
    <3>2. (t + LateGrace) % UsWrap \in 0..UsWrap - 1
      BY <1>0
    <3>. QED BY <1>5, <1>b, <3>1, <3>2 DEF ReadTimesOut, Arm, Adus, Pending
  <2>2. lateEnd' \in Nat
    BY <1>0, <1>5 DEF ReadTimesOut
  <2>. QED BY <1>5, <2>1, <2>2 DEF ReadTimesOut, Typed, wire
<1>6. CASE ReadGivesUp
  <2>1. pending' \in Pending
    BY <1>0, <1>6, <1>a DEF ReadGivesUp
  <2>. QED BY <1>0, <1>6, <2>1 DEF ReadGivesUp, Typed, wire
<1>. QED BY <1>1, <1>2, <1>3, <1>4, <1>5, <1>6 DEF Read, ProcessFrame

LEMMA TypedNext == Typed /\ [Next]_vars => Typed'
BY TypedTime, TypedSlaves, TypedDrain, TypedWrite, TypedRead DEF Next

-----------------------------------------------------------------------------
(* What the steps change *)

\* A new request on the wire.
Fresh(asked) == [at |-> t', asked |-> asked, came |-> 0, fate |-> "unread", took |-> NoFrame]
LEMMA SentSend ==
  ASSUME Typed, Send
  PROVE  \E asked \in Requests :
           /\ adu = FilledBy(asked) /\ Len(sent') = Len(sent) + 1
           /\ cur' = Len(sent') /\ cur' \in Nat \ {0}
           /\ sent'[Len(sent')] = Fresh(asked)
           /\ \A q \in 1..Len(sent) : sent'[q] = sent[q]
<1>1. sent \in Seq(Sent)
  BY Types
<1>2. PICK asked \in Requests : adu = FilledBy(asked) /\ sent' = Append(sent, Fresh(asked))
  BY DEF Send, Fresh
<1>. DEFINE new == Fresh(asked)
<1>3. new \in Sent
  <2>1. t \in Nat /\ TxUs \in Nat /\ t' = t + TxUs
    BY BusAssumption, Types DEF Send
  <2>2. t' \in Nat
    BY ONLY <2>1
  <2>. QED BY <2>2 DEF Fresh, Sent, Fates
<1>4. sent' = Append(sent, new) /\ cur' = Len(sent')
  BY <1>2 DEF Send
<1>. HIDE DEF new
<1>5. /\ Len(sent') = Len(sent) + 1 /\ Len(sent) \in Nat
      /\ sent'[Len(sent) + 1] = new
      /\ \A q \in 1..Len(sent) : sent'[q] = sent[q]
  BY <1>1, <1>3, <1>4, AppendProperties, LenProperties
<1>6. cur' \in Nat \ {0}
  BY ONLY <1>4, <1>5
<1>. QED BY <1>2, <1>4, <1>5, <1>6 DEF new

\* Time does not go back.
LEMMA TimeGoes == Typed /\ [Next]_vars => t' \in Nat /\ t <= t'
<1>. SUFFICES ASSUME Typed, [Next]_vars PROVE t' \in Nat /\ t <= t'
  OBVIOUS
<1>0. t \in Nat /\ TxUs \in Nat
  BY BusAssumption, Types
<1>1. CASE Tick
  BY <1>0, <1>1 DEF Tick
<1>2. CASE Rest
  <2>1. PICK d \in Rests : t' = t + d
    BY <1>2 DEF Rest
  <2>2. d \in Nat
    BY BusAssumption
  <2>. QED BY <1>0, <2>1, <2>2
<1>3. CASE Send
  <2>1. t' = t + TxUs
    BY <1>3 DEF Send
  <2>. QED BY <1>0, <2>1
<1>4. ASSUME t' = t PROVE t' \in Nat /\ t <= t'
  BY <1>0, <1>4
<1>5. CASE Slaves
  BY <1>4, <1>5 DEF Slaves, Stray, Answer
<1>6. CASE Drain
  BY <1>4, <1>6 DEF Drain, DrainFrame, DrainIdle, Drained, DrainEscape
<1>7. CASE WriteCall \/ SendFails \/ SendNothing
  BY <1>4, <1>7 DEF WriteCall, SendFails, SendNothing
<1>8. CASE Read
  BY <1>4, <1>8 DEF Read, ReadCall, ProcessFrame, FrameDuplicate, FrameMatch, FrameOther,
                    TakeFrame, ReadTimesOut, ReadGivesUp
<1>9. CASE UNCHANGED vars
  BY <1>4, <1>9 DEF vars
<1>. QED BY <1>1, <1>2, <1>3, <1>5, <1>6, <1>7, <1>8, <1>9 DEF Next, Write

\* A read that returns closes the call.
LEMMA DrainEnds ==
  ASSUME Drain, ~DrainFrame
  PROVE  /\ pc = "writeDrain" \/ \E ok \in BOOLEAN : ReadReturn(ok)
         /\ CallOver /\ UNCHANGED <<t, strays, txSeq, accepted, cur, calls>>
         /\ pc = "writeDrain" => UNCHANGED <<adu, sent>>
         /\ pc # "writeDrain" => UNCHANGED cleared
<1>1. CASE DrainIdle
  <2>1. (got # NoFrame) \in BOOLEAN
    OBVIOUS
  <2>2. CASE pc = "writeDrain"
    BY <1>1, <2>2 DEF DrainIdle, Drained, wire
  <2>3. CASE pc # "writeDrain"
    <3>1. ReadReturn(got # NoFrame) /\ UNCHANGED <<t, wire, txSeq, accepted, cur, calls, cleared>>
      BY <1>1, <2>3 DEF DrainIdle, Drained
    <3>2. CallOver
      BY <3>1 DEF ReadReturn
    <3>. QED BY <2>1, <2>3, <3>1, <3>2 DEF wire
  <2>. QED BY <2>2, <2>3
<1>2. CASE DrainEscape
  BY <1>2 DEF DrainEscape, ReadReturn
<1>. QED BY <1>1, <1>2 DEF Drain

\* Requests are never taken back, and only the one in the ADU is told of.
Kept(q) == sent'[q].at = sent[q].at /\ sent'[q].asked = sent[q].asked
Quiescent(q) == sent'[q].fate = sent[q].fate /\ sent'[q].took = sent[q].took
LEMMA SentKept ==
  ASSUME Typed, [Next]_vars
  PROVE  /\ ~Send => Len(sent') = Len(sent)
         /\ \A q \in 1..Len(sent) : Kept(q) /\ (q # cur \/ ~Drain => Quiescent(q))
<1>1. CASE Send
  BY <1>1, SentSend DEF Kept, Quiescent
<1>2. ASSUME NEW q \in 1..Len(sent), Answer(q)
      PROVE  /\ Len(sent') = Len(sent)
             /\ \A r \in 1..Len(sent) : Kept(r) /\ Quiescent(r)
  BY <1>2, SentAnswer DEF Kept, Quiescent
<1>3. ASSUME UNCHANGED sent
      PROVE  /\ Len(sent') = Len(sent)
             /\ \A r \in 1..Len(sent) : Kept(r) /\ Quiescent(r)
  BY <1>3 DEF Kept, Quiescent
<1>4. CASE Drain
  <2>1. CASE UNCHANGED sent
    BY <1>3, <2>1
  <2>2. ASSUME NEW ok \in BOOLEAN, ReadReturn(ok)
        PROVE  /\ Len(sent') = Len(sent)
               /\ \A r \in 1..Len(sent) : Kept(r) /\ (r # cur => Quiescent(r))
    BY <2>2, SentReturn DEF Kept, Quiescent
  <2>. QED BY <1>4, <2>1, <2>2, DrainEnds DEF DrainFrame
<1>5. CASE Tick \/ Rest \/ Stray
  BY <1>3, <1>5 DEF Tick, Rest, Stray
<1>6. CASE WriteCall \/ SendFails \/ SendNothing
  BY <1>3, <1>6 DEF WriteCall, SendFails, SendNothing
<1>7. CASE Read
  BY <1>3, <1>7 DEF Read, ReadCall, ProcessFrame, FrameDuplicate, FrameMatch, FrameOther,
                    TakeFrame, ReadTimesOut, ReadGivesUp
<1>8. CASE UNCHANGED vars
  BY <1>3, <1>8 DEF vars
<1>. QED BY <1>1, <1>2, <1>4, <1>5, <1>6, <1>7, <1>8 DEF Next, Slaves, Write

-----------------------------------------------------------------------------
(* The inductive invariant *)

\* Nothing bears a later time than now, and the queue is in the order of its stamps.
Ordered(s, low, high) ==
  \A i \in 1..Len(s) : /\ low <= s[i].at /\ s[i].at <= high
                       /\ \A j \in 1..i : s[j].at <= s[i].at
Clock ==
  /\ cleared <= t /\ lastAt <= t /\ began <= t /\ drainFrom <= t /\ accepted.at <= t
  /\ got # NoFrame => cleared <= got.at /\ got.at <= t
  /\ \A q \in 1..Len(sent) : sent[q].at <= t
  /\ Ordered(queue, cleared, t) /\ Ordered(queue, accepted.at, t)

\* Every frame is a stray, or the answer to the request it is an answer to.
Origin ==
  /\ \A i \in 1..Len(queue) : Known(queue[i])
  /\ got # NoFrame => Known(got)
  /\ \A q \in 1..Len(sent) : sent[q].took # NoFrame => Known(sent[q].took)

\* The ADU a read waits with still names the request that went out last, or was
\* scrambled because it was empty.
Asking == \/ pc \in {"read", "readDrain"}
          \/ pc = "idle" /\ result \in {"sent", "failed", "success"}
InHand ==
  /\ cur # 0 => cur = Len(sent) /\ Asking
  /\ Asking => IF cur = 0 THEN adu.fc = "crc"
               ELSE adu.unit = sent[cur].asked.unit /\ adu.fc = sent[cur].asked.fc
  /\ got # NoFrame => cur # 0 /\ pc = "readDrain" /\ got.req # 0
  /\ pc = "idle" /\ result = "success" => cur # 0

\* A read that drains without a frame had the shortest wait.
Waited ==
  /\ pc \in {"read", "readDrain"} /\ cur # 0 => sent[cur].at <= began
  /\ pc = "read" => /\ firstAt # Never => firstAt >= began
                    /\ lateEnd # Never => lateEnd - began >= ReadTimeout
  /\ pc = "readDrain" => /\ drainFrom >= began
                         /\ got = NoFrame => drainFrom - began >= ShortestWait

\* A request that was given up had it too, before the ring was emptied for the next one.
GivenUp ==
  \A q \in 1..Len(sent) : sent[q].fate = "given up" =>
    /\ t - sent[q].at >= ShortestWait
    /\ q # cur /\ (cur # 0 \/ pc = "gate") => cleared - sent[q].at >= ShortestWait

\* The transport remembers the frame the last matched request was matched with.
Memory ==
  /\ accepted.seq <= txSeq
  /\ got # NoFrame => accepted.frame = got.frame /\ accepted.at = got.at
  /\ \A q \in 1..Len(sent) :
       /\ sent[q].fate = "answered" => sent[q].took # NoFrame
       /\ sent[q].took # NoFrame /\ ~Forgotten(q) /\ got = NoFrame =>
            /\ accepted.frame = sent[q].took.frame /\ accepted.at = sent[q].took.at
            /\ cur # 0 /\ q # cur => accepted.seq # txSeq

\* What is sent is counted.
Counted == txSeq + (IF pc \in {"writeDrain", "gate"} THEN 1 ELSE 0) <= calls.write
           /\ calls.write <= MaxWrites

IInv == /\ Typed /\ Clock /\ Origin /\ InHand /\ Waited /\ GivenUp /\ Memory /\ Counted
        /\ AnswersTheRequest
-----------------------------------------------------------------------------
(* Time stamps *)

\* Where a queue is in order, so is what is left of it, and what comes in now is later.
LEMMA StampTypes ==
  ASSUME NEW s \in Seq(Entry), NEW i \in 1..Len(s)
  PROVE  s[i] \in Entry /\ s[i].at \in Nat
<1>1. s[i] \in Entry
  BY ElementOfSeq
<1>. QED BY <1>1 DEF Entry

LEMMA OrderedWiden ==
  ASSUME NEW s \in Seq(Entry), NEW low \in Nat, NEW high \in Nat, NEW later \in Nat,
         Ordered(s, low, high), high <= later
  PROVE  Ordered(s, low, later)
<1>1. ASSUME NEW i \in 1..Len(s)
      PROVE  low <= s[i].at /\ s[i].at <= later /\ \A j \in 1..i : s[j].at <= s[i].at
  <2>1. /\ s[i].at \in Nat /\ low <= s[i].at /\ s[i].at <= high
        /\ \A j \in 1..i : s[j].at <= s[i].at
    BY StampTypes DEF Ordered
  <2>2. s[i].at <= later
    BY ONLY <2>1, high \in Nat, later \in Nat, high <= later
  <2>. QED BY <2>1, <2>2
<1>. QED BY <1>1 DEF Ordered

LEMMA OrderedEmpty ==
  ASSUME NEW low, NEW high PROVE Ordered(<<>>, low, high)
BY DEF Ordered

LEMMA OrderedTail ==
  ASSUME NEW s \in Seq(Entry), s # <<>>, NEW low \in Nat, NEW high \in Nat,
         Ordered(s, low, high)
  PROVE  /\ Ordered(Tail(s), low, high) /\ Ordered(Tail(s), Head(s).at, high)
         /\ low <= Head(s).at /\ Head(s).at <= high
<1>1. Len(s) \in Nat /\ Len(s) # 0
  BY EmptySeq
<1>2. /\ Head(s) = s[1] /\ Len(Tail(s)) = Len(s) - 1
      /\ \A i \in 1..Len(Tail(s)) : Tail(s)[i] = s[i + 1]
  BY HeadTailProperties
<1>3. ASSUME NEW i \in 1..Len(Tail(s))
      PROVE  /\ i + 1 \in 1..Len(s) /\ 1 \in 1..(i + 1)
             /\ \A j \in 1..i : j \in 1..Len(Tail(s)) /\ j + 1 \in 1..(i + 1)
  BY <1>1, <1>2
<1>4. ASSUME NEW i \in 1..Len(Tail(s))
      PROVE  /\ low <= Tail(s)[i].at /\ Tail(s)[i].at <= high /\ Head(s).at <= Tail(s)[i].at
             /\ \A j \in 1..i : Tail(s)[j].at <= Tail(s)[i].at
  BY <1>2, <1>3 DEF Ordered
<1>5. 1 \in 1..Len(s)
  BY <1>1
<1>6. low <= Head(s).at /\ Head(s).at <= high
  BY <1>2, <1>5 DEF Ordered
<1>. QED BY <1>4, <1>6 DEF Ordered

LEMMA OrderedAppend ==
  ASSUME NEW s \in Seq(Entry), NEW low \in Nat, NEW high \in Nat, NEW e \in Entry,
         Ordered(s, low, high), e.at = high, low <= high
  PROVE  Ordered(Append(s, e), low, high)
<1>1. /\ Len(s) \in Nat /\ Len(Append(s, e)) = Len(s) + 1
      /\ \A i \in 1..Len(s) : Append(s, e)[i] = s[i]
      /\ Append(s, e)[Len(s) + 1] = e
  BY AppendProperties, LenProperties
<1>2. ASSUME NEW i \in 1..Len(s)
      PROVE  /\ low <= Append(s, e)[i].at /\ Append(s, e)[i].at <= high
             /\ \A j \in 1..i : Append(s, e)[j].at <= Append(s, e)[i].at
  <2>1. \A j \in 1..i : j \in 1..Len(s)
    BY <1>1
  <2>. QED BY <1>1, <2>1 DEF Ordered
<1>3. ASSUME NEW i \in 1..Len(Append(s, e)), i \notin 1..Len(s)
      PROVE  /\ i = Len(s) + 1 /\ Append(s, e)[i] = e
             /\ \A j \in 1..i : j \in 1..Len(s) \/ j = i
  <2>1. Len(s) \in Nat /\ i \in 1..(Len(s) + 1) /\ i \notin 1..Len(s)
    BY <1>1, <1>3
  <2>2. i = Len(s) + 1 /\ \A j \in 1..i : j \in 1..Len(s) \/ j = i
    BY ONLY <2>1
  <2>. QED BY <1>1, <2>2
<1>4. ASSUME NEW i \in 1..Len(Append(s, e)), i \notin 1..Len(s)
      PROVE  /\ low <= Append(s, e)[i].at /\ Append(s, e)[i].at <= high
             /\ \A j \in 1..i : Append(s, e)[j].at <= Append(s, e)[i].at
  <2>1. /\ i = Len(s) + 1 /\ Append(s, e)[i] = e /\ e.at \in Nat
        /\ \A j \in 1..i : j \in 1..Len(s) \/ j = i
    BY <1>3, <1>4 DEF Entry
  <2>2. high <= high
    BY ONLY high \in Nat
  <2>3. Append(s, e)[i].at = high
    BY <2>1
  <2>4. ASSUME NEW j \in 1..i PROVE Append(s, e)[j].at <= Append(s, e)[i].at
    BY <1>2, <2>1, <2>2, <2>3, Zenon
  <2>. QED BY <2>2, <2>3, <2>4
<1>. QED BY <1>2, <1>4 DEF Ordered

\* What of the memory has a type of its own.
LEMMA AcceptedTypes ==
  ASSUME Typed
  PROVE  accepted.at \in Nat /\ accepted.seq \in Nat
<1>1. CASE accepted \in [frame : Frame, at : Nat, seq : Nat]
  BY <1>1
<1>2. CASE accepted = NoneYet
  BY <1>2 DEF NoneYet
<1>. QED BY <1>1, <1>2, Types

LEMMA ClockInit == Init => Clock
BY OrderedEmpty DEF Init, Clock, NoneYet

LEMMA ClockNext == Typed /\ Clock /\ [Next]_vars => Clock'
<1>. SUFFICES ASSUME Typed, Clock, [Next]_vars PROVE Clock'
  OBVIOUS
<1>1. /\ t \in Nat /\ t' \in Nat /\ t <= t' /\ cleared \in Nat /\ lastAt \in Nat
      /\ began \in Nat /\ drainFrom \in Nat /\ accepted.at \in Nat
  BY Types, AcceptedTypes, TimeGoes
<1>2. /\ cleared <= t /\ lastAt <= t /\ began <= t /\ drainFrom <= t /\ accepted.at <= t
  BY DEF Clock
<1>a. got # NoFrame => got.at \in Nat /\ cleared <= got.at /\ got.at <= t
  BY Types DEF Clock, Entry
<1>b. /\ queue \in Seq(Entry)
      /\ Ordered(queue, cleared, t) /\ Ordered(queue, accepted.at, t)
  BY Types DEF Clock
<1>3. \A q \in 1..Len(sent') : sent'[q].at <= t'
  <2>1. ASSUME NEW q \in 1..Len(sent) PROVE sent'[q].at <= t'
    <3>1. sent[q].at \in Nat /\ sent[q].at <= t /\ sent'[q].at = sent[q].at
      BY SentFields, SentKept DEF Kept, Clock
    <3>. QED BY ONLY <1>1, <3>1
  <2>2. CASE Send
    <3>1. Len(sent') = Len(sent) + 1 /\ sent'[Len(sent')].at = t'
      <4>1. PICK asked : sent'[Len(sent')] = Fresh(asked) /\ Len(sent') = Len(sent) + 1
        BY <2>2, SentSend
      <4>. QED BY <4>1 DEF Fresh
    <3>2. \A q \in 1..Len(sent') : q \in 1..Len(sent) \/ q = Len(sent')
      <4>1. Len(sent) \in Nat
        BY Types, LenProperties
      <4>. QED BY <3>1, <4>1
    <3>3. t' <= t'
      BY <1>1
    <3>. QED BY <2>1, <3>1, <3>2, <3>3
  <2>. QED BY <2>1, <2>2, SentKept
<1>4. ASSUME UNCHANGED <<cleared, lastAt, began, drainFrom, accepted, got, queue>>
      PROVE  Clock'
  <2>1. Ordered(queue, cleared, t') /\ Ordered(queue, accepted.at, t')
    BY <1>1, <1>b, OrderedWiden
  <2>2. /\ cleared <= t' /\ lastAt <= t' /\ began <= t' /\ drainFrom <= t'
        /\ accepted.at <= t'
    BY ONLY <1>1, <1>2
  <2>3. got # NoFrame => cleared <= got.at /\ got.at <= t'
    BY ONLY <1>1, <1>a
  <2>. QED BY <1>3, <1>4, <2>1, <2>2, <2>3 DEF Clock
<1>5. CASE Tick \/ Rest \/ Send \/ SendFails \/ SendNothing \/ UNCHANGED vars
  BY <1>4, <1>5 DEF Tick, Rest, Send, SendFails, SendNothing, vars, wire, memory, call
<1>6. CASE Slaves
  <2>1. /\ \E e \in Entry : queue' = Append(queue, e) /\ e.at = t
        /\ lastAt' = t
    BY <1>6, StrayQueue, AnswerQueue DEF Slaves
  <2>2. UNCHANGED <<t, cleared, began, drainFrom, accepted, got>>
    BY <1>6 DEF Slaves, Stray, Answer, memory, call
  <2>3. Ordered(queue', cleared, t) /\ Ordered(queue', accepted.at, t)
    BY <1>1, <1>2, <1>b, <2>1, OrderedAppend
  <2>4. lastAt' <= t
    BY ONLY <1>1, <2>1
  <2>. QED BY <1>2, <1>a, <1>3, <2>2, <2>3, <2>4 DEF Clock
<1>7. CASE DrainFrame
  <2>1. /\ queue # <<>> /\ queue' = Tail(queue)
        /\ UNCHANGED <<t, cleared, lastAt, began, drainFrom, accepted, got>>
    BY <1>7 DEF DrainFrame, call
  <2>2. Ordered(queue', cleared, t) /\ Ordered(queue', accepted.at, t)
    BY <1>1, <1>b, <2>1, OrderedTail
  <2>. QED BY <1>2, <1>a, <1>3, <2>1, <2>2 DEF Clock
<1>8. CASE Drain /\ ~DrainFrame
  <2>1. t' = t /\ accepted' = accepted /\ began' = 0 /\ drainFrom' = 0 /\ got' = NoFrame
    BY <1>8, DrainEnds DEF CallOver
  <2>2. queue' = <<>> /\ lastAt' \in {0, lastAt} /\ cleared' \in {cleared, t}
    BY <1>8 DEF Drain, DrainIdle, Drained, DrainEscape, wire
  <2>3. cleared' <= t /\ lastAt' <= t /\ 0 <= t
    BY ONLY <1>1, <1>2, <2>2
  <2>. QED BY <1>2, <1>3, <2>1, <2>2, <2>3, OrderedEmpty DEF Clock
<1>9. CASE WriteCall \/ ReadCall \/ ReadTimesOut \/ ReadGivesUp
  <2>1. UNCHANGED <<t, cleared, lastAt, accepted, queue>>
    BY <1>9 DEF WriteCall, ReadCall, ReadTimesOut, ReadGivesUp, wire
  <2>2. began' \in {began, t} /\ drainFrom' \in {drainFrom, t} /\ got' \in {got, NoFrame}
    BY <1>9 DEF WriteCall, ReadCall, ReadTimesOut, ReadGivesUp
  <2>3. began' <= t /\ drainFrom' <= t
    BY ONLY <1>1, <1>2, <2>2
  <2>. QED BY <1>2, <1>a, <1>b, <1>3, <2>1, <2>2, <2>3 DEF Clock
<1>10. CASE ProcessFrame
  <2>1. /\ queue # <<>> /\ queue' = Tail(queue)
        /\ UNCHANGED <<t, cleared, lastAt, began>> /\ drainFrom' \in {drainFrom, t}
    BY <1>10 DEF ProcessFrame, FrameDuplicate, FrameMatch, FrameOther, TakeFrame, Resume
  <2>2. \/ UNCHANGED <<got, accepted>>
        \/ got' = Head(queue) /\ accepted'.at = Head(queue).at
    <3>1. CASE FrameMatch
      BY <3>1 DEF FrameMatch, Oldest
    <3>2. Resume => UNCHANGED <<got, accepted>>
      BY DEF Resume
    <3>3. FrameDuplicate \/ FrameOther => Resume
      BY DEF FrameDuplicate, FrameOther
    <3>. QED BY <1>10, <3>1, <3>2, <3>3 DEF ProcessFrame
  <2>3. /\ Ordered(queue', cleared, t) /\ Ordered(queue', accepted.at, t)
        /\ Ordered(queue', Head(queue).at, t)
        /\ cleared <= Head(queue).at /\ Head(queue).at <= t
    BY <1>1, <1>b, <2>1, OrderedTail
  <2>4. drainFrom' <= t
    BY ONLY <1>1, <1>2, <2>1
  <2>5. CASE UNCHANGED <<got, accepted>>
    BY <1>2, <1>a, <1>3, <2>1, <2>3, <2>4, <2>5 DEF Clock
  <2>6. CASE got' = Head(queue) /\ accepted'.at = Head(queue).at
    BY <1>2, <1>3, <2>1, <2>3, <2>4, <2>6 DEF Clock
  <2>. QED BY <2>2, <2>5, <2>6
<1>. QED BY <1>5, <1>6, <1>7, <1>8, <1>9, <1>10 DEF Next, Write, Read, Drain

-----------------------------------------------------------------------------
(* Whose frames there are *)

\* What a step does to the queue.
LEMMA QueueSteps ==
  ASSUME Typed, [Next]_vars
  PROVE  \/ queue' = queue \/ queue' = <<>>
         \/ queue # <<>> /\ queue' = Tail(queue)
         \/ \E e \in Entry : queue' = Append(queue, e) /\ e.at = t /\ Known(e)
<1>1. CASE Tick \/ Rest \/ UNCHANGED vars
  BY <1>1 DEF Tick, Rest, vars, wire
<1>2. CASE Slaves
  BY <1>2, StrayQueue, AnswerQueue DEF Slaves
<1>3. CASE Drain
  <2>1. CASE DrainIdle
    BY <2>1 DEF DrainIdle, Drained, wire
  <2>. QED BY <1>3, <2>1 DEF Drain, DrainFrame, DrainEscape
<1>4. CASE Write
  BY <1>4 DEF Write, WriteCall, Send, SendFails, SendNothing, wire
<1>5. CASE ReadCall \/ ReadTimesOut \/ ReadGivesUp
  BY <1>5 DEF ReadCall, ReadTimesOut, ReadGivesUp, wire
<1>6. CASE ProcessFrame
  BY <1>6 DEF ProcessFrame, FrameDuplicate, FrameMatch, FrameOther, TakeFrame
<1>. QED BY <1>1, <1>2, <1>3, <1>4, <1>5, <1>6 DEF Next, Read

\* What a step does to the frame in hand, and to the memory of it.
LEMMA GotSteps ==
  ASSUME [Next]_vars
  PROVE  \/ FrameMatch
         \/ accepted' = accepted /\ (UNCHANGED got \/ got' = NoFrame)
<1>1. CASE Tick \/ Rest \/ UNCHANGED vars
  BY <1>1 DEF Tick, Rest, vars, memory, call
<1>2. CASE Slaves
  BY <1>2 DEF Slaves, Stray, Answer, memory, call
<1>3. CASE Drain
  BY <1>3, DrainEnds DEF DrainFrame, CallOver, call
<1>4. CASE Write
  BY <1>4 DEF Write, WriteCall, Send, SendFails, SendNothing, memory, call
<1>5. CASE ReadCall \/ ReadTimesOut \/ ReadGivesUp
  BY <1>5 DEF ReadCall, ReadTimesOut, ReadGivesUp
<1>6. CASE ProcessFrame
  <2>1. Resume => UNCHANGED <<got, accepted>>
    BY DEF Resume
  <2>. QED BY <1>6, <2>1 DEF ProcessFrame, FrameDuplicate, FrameOther
<1>. QED BY <1>1, <1>2, <1>3, <1>4, <1>5, <1>6 DEF Next, Read

\* The frame a read matches is the oldest one.
LEMMA MatchGot ==
  ASSUME Typed, FrameMatch
  PROVE  /\ queue # <<>> /\ got' = Head(queue) /\ got' \in Entry /\ got' # NoFrame
         /\ queue' = Tail(queue)
<1>1. queue # <<>> /\ got' = Head(queue) /\ queue' = Tail(queue)
  BY DEF FrameMatch, TakeFrame, Oldest
<1>. QED BY <1>1, QueueTail, EntryIsNotNoFrame

\* A request on the wire stays what it was: a frame that is known stays known.
Then(e) == IF e.req = 0 THEN e.frame = StrayFrame
           ELSE e.req \in 1..Len(sent') /\ e.frame = AnswerTo(sent'[e.req].asked)
LEMMA KnownKept ==
  ASSUME Typed, [Next]_vars, NEW e, Known(e)
  PROVE  Then(e)
<1>1. CASE e.req = 0
  BY <1>1 DEF Known, Then
<1>2. CASE e.req # 0
  <2>1. e.req \in 1..Len(sent) /\ e.frame = AnswerTo(sent[e.req].asked)
    BY <1>2 DEF Known
  <2>2. sent'[e.req].asked = sent[e.req].asked
    BY <2>1, SentKept DEF Kept
  <2>3. e.req \in 1..Len(sent')
    <3>1. Len(sent) \in Nat /\ (Len(sent') = Len(sent) \/ Len(sent') = Len(sent) + 1)
      BY Types, LenProperties, SentKept, SentSend
    <3>. QED BY ONLY <2>1, <3>1
  <2>. QED BY <1>2, <2>1, <2>2, <2>3 DEF Then
<1>. QED BY <1>1, <1>2

\* What a step does to the frames the requests were matched with.
LEMMA TookSteps ==
  ASSUME Typed, [Next]_vars, NEW q \in 1..Len(sent')
  PROVE  \/ q \in 1..Len(sent) /\ sent'[q].took = sent[q].took
         \/ q \in 1..Len(sent) /\ q = cur /\ sent'[q].took = got
         \/ Send /\ q = Len(sent') /\ sent'[q].took = NoFrame /\ sent'[q].fate = "unread"
<1>1. CASE Send
  <2>1. PICK asked : /\ Len(sent') = Len(sent) + 1
                     /\ sent'[Len(sent')] = Fresh(asked)
                     /\ \A r \in 1..Len(sent) : sent'[r] = sent[r]
    BY <1>1, SentSend
  <2>2. Len(sent) \in Nat
    BY Types, LenProperties
  <2>3. q \in 1..Len(sent) \/ q = Len(sent')
    BY <2>1, <2>2
  <2>4. Fresh(asked).took = NoFrame /\ Fresh(asked).fate = "unread"
    BY DEF Fresh
  <2>. QED BY <1>1, <2>1, <2>3, <2>4
<1>2. CASE ~Send
  <2>1. q \in 1..Len(sent)
    BY <1>2, SentKept
  <2>2. CASE q # cur \/ ~Drain
    BY <2>1, <2>2, SentKept DEF Quiescent
  <2>3. CASE q = cur /\ Drain /\ ~UNCHANGED sent
    <3>1. PICK ok \in BOOLEAN : ReadReturn(ok)
      BY <2>3, DrainEnds DEF DrainFrame
    <3>2. cur # 0
      BY <3>1, <2>3 DEF ReadReturn
    <3>. QED BY <2>1, <2>3, <3>1, <3>2, SentReturn
  <2>4. CASE UNCHANGED sent
    BY <2>1, <2>4
  <2>. QED BY <2>2, <2>3, <2>4
<1>. QED BY <1>1, <1>2

LEMMA OriginInit == Init => Origin
BY DEF Init, Origin

LEMMA OriginNext == Typed /\ Origin /\ [Next]_vars => Origin'
<1>. SUFFICES ASSUME Typed, Origin, [Next]_vars PROVE Origin'
  OBVIOUS
<1>1. \A i \in 1..Len(queue) : Known(queue[i])
  BY DEF Origin
<1>2. ASSUME NEW i \in 1..Len(queue') PROVE Then(queue'[i])
  <2>1. CASE queue' = queue
    BY <1>1, <2>1, KnownKept
  <2>2. CASE queue' = <<>>
    BY <2>2
  <2>3. CASE queue # <<>> /\ queue' = Tail(queue)
    <3>1. i + 1 \in 1..Len(queue) /\ queue'[i] = queue[i + 1]
      BY <2>3, QueueTail
    <3>. QED BY <1>1, <3>1, KnownKept
  <2>4. ASSUME NEW e \in Entry, queue' = Append(queue, e), Known(e)
        PROVE  Then(queue'[i])
    <3>1. queue \in Seq(Entry)
      BY Types
    <3>2. /\ Len(queue') = Len(queue) + 1 /\ Len(queue) \in Nat
          /\ queue'[Len(queue) + 1] = e /\ \A j \in 1..Len(queue) : queue'[j] = queue[j]
      BY <2>4, <3>1, AppendProperties, LenProperties
    <3>3. i \in 1..Len(queue) \/ i = Len(queue) + 1
      BY <3>2
    <3>. QED BY <1>1, <2>4, <3>2, <3>3, KnownKept
  <2>. QED BY <2>1, <2>2, <2>3, <2>4, QueueSteps
<1>3. got' # NoFrame => Then(got')
  <2>1. CASE FrameMatch
    <3>1. got' = queue[1] /\ 1 \in 1..Len(queue)
      BY <2>1, MatchGot, QueueTail
    <3>. QED BY <1>1, <3>1, KnownKept
  <2>2. CASE ~FrameMatch
    BY <2>2, GotSteps, KnownKept DEF Origin
  <2>. QED BY <2>1, <2>2
<1>4. ASSUME NEW q \in 1..Len(sent'), sent'[q].took # NoFrame PROVE Then(sent'[q].took)
  BY <1>4, TookSteps, KnownKept DEF Origin
<1>. QED BY <1>2, <1>3, <1>4 DEF Origin, Known, Then

-----------------------------------------------------------------------------
(* What the ADU asks *)

\* The ADU names what the request was sent for; an ADU that was scrambled names nothing.
Names(a, asked) == a.unit = asked.unit /\ a.fc = asked.fc
LEMMA AduFields ==
  ASSUME NEW a \in Adus, NEW ok \in BOOLEAN
  PROVE  /\ [a EXCEPT !.full = ok].unit = a.unit /\ [a EXCEPT !.full = ok].fc = a.fc
         /\ [a EXCEPT !.full = ok].exc = a.exc /\ Scrambled(a).fc = "crc"
BY DEF Adus, Scrambled

\* A match is the answer to some request of the same unit and function.
LEMMA MatchIsAsked ==
  ASSUME Typed, Origin, InHand, FrameMatch
  PROVE  /\ cur # 0 /\ got'.req # 0
         /\ adu'.unit = adu.unit /\ adu'.fc = adu.fc
<1>1. pc = "read" /\ queue # <<>> /\ Matches(Oldest.frame) /\ Oldest = Head(queue)
      /\ got' = Oldest
  BY DEF FrameMatch, TakeFrame, Oldest
<1>2. adu'.unit = Oldest.frame.unit /\ adu'.fc = Oldest.frame.fc
  BY DEF FrameMatch
<1>3. Oldest.frame.unit = adu.unit /\ Oldest.frame.fc = adu.fc
  BY <1>1 DEF Matches
<1>4. Oldest.frame \in Frame
  BY TakeTyped DEF FrameMatch
<1>5. Asking
  BY <1>1 DEF Asking
<1>6. adu.fc # "crc"
  BY <1>3, <1>4, FrameFields
<1>7. cur # 0
  BY <1>5, <1>6 DEF InHand
<1>8. sent[cur].asked \in Requests /\ adu.unit = sent[cur].asked.unit
  <2>1. cur \in 1..Len(sent)
    BY <1>7, CurIsSent
  <2>. QED BY <1>5, <1>7, <2>1, SentFields DEF InHand
<1>9. adu.unit # "other"
  BY <1>8, BusAssumption
<1>10. Known(Oldest)
  BY <1>1, QueueTail DEF Origin
<1>11. Oldest.req # 0
  BY <1>3, <1>9, <1>10 DEF Known, StrayFrame
<1>. QED BY <1>1, <1>2, <1>3, <1>7, <1>11

LEMMA InHandInit == Init => InHand
BY DEF Init, InHand, Asking

\* A step that leaves the call alone.
LEMMA InHandIdle ==
  ASSUME Typed, InHand, [Next]_vars, ~Send, UNCHANGED <<pc, result, cur>>,
         adu'.unit = adu.unit, adu'.fc = adu.fc, got' = got
  PROVE  InHand'
<1>1. Len(sent') = Len(sent)
  BY SentKept
<1>2. CASE cur = 0
  BY <1>2 DEF InHand, Asking
<1>3. CASE cur # 0
  <2>1. cur \in 1..Len(sent)
    BY <1>3, CurIsSent
  <2>2. sent'[cur].asked = sent[cur].asked
    BY <2>1, SentKept DEF Kept
  <2>. QED BY <1>1, <1>3, <2>2 DEF InHand, Asking
<1>. QED BY <1>2, <1>3

LEMMA InHandNext == Typed /\ Origin /\ InHand /\ [Next]_vars => InHand'
<1>. SUFFICES ASSUME Typed, Origin, InHand, [Next]_vars PROVE InHand'
  OBVIOUS
<1>1. CASE Tick \/ Rest \/ Slaves \/ DrainFrame \/ ReadTimesOut \/ UNCHANGED vars
  <2>1. UNCHANGED <<pc, result, cur, adu, got>>
    BY <1>1 DEF Tick, Rest, Slaves, Stray, Answer, DrainFrame, ReadTimesOut, vars, call
  <2>2. ~Send
    <3>1. Send => pc = "gate" /\ pc' = "idle"
      BY DEF Send
    <3>. QED BY <2>1, <3>1
  <2>. QED BY <2>1, <2>2, InHandIdle
<1>2. CASE Drain /\ ~DrainFrame
  <2>1. Draining
    BY <1>2 DEF Drain, DrainIdle, Drained, DrainEscape
  <2>2. got' = NoFrame /\ cur' = cur
    BY <1>2, DrainEnds DEF CallOver
  <2>3. CASE pc = "writeDrain"
    <3>1. cur = 0
      BY <2>3 DEF InHand, Asking
    <3>2. pc' = "gate" \/ (pc' = "idle" /\ result' = "refused")
      BY <1>2, <2>3 DEF Drain, DrainIdle, Drained, DrainEscape
    <3>. QED BY <2>2, <3>1, <3>2 DEF InHand, Asking
  <2>4. CASE pc = "readDrain"
    <3>1. PICK ok \in BOOLEAN : ReadReturn(ok) /\ (ok => got # NoFrame)
      <4>1. (got # NoFrame) \in BOOLEAN
        OBVIOUS
      <4>. QED BY <1>2, <2>4, <4>1 DEF Drain, DrainIdle, Drained, DrainEscape
    <3>2. adu' = [adu EXCEPT !.full = ok] /\ pc' = "idle"
          /\ result' = IF ok THEN "success" ELSE "failed"
      BY <3>1 DEF ReadReturn
    <3>3. adu'.unit = adu.unit /\ adu'.fc = adu.fc
      BY <3>2, AduFields, Types
    <3>4. Len(sent') = Len(sent)
      BY <3>1, SentReturn
    <3>5. cur # 0 => sent'[cur].asked = sent[cur].asked
      <4>1. cur # 0 => cur \in 1..Len(sent)
        BY CurIsSent
      <4>. QED BY <3>1, <4>1, SentReturn
    <3>6. Asking /\ Asking'
      BY <2>4, <3>2 DEF Asking
    <3>7. result' = "success" => cur # 0
      BY <3>1, <3>2 DEF InHand
    <3>. QED BY <2>2, <3>2, <3>3, <3>4, <3>5, <3>6, <3>7 DEF InHand
  <2>. QED BY <2>1, <2>3, <2>4 DEF Draining
<1>3. CASE WriteCall
  <2>1. cur' = 0 /\ pc' = "writeDrain" /\ got' = got /\ pc = "idle"
    BY <1>3 DEF WriteCall
  <2>. QED BY <2>1 DEF InHand, Asking
<1>4. CASE Send
  <2>1. PICK asked \in Requests : adu = FilledBy(asked) /\ cur' = Len(sent')
                                  /\ sent'[Len(sent')] = Fresh(asked) /\ cur' # 0
    BY <1>4, SentSend
  <2>2. sent'[cur'].asked.unit = adu.unit /\ sent'[cur'].asked.fc = adu.fc
    BY <2>1 DEF FilledBy, Fresh
  <2>3. adu' = adu /\ pc' = "idle" /\ result' = "sent" /\ got' = got /\ pc = "gate"
    BY <1>4 DEF Send, call
  <2>. QED BY <2>1, <2>2, <2>3 DEF InHand, Asking
<1>5. CASE SendFails
  <2>1. cur' = cur /\ pc' = "idle" /\ result' = "refused" /\ got' = got /\ pc = "gate"
    BY <1>5 DEF SendFails, call
  <2>. QED BY <2>1 DEF InHand, Asking
<1>6. CASE SendNothing
  <2>1. cur' = cur /\ pc' = "idle" /\ result' = "sent" /\ got' = got /\ pc = "gate"
        /\ adu' = Scrambled(adu)
    BY <1>6 DEF SendNothing, call
  <2>2. adu'.fc = "crc"
    BY <2>1, AduFields, Types
  <2>. QED BY <2>1, <2>2 DEF InHand, Asking
<1>7. CASE ReadCall
  <2>1. /\ pc = "idle" /\ result \in {"sent", "failed"} /\ pc' = "read" /\ result' = result
        /\ UNCHANGED <<cur, sent>> /\ got' = NoFrame /\ adu' = [adu EXCEPT !.full = FALSE]
    BY <1>7 DEF ReadCall
  <2>2. adu'.unit = adu.unit /\ adu'.fc = adu.fc
    BY <2>1, AduFields, Types
  <2>. QED BY <2>1, <2>2 DEF InHand, Asking
<1>8. CASE FrameMatch
  <2>1. pc = "read" /\ pc' = "readDrain" /\ UNCHANGED <<result, cur, sent>>
    BY <1>8 DEF FrameMatch, TakeFrame
  <2>2. cur # 0 /\ got'.req # 0 /\ adu'.unit = adu.unit /\ adu'.fc = adu.fc
    BY <1>8, MatchIsAsked
  <2>. QED BY <2>1, <2>2 DEF InHand, Asking
<1>9. CASE FrameDuplicate \/ FrameOther \/ ReadGivesUp
  <2>1. /\ pc = "read" /\ pc' \in {"read", "readDrain"}
        /\ UNCHANGED <<result, cur, sent, got, adu>>
    <3>1. Resume => pc' \in {"read", "readDrain"} /\ UNCHANGED <<got, adu>>
      BY DEF Resume
    <3>2. TakeFrame => pc = "read" /\ UNCHANGED <<result, cur, sent>>
      BY DEF TakeFrame
    <3>. QED BY <1>9, <3>1, <3>2 DEF FrameDuplicate, FrameOther, ReadGivesUp, Silent
  <2>. QED BY <2>1 DEF InHand, Asking
<1>. QED BY <1>1, <1>2, <1>3, <1>4, <1>5, <1>6, <1>7, <1>8, <1>9
         DEF Next, Drain, Write, Read, ProcessFrame

-----------------------------------------------------------------------------
(* How long a request is waited for *)

LEMMA ShortestIs ==
  /\ ShortestWait \in Nat /\ ShortestWait <= ReadTimeout
  /\ ShortestWait <= MaxFrame /\ ShortestWait <= DrainEscapeUs
<1>. DEFINE W == {ReadTimeout, MaxFrame, DrainEscapeUs}
<1>1. ReadTimeout \in Nat /\ MaxFrame \in Nat /\ DrainEscapeUs \in Nat
  BY BusAssumption
<1>2. /\ ReadTimeout <= MaxFrame \/ MaxFrame <= ReadTimeout
      /\ MaxFrame <= DrainEscapeUs \/ DrainEscapeUs <= MaxFrame
      /\ ReadTimeout <= DrainEscapeUs \/ DrainEscapeUs <= ReadTimeout
      /\ ReadTimeout <= ReadTimeout /\ MaxFrame <= MaxFrame
      /\ DrainEscapeUs <= DrainEscapeUs
      /\ MaxFrame <= ReadTimeout /\ ReadTimeout <= DrainEscapeUs => MaxFrame <= DrainEscapeUs
      /\ MaxFrame <= DrainEscapeUs /\ DrainEscapeUs <= ReadTimeout => MaxFrame <= ReadTimeout
  BY ONLY <1>1
<1>3. \E us \in W : us <= ReadTimeout /\ us <= MaxFrame /\ us <= DrainEscapeUs
  BY <1>2
<1>4. \E us \in W : \A d \in W : us <= d
  BY <1>3
<1>5. ShortestWait \in W /\ \A d \in W : ShortestWait <= d
  BY <1>4 DEF ShortestWait
<1>. QED BY <1>1, <1>5

LEMMA WaitedInit == Init => Waited /\ GivenUp
BY DEF Init, Waited, GivenUp

\* A step that leaves the call alone.
LEMMA WaitedIdle ==
  ASSUME Typed, Waited, [Next]_vars,
         UNCHANGED <<pc, cur, began, firstAt, lateEnd, drainFrom, got>>
  PROVE  Waited'
<1>1. cur # 0 => sent'[cur].at = sent[cur].at
  BY CurIsSent, SentKept DEF Kept
<1>. QED BY <1>1 DEF Waited

\* Every way out of the wait without a match.
LEMMA WaitIsOver ==
  ASSUME Typed, Waited, Clock, pc = "read", EscapeExpired \/ WindowOver
  PROVE  t - began >= ShortestWait
<1>1. /\ t \in Nat /\ began \in Nat /\ firstAt \in Nat \cup {Never}
      /\ lateEnd \in Nat \cup {Never} /\ Never = -1
      /\ ReadTimeout \in Nat /\ MaxFrame \in Nat /\ LateGrace \in Nat
  BY Types, BusAssumption DEF Never
<1>2. /\ ShortestWait \in Nat /\ ShortestWait <= ReadTimeout /\ ShortestWait <= MaxFrame
  BY ShortestIs
<1>3. /\ firstAt # Never => firstAt >= began
      /\ lateEnd # Never => lateEnd - began >= ReadTimeout
  BY DEF Waited
<1>4. \/ firstAt = Never /\ lateEnd # Never /\ t >= lateEnd
      \/ firstAt # Never /\ t >= firstAt + MaxFrame
      \/ firstAt # Never /\ t >= firstAt + ReadTimeout
      \/ t - began >= ReadTimeout + LateGrace + MaxFrame
  BY DEF WindowOver, EscapeExpired
<1>. QED BY ONLY <1>1, <1>2, <1>3, <1>4

LEMMA WaitedNext == Typed /\ Clock /\ InHand /\ Waited /\ [Next]_vars => Waited'
<1>. SUFFICES ASSUME Typed, Clock, InHand, Waited, [Next]_vars PROVE Waited'
  OBVIOUS
<1>1. t \in Nat /\ began \in Nat /\ began <= t /\ LateGrace \in Nat /\ ReadTimeout \in Nat
  BY Types, BusAssumption DEF Clock
<1>2. CASE Tick \/ Rest \/ Slaves \/ DrainFrame \/ UNCHANGED vars
  BY <1>2, WaitedIdle DEF Tick, Rest, Slaves, Stray, Answer, DrainFrame, vars, call
<1>3. CASE Drain /\ ~DrainFrame
  <2>1. pc' \in {"idle", "gate"}
    BY <1>3 DEF Drain, DrainIdle, Drained, DrainEscape, ReadReturn
  <2>. QED BY <2>1 DEF Waited
<1>4. CASE Write
  <2>1. pc' \in {"writeDrain", "idle"}
    BY <1>4 DEF Write, WriteCall, Send, SendFails, SendNothing
  <2>. QED BY <2>1 DEF Waited
<1>5. CASE ReadCall
  <2>1. /\ pc' = "read" /\ began' = t /\ firstAt' = Never /\ lateEnd' = Never
        /\ UNCHANGED <<cur, sent>>
    BY <1>5 DEF ReadCall
  <2>2. cur # 0 => sent[cur].at <= t
    BY CurIsSent DEF Clock
  <2>. QED BY <2>1, <2>2 DEF Waited
<1>6. CASE ReadTimesOut
  <2>1. /\ pc = "read" /\ t - began >= ReadTimeout /\ lateEnd' = t + LateGrace
        /\ UNCHANGED <<pc, began, firstAt, cur, sent>>
    BY <1>6 DEF ReadTimesOut, Silent
  <2>2. lateEnd' - began >= ReadTimeout
    BY ONLY <1>1, <2>1
  <2>. QED BY <2>1, <2>2 DEF Waited
<1>7. CASE ReadGivesUp
  <2>1. /\ pc = "read" /\ WindowOver /\ pc' = "readDrain" /\ drainFrom' = t
        /\ UNCHANGED <<began, cur, sent>>
    BY <1>7 DEF ReadGivesUp, Silent
  <2>2. t - began >= ShortestWait /\ t >= began
    BY <1>1, <2>1, WaitIsOver
  <2>. QED BY <2>1, <2>2 DEF Waited
<1>8. CASE FrameMatch
  <2>1. /\ pc = "read" /\ pc' = "readDrain" /\ drainFrom' = t
        /\ UNCHANGED <<began, cur, sent>>
    BY <1>8 DEF FrameMatch, TakeFrame
  <2>2. t >= began /\ got' # NoFrame
    BY <1>1, <1>8, MatchGot
  <2>. QED BY <2>1, <2>2 DEF Waited
<1>9. CASE FrameDuplicate \/ FrameOther
  <2>1. TakeFrame /\ Resume
    BY <1>9 DEF FrameDuplicate, FrameOther
  <2>2. /\ pc = "read" /\ UNCHANGED <<began, lateEnd, cur, sent>>
        /\ firstAt' = IF firstAt = Never THEN Later(Oldest.at, began) ELSE firstAt
    BY <2>1 DEF TakeFrame
  <2>3. firstAt' # Never => firstAt' >= began
    <3>1. Later(Oldest.at, began) >= began
      <4>1. Oldest.at \in Nat
        BY <2>1, TakeTyped
      <4>. QED BY <1>1, <4>1 DEF Later
    <3>. QED BY <2>2, <3>1 DEF Waited
  <2>4. CASE EscapeExpired
    <3>1. pc' = "readDrain" /\ drainFrom' = t
      BY <2>1, <2>4 DEF Resume
    <3>2. t - began >= ShortestWait /\ t >= began
      BY <1>1, <2>2, <2>4, WaitIsOver
    <3>. QED BY <2>2, <3>1, <3>2 DEF Waited
  <2>5. CASE ~EscapeExpired
    <3>1. pc' = "read"
      BY <2>1, <2>5 DEF Resume
    <3>. QED BY <2>2, <2>3, <3>1 DEF Waited
  <2>. QED BY <2>4, <2>5
<1>. QED BY <1>2, <1>3, <1>4, <1>5, <1>6, <1>7, <1>8, <1>9 DEF Next, Drain, Read, ProcessFrame

\* What a step tells of a request.
LEMMA FateSteps ==
  ASSUME Typed, [Next]_vars, NEW q \in 1..Len(sent')
  PROVE  \/ q \in 1..Len(sent) /\ Quiescent(q) /\ Kept(q)
         \/ /\ Drain /\ ~DrainFrame /\ pc = "readDrain" /\ q = cur /\ q \in 1..Len(sent)
            /\ Kept(q) /\ sent'[q].took = IF got = NoFrame THEN sent[q].took ELSE got
            /\ sent'[q].fate = IF result' = "success" THEN "answered" ELSE "given up"
            /\ result' = "success" => got # NoFrame
         \/ Send /\ q = Len(sent') /\ sent'[q].fate = "unread" /\ sent'[q].took = NoFrame
<1>1. CASE ~(q \in 1..Len(sent))
  BY <1>1, TookSteps
<1>2. CASE q \in 1..Len(sent) /\ (q # cur \/ ~Drain)
  BY <1>2, SentKept
<1>3. CASE q \in 1..Len(sent) /\ UNCHANGED sent
  BY <1>3 DEF Quiescent, Kept
<1>4. CASE q \in 1..Len(sent) /\ q = cur /\ Drain /\ ~UNCHANGED sent
  <2>1. ~DrainFrame /\ pc = "readDrain"
    <3>1. Draining
      BY <1>4 DEF Drain, DrainFrame, DrainIdle, Drained, DrainEscape
    <3>2. ~DrainFrame
      BY <1>4 DEF DrainFrame
    <3>. QED BY <1>4, <3>1, <3>2, DrainEnds DEF Draining
  <2>2. PICK ok \in BOOLEAN : ReadReturn(ok) /\ (ok => got # NoFrame)
    <3>1. (got # NoFrame) \in BOOLEAN
      OBVIOUS
    <3>. QED BY <1>4, <2>1, <3>1 DEF Drain, DrainIdle, Drained, DrainEscape
  <2>3. result' = IF ok THEN "success" ELSE "failed"
    BY <2>2 DEF ReadReturn
  <2>4. cur # 0
    BY <1>4, <2>2 DEF ReadReturn
  <2>5. /\ Kept(cur) /\ sent'[cur].fate = IF ok THEN "answered" ELSE "given up"
        /\ sent'[cur].took = IF got = NoFrame THEN sent[cur].took ELSE got
    BY <1>4, <2>2, <2>4, SentReturn DEF Kept
  <2>. QED BY <1>4, <2>1, <2>2, <2>3, <2>5
<1>. QED BY <1>1, <1>2, <1>3, <1>4

\* When the ring was emptied, and for whom.
LEMMA ClearedSteps ==
  ASSUME InHand, [Next]_vars
  PROVE  \/ UNCHANGED <<cleared, cur>> /\ (pc' = "gate" => pc = "gate")
         \/ UNCHANGED cleared /\ cur' = 0 /\ pc' # "gate"
         \/ cleared' = t /\ t' = t /\ cur' = 0 /\ cur = 0
         \/ Send /\ pc = "gate" /\ UNCHANGED cleared /\ cur = 0
<1>1. CASE Tick \/ Rest \/ Slaves \/ DrainFrame \/ ReadTimesOut \/ UNCHANGED vars
  BY <1>1 DEF Tick, Rest, Slaves, Stray, Answer, DrainFrame, ReadTimesOut, vars
<1>2. CASE Drain /\ ~DrainFrame
  <2>1. UNCHANGED <<t, cur>>
    BY <1>2, DrainEnds
  <2>2. CASE pc = "writeDrain"
    <3>1. cur = 0
      BY <2>2 DEF InHand, Asking
    <3>2. cleared' = t \/ (UNCHANGED cleared /\ pc' = "idle")
      BY <1>2, <2>2 DEF Drain, DrainIdle, Drained, DrainEscape
    <3>. QED BY <2>1, <3>1, <3>2
  <2>3. CASE pc # "writeDrain"
    <3>1. pc' = "idle" /\ UNCHANGED cleared
      BY <1>2, <2>3, DrainEnds DEF ReadReturn
    <3>. QED BY <2>1, <3>1
  <2>. QED BY <2>2, <2>3
<1>3. CASE Send
  <2>1. cur = 0
    BY <1>3 DEF Send, InHand, Asking
  <2>. QED BY <1>3, <2>1 DEF Send
<1>4. CASE WriteCall \/ SendFails \/ SendNothing
  BY <1>4 DEF WriteCall, SendFails, SendNothing
<1>5. CASE ReadCall \/ ReadGivesUp
  BY <1>5 DEF ReadCall, ReadGivesUp
<1>6. CASE FrameMatch
  BY <1>6 DEF FrameMatch, TakeFrame
<1>7. CASE FrameDuplicate \/ FrameOther
  <2>1. TakeFrame /\ Resume
    BY <1>7 DEF FrameDuplicate, FrameOther
  <2>2. UNCHANGED <<t, cur, cleared>>
    BY <2>1 DEF TakeFrame
  <2>3. pc' # "gate"
    BY <2>1 DEF Resume
  <2>. QED BY <2>2, <2>3
<1>. QED BY <1>1, <1>2, <1>3, <1>4, <1>5, <1>6, <1>7
         DEF Next, Drain, Write, Read, ProcessFrame

LEMMA GivenUpNext ==
  Typed /\ Clock /\ InHand /\ Waited /\ GivenUp /\ [Next]_vars => GivenUp'
<1>. SUFFICES ASSUME Typed, Clock, InHand, Waited, GivenUp, [Next]_vars,
                     NEW q \in 1..Len(sent'), sent'[q].fate = "given up"
              PROVE  /\ t' - sent'[q].at >= ShortestWait
                     /\ q # cur' /\ (cur' # 0 \/ pc' = "gate") =>
                          cleared' - sent'[q].at >= ShortestWait
  BY DEF GivenUp
<1>0. q # 0
  BY ONLY q \in 1..Len(sent')
<1>1. /\ t \in Nat /\ t' \in Nat /\ t <= t' /\ cleared \in Nat /\ ShortestWait \in Nat
      /\ began \in Nat /\ drainFrom \in Nat
  BY Types, TimeGoes, ShortestIs
<1>2. CASE q \in 1..Len(sent) /\ Quiescent(q) /\ Kept(q)
  <2>1. /\ sent[q].at \in Nat /\ sent'[q].at = sent[q].at
        /\ t - sent[q].at >= ShortestWait
        /\ q # cur /\ (cur # 0 \/ pc = "gate") => cleared - sent[q].at >= ShortestWait
    BY <1>2, SentFields DEF Quiescent, Kept, GivenUp
  <2>2. t' - sent'[q].at >= ShortestWait
    BY ONLY <1>1, <2>1
  <2>3. ASSUME q # cur', cur' # 0 \/ pc' = "gate"
        PROVE  cleared' - sent'[q].at >= ShortestWait
    <3>1. CASE cleared' = t
      BY <2>1, <3>1
    <3>2. CASE UNCHANGED cleared /\ cleared' # t /\ ~Send
      <4>1. q # cur /\ (cur # 0 \/ pc = "gate")
        <5>1. UNCHANGED <<cleared, cur>> /\ (pc' = "gate" => pc = "gate")
          BY <2>3, <3>2, ClearedSteps
        <5>. QED BY <2>3, <5>1
      <4>. QED BY <2>1, <3>2, <4>1
    <3>3. CASE Send
      <4>1. pc = "gate" /\ cur = 0 /\ UNCHANGED cleared
        BY <3>3 DEF Send, InHand, Asking
      <4>. QED BY <1>0, <2>1, <4>1
    <3>. QED BY <3>1, <3>2, <3>3, ClearedSteps
  <2>. QED BY <2>2, <2>3
<1>3. CASE /\ Drain /\ ~DrainFrame /\ pc = "readDrain" /\ q = cur /\ q \in 1..Len(sent)
           /\ Kept(q) /\ (result' = "success" => got # NoFrame)
           /\ result' # "success"
  <2>1. sent[q].at \in Nat /\ sent'[q].at = sent[q].at /\ sent[q].at <= began
    <3>1. cur # 0
      BY <1>0, <1>3
    <3>. QED BY <1>3, <3>1, SentFields DEF Kept, Waited
  <2>2. t' = t /\ cur' = cur
    BY <1>3, DrainEnds
  <2>3. drainFrom >= began /\ drainFrom <= t
    BY <1>3 DEF Waited, Clock
  <2>4. drainFrom - began >= ShortestWait \/ t - drainFrom >= ShortestWait
    <3>1. CASE got = NoFrame
      BY <1>3, <3>1 DEF Waited
    <3>2. CASE got # NoFrame
      <4>1. ~DrainIdle
        BY <1>3, <3>2 DEF DrainIdle, Drained, ReadReturn
      <4>2. t - drainFrom >= DrainEscapeUs /\ DrainEscapeUs \in Nat
        BY <1>3, <4>1, BusAssumption DEF Drain, DrainEscape
      <4>3. ShortestWait <= DrainEscapeUs
        BY ShortestIs
      <4>. QED BY ONLY <1>1, <4>2, <4>3
    <3>. QED BY <3>1, <3>2
  <2>5. t' - sent'[q].at >= ShortestWait
    BY ONLY <1>1, <2>1, <2>2, <2>3, <2>4
  <2>. QED BY <1>3, <2>2, <2>5
<1>. QED BY <1>2, <1>3, FateSteps

-----------------------------------------------------------------------------
(* What the transport remembers *)

\* A request that was matched and forgotten stays so.
LEMMA ForgottenStays ==
  ASSUME Typed, [Next]_vars, NEW q \in 1..Len(sent)
  PROVE  Forgotten(q) => \E r \in q + 1..Len(sent') : sent'[r].took # NoFrame
<1>. SUFFICES ASSUME Forgotten(q)
              PROVE  \E r \in q + 1..Len(sent') : sent'[r].took # NoFrame
  OBVIOUS
<1>1. PICK r \in q + 1..Len(sent) : sent[r].took # NoFrame
  BY DEF Forgotten
<1>2. /\ Len(sent) \in Nat
      /\ Len(sent') = Len(sent) \/ Len(sent') = Len(sent) + 1
  BY Types, LenProperties, SentKept, SentSend
<1>3. r \in q + 1..Len(sent') /\ r \in 1..Len(sent) /\ r \in 1..Len(sent')
      /\ r # Len(sent) + 1
  BY ONLY <1>1, <1>2, q \in 1..Len(sent)
<1>4. sent'[r].took # NoFrame
  BY <1>1, <1>3, FateSteps, SentSend DEF Quiescent
<1>. QED BY <1>3, <1>4

\* When the numbers of the requests and of the frame accepted last move.
LEMMA SeqSteps ==
  ASSUME InHand, [Next]_vars
  PROVE  \/ UNCHANGED <<accepted, txSeq>> /\ cur' \in {cur, 0}
         \/ accepted' = accepted /\ txSeq' = txSeq + 1 /\ got' = got
            /\ (Send \/ cur' = 0) /\ cur = 0 /\ pc = "gate"
         \/ FrameMatch /\ accepted'.seq = txSeq /\ txSeq' = txSeq
            /\ accepted'.frame = got'.frame /\ accepted'.at = got'.at
<1>1. CASE Tick \/ Rest \/ Slaves \/ DrainFrame \/ ReadTimesOut \/ UNCHANGED vars
  BY <1>1 DEF Tick, Rest, Slaves, Stray, Answer, DrainFrame, ReadTimesOut, vars, memory
<1>2. CASE Drain /\ ~DrainFrame
  BY <1>2, DrainEnds
<1>3. CASE Send \/ SendNothing
  <2>1. cur = 0 /\ pc = "gate"
    BY <1>3 DEF Send, SendNothing, InHand, Asking
  <2>. QED BY <1>3, <2>1 DEF Send, SendNothing, call
<1>4. CASE WriteCall \/ SendFails \/ ReadCall \/ ReadGivesUp
  BY <1>4 DEF WriteCall, SendFails, ReadCall, ReadGivesUp, memory
<1>5. CASE FrameMatch
  BY <1>5 DEF FrameMatch, TakeFrame
<1>6. CASE FrameDuplicate \/ FrameOther
  BY <1>6 DEF FrameDuplicate, FrameOther, TakeFrame, Resume
<1>. QED BY <1>1, <1>2, <1>3, <1>4, <1>5, <1>6 DEF Next, Drain, Write, Read, ProcessFrame

LEMMA MemoryInit == Init => Memory
BY DEF Init, Memory, NoneYet

LEMMA MemoryNext == Typed /\ InHand /\ Memory /\ [Next]_vars => Memory'
<1>. SUFFICES ASSUME Typed, InHand, Memory, [Next]_vars PROVE Memory'
  OBVIOUS
<1>1. txSeq \in Nat /\ accepted.seq \in Nat /\ accepted.seq <= txSeq
  BY Types, AcceptedTypes DEF Memory
<1>2. accepted'.seq <= txSeq'
  <2>1. \/ accepted'.seq = accepted.seq /\ txSeq' \in {txSeq, txSeq + 1}
        \/ accepted'.seq = txSeq /\ txSeq' = txSeq
    BY SeqSteps
  <2>. QED BY ONLY <1>1, <2>1
<1>3. got' # NoFrame => accepted'.frame = got'.frame /\ accepted'.at = got'.at
  <2>1. CASE FrameMatch
    BY <2>1 DEF FrameMatch
  <2>2. CASE ~FrameMatch
    BY <2>2, GotSteps DEF Memory
  <2>. QED BY <2>1, <2>2
<1>4. ASSUME NEW q \in 1..Len(sent'), sent'[q].fate = "answered"
      PROVE  sent'[q].took # NoFrame
  BY <1>4, FateSteps DEF Memory, Quiescent
<1>5. ASSUME NEW q \in 1..Len(sent'), sent'[q].took # NoFrame, got' = NoFrame,
             ~\E r \in q + 1..Len(sent') : sent'[r].took # NoFrame
      PROVE  /\ accepted'.frame = sent'[q].took.frame /\ accepted'.at = sent'[q].took.at
             /\ cur' # 0 /\ q # cur' => accepted'.seq # txSeq'
  <2>0. q \in 1..Len(sent) /\ ~Forgotten(q)
    BY <1>5, FateSteps, ForgottenStays
  <2>1. accepted' = accepted
    BY <1>5, GotSteps, MatchGot
  <2>2. CASE Quiescent(q) /\ got = NoFrame
    <3>1. /\ accepted.frame = sent[q].took.frame /\ accepted.at = sent[q].took.at
          /\ cur # 0 /\ q # cur => accepted.seq # txSeq
      BY <1>5, <2>0, <2>2 DEF Memory, Quiescent
    <3>2. accepted'.seq # txSeq + 1
      BY ONLY <1>1, <2>1
    <3>3. cur' # 0 /\ q # cur' => accepted'.seq # txSeq'
      <4>1. \/ UNCHANGED <<accepted, txSeq>> /\ cur' \in {cur, 0}
            \/ txSeq' = txSeq + 1
        BY <1>5, SeqSteps, MatchGot
      <4>. QED BY <3>1, <3>2, <4>1
    <3>. QED BY <2>1, <2>2, <3>1, <3>3 DEF Quiescent
  <2>3. CASE got # NoFrame
    <3>1. cur # 0 /\ cur = Len(sent) /\ pc = "readDrain"
      BY <2>3 DEF InHand
    <3>2. Drain /\ ~DrainFrame
      <4>1. ~UNCHANGED got
        BY <1>5, <2>3
      <4>. QED BY <3>1, <4>1
           DEF Next, vars, Tick, Rest, Slaves, Stray, Answer, Drain, DrainFrame, call,
               Write, WriteCall, Send, SendFails, SendNothing, Read, ReadCall,
               ProcessFrame, FrameDuplicate, FrameMatch, FrameOther, TakeFrame,
               ReadTimesOut, ReadGivesUp, Silent
    <3>3. cur' = cur /\ Len(sent') = Len(sent) /\ sent'[cur].took = got
      <4>1. PICK ok \in BOOLEAN : ReadReturn(ok)
        BY <3>1, <3>2, DrainEnds
      <4>. QED BY <2>3, <3>1, <3>2, <4>1, SentReturn, DrainEnds
    <3>4. q = cur
      <4>1. Len(sent) \in Nat
        BY Types, LenProperties
      <4>2. cur \in q + 1..Len(sent') \/ q = cur
        BY ONLY <2>0, <3>1, <3>3, <4>1
      <4>. QED BY <1>5, <2>3, <3>3, <4>2
    <3>. QED BY <2>1, <2>3, <3>3, <3>4 DEF Memory
  <2>4. CASE ~Quiescent(q) /\ got = NoFrame
    <3>1. Quiescent(q) \/ /\ q = cur /\ Drain /\ ~DrainFrame
                          /\ sent'[q].took = sent[q].took
      <4>1. Send => Quiescent(q)
        BY <2>0, SentSend DEF Quiescent
      <4>2. q \in 1..Len(sent')
        OBVIOUS
      <4>. QED BY <2>4, <4>1, <4>2, FateSteps
    <3>2. cur' = cur /\ txSeq' = txSeq
      BY <2>4, <3>1, DrainEnds
    <3>. QED BY <1>5, <2>0, <2>1, <2>4, <3>1, <3>2 DEF Memory
  <2>. QED BY <2>2, <2>3, <2>4
<1>. QED BY <1>2, <1>3, <1>4, <1>5 DEF Memory, Forgotten

-----------------------------------------------------------------------------
(* Whose answer a read returns *)

\* What is left of a difference is no more than the difference, and all of a small one.
LEMMA RestOf ==
  ASSUME NEW d \in Nat, NEW w \in Nat \ {0}
  PROVE  d % w \in Nat /\ d % w <= d /\ (d < w => d % w = d)
OBVIOUS

\* A frame that was not taken for a duplicate of the one accepted last is another frame,
\* or came later than the window.
LEMMA NotADuplicate ==
  ASSUME Typed, Clock, queue # <<>>, ~RecentDuplicate(Oldest),
         accepted.frame = Oldest.frame, accepted.seq # txSeq
  PROVE  Oldest.at - accepted.at > Dedupe
<1>1. /\ Oldest \in Entry /\ Oldest.at \in Nat /\ accepted.at \in Nat /\ Dedupe \in Nat
      /\ UsWrap \in Nat \ {0}
  BY QueueTail, AcceptedTypes, BusAssumption DEF Oldest, Entry
<1>2. accepted.at <= Oldest.at
  BY QueueTail DEF Clock, Ordered, Oldest
<1>3. accepted # NoneYet
  <2>1. <<>> \notin Frame
    BY DEF Frame, StrayFrame, AnswerTo
  <2>2. Oldest.frame \in Frame
    BY <1>1 DEF Entry
  <2>. QED BY <2>1, <2>2 DEF NoneYet
<1>4. ~((Oldest.at - accepted.at) % UsWrap <= Dedupe)
  BY <1>3 DEF RecentDuplicate
<1>. DEFINE d == Oldest.at - accepted.at
<1>5. d \in Nat
  BY ONLY <1>1, <1>2
<1>6. d % UsWrap \in Nat /\ d % UsWrap <= d /\ ~(d % UsWrap <= Dedupe)
  BY <1>1, <1>4, <1>5, RestOf
<1>. HIDE DEF d
<1>7. d > Dedupe
  BY ONLY <1>1, <1>5, <1>6
<1>. QED BY <1>7 DEF d

\* A match that is not the answer to the request in the ADU could not be told from it.
LEMMA MatchIsExcused ==
  ASSUME Typed, Clock, Origin, InHand, GivenUp, Memory, FrameMatch,
         Oldest.req # cur
  PROVE  /\ Oldest.req \in 1..Len(sent)
         /\ \/ sent[Oldest.req].fate = "unread"
            \/ /\ sent[Oldest.req].fate = "given up"
               /\ Oldest.at - sent[Oldest.req].at >= ShortestWait
            \/ /\ sent[Oldest.req].fate = "answered"
               /\ \/ sent[Oldest.req].took.req # Oldest.req
                  \/ Forgotten(Oldest.req)
                  \/ Oldest.at - sent[Oldest.req].took.at > Dedupe
<1>. DEFINE q == Oldest.req
<1>1. pc = "read" /\ queue # <<>> /\ ~RecentDuplicate(Oldest)
  BY DEF FrameMatch, TakeFrame
<1>2. cur # 0 /\ q # 0 /\ got = NoFrame
  BY <1>1, MatchIsAsked DEF InHand, FrameMatch
<1>3. Oldest = queue[1] /\ 1 \in 1..Len(queue) /\ Oldest.at \in Nat
  BY <1>1, QueueTail DEF Oldest, Entry
<1>4. q \in 1..Len(sent) /\ Oldest.frame = AnswerTo(sent[q].asked)
  BY <1>2, <1>3 DEF Origin, Known
<1>. HIDE DEF q
<1>5. CASE sent[q].fate = "given up"
  <2>1. cleared - sent[q].at >= ShortestWait
    BY <1>2, <1>4, <1>5 DEF GivenUp, q
  <2>2. cleared <= Oldest.at
    BY <1>3 DEF Clock, Ordered
  <2>3. cleared \in Nat /\ sent[q].at \in Nat /\ ShortestWait \in Nat
    BY <1>4, Types, SentFields, ShortestIs
  <2>4. Oldest.at - sent[q].at >= ShortestWait
    BY ONLY <1>3, <2>1, <2>2, <2>3
  <2>. QED BY <1>4, <1>5, <2>4 DEF q
<1>6. CASE sent[q].fate = "answered"
  <2>. SUFFICES ASSUME sent[q].took.req = q, ~Forgotten(q)
                PROVE  Oldest.at - sent[q].took.at > Dedupe
    BY <1>4, <1>6 DEF q
  <2>1. sent[q].took # NoFrame
    BY <1>4, <1>6 DEF Memory
  <2>2. /\ accepted.frame = sent[q].took.frame /\ accepted.at = sent[q].took.at
        /\ accepted.seq # txSeq
    BY <1>2, <1>4, <2>1 DEF Memory, q
  <2>3. sent[q].took.frame = AnswerTo(sent[q].asked)
    BY <1>2, <1>4, <2>1 DEF Origin, Known
  <2>4. accepted.frame = Oldest.frame
    BY <1>4, <2>2, <2>3
  <2>. QED BY <1>1, <2>2, <2>4, NotADuplicate
<1>7. sent[q].fate \in Fates
  BY <1>4, SentFields
<1>. QED BY <1>4, <1>5, <1>6, <1>7 DEF Fates, q

LEMMA AnswersNext ==
  /\ Typed /\ Clock /\ Origin /\ InHand /\ GivenUp /\ Memory
  /\ AnswersTheRequest /\ [Next]_vars
  => AnswersTheRequest'
<1>. SUFFICES ASSUME Typed, Clock, Origin, InHand, GivenUp, Memory,
                     AnswersTheRequest, [Next]_vars, pc' = "readDrain", got' # NoFrame
              PROVE  (got.req = cur \/ (got.req # 0 /\ Excused(got.req)))'
  BY DEF AnswersTheRequest
<1>1. CASE FrameMatch
  <2>1. got' = Oldest /\ UNCHANGED <<sent, cur>>
    BY <1>1 DEF FrameMatch, TakeFrame
  <2>2. Oldest.req # 0
    BY <1>1, <2>1, MatchIsAsked
  <2>3. CASE Oldest.req # cur
    BY <1>1, <2>1, <2>2, <2>3, MatchIsExcused DEF Excused, Forgotten
  <2>. QED BY <2>1, <2>3
<1>2. CASE ~FrameMatch
  <2>1. got' = got /\ got # NoFrame /\ pc = "readDrain"
    BY <1>2, GotSteps DEF InHand
  <2>2. ~Send /\ (~Drain \/ DrainFrame) /\ UNCHANGED cur
    <3>1. ~Write /\ ~Read
      BY <2>1 DEF Write, WriteCall, Send, SendFails, SendNothing, Read, ReadCall,
                  ProcessFrame, FrameDuplicate, FrameMatch, FrameOther, TakeFrame,
                  ReadTimesOut, ReadGivesUp, Silent
    <3>2. ~Drain \/ DrainFrame
      BY <2>1, DrainEnds DEF CallOver
    <3>3. UNCHANGED cur
      <4>1. Drain => UNCHANGED cur
        BY <3>2 DEF DrainFrame
      <4>2. Tick \/ Rest \/ Slaves \/ UNCHANGED vars => UNCHANGED cur
        BY DEF Tick, Rest, Slaves, Stray, Answer, vars
      <4>. QED BY <3>1, <4>1, <4>2 DEF Next
    <3>. QED BY <3>1, <3>2, <3>3 DEF Write
  <2>3. /\ Len(sent') = Len(sent)
        /\ \A q \in 1..Len(sent) : Kept(q) /\ Quiescent(q)
    <3>1. CASE DrainFrame
      BY <3>1 DEF DrainFrame, Kept, Quiescent
    <3>. QED BY <2>2, <3>1, SentKept
  <2>4. CASE got.req # cur
    <3>1. got.req # 0 /\ Excused(got.req)
      BY <2>1, <2>4 DEF AnswersTheRequest
    <3>2. got.req \in 1..Len(sent)
      BY <2>1, <3>1 DEF Origin, Known
    <3>3. Forgotten(got.req) => \E r \in got.req + 1..Len(sent') : sent'[r].took # NoFrame
      BY <3>2, ForgottenStays
    <3>. QED BY <2>1, <2>3, <3>1, <3>2, <3>3 DEF Excused, Forgotten, Kept, Quiescent
  <2>. QED BY <2>1, <2>2, <2>4
<1>. QED BY <1>1, <1>2

-----------------------------------------------------------------------------
(* How many frames went out *)

LEMMA CountedInit == Init => Counted
<1>1. MaxWrites \in Nat
  BY BusAssumption
<1>. QED BY <1>1 DEF Init, Counted

LEMMA CountedNext == Typed /\ Counted /\ [Next]_vars => Counted'
<1>. SUFFICES ASSUME Typed, Counted, [Next]_vars PROVE Counted'
  OBVIOUS
<1>1. txSeq \in Nat /\ calls.write \in Nat /\ MaxWrites \in Nat
      /\ calls \in [read : Nat, write : Nat]
  BY Types, BusAssumption
<1>2. ASSUME UNCHANGED <<txSeq, calls>>,
             pc' \in {"writeDrain", "gate"} => pc \in {"writeDrain", "gate"}
      PROVE  Counted'
  BY <1>1, <1>2 DEF Counted
<1>3. CASE Tick \/ Rest \/ Slaves \/ UNCHANGED vars
  BY <1>2, <1>3 DEF Tick, Rest, Slaves, Stray, Answer, vars, memory
<1>4. CASE Drain
  <2>1. UNCHANGED <<txSeq, calls>>
    BY <1>4, DrainEnds DEF DrainFrame
  <2>2. pc' \in {"writeDrain", "gate"} => pc \in {"writeDrain", "gate"}
    BY <1>4 DEF Drain, DrainFrame, DrainIdle, Drained, DrainEscape, ReadReturn
  <2>. QED BY <1>2, <2>1, <2>2
<1>5. CASE WriteCall
  <2>1. /\ pc = "idle" /\ pc' = "writeDrain" /\ calls.write < MaxWrites
        /\ calls' = [calls EXCEPT !.write = calls.write + 1] /\ txSeq' = txSeq
    BY <1>5 DEF WriteCall
  <2>2. calls'.write = calls.write + 1
    BY <1>1, <2>1
  <2>. QED BY <1>1, <2>1, <2>2 DEF Counted
<1>6. CASE Send \/ SendNothing
  <2>1. pc = "gate" /\ pc' = "idle" /\ txSeq' = txSeq + 1 /\ calls' = calls
    BY <1>6 DEF Send, SendNothing
  <2>. QED BY <1>1, <2>1 DEF Counted
<1>7. CASE SendFails
  BY <1>2, <1>7 DEF SendFails, memory
<1>8. CASE ReadCall
  <2>1. /\ pc' = "read" /\ calls' = [calls EXCEPT !.read = calls.read + 1]
        /\ txSeq' = txSeq /\ pc = "idle"
    BY <1>8 DEF ReadCall
  <2>2. calls'.write = calls.write
    BY <1>1, <2>1
  <2>. QED BY <1>1, <2>1, <2>2 DEF Counted
<1>9. CASE ProcessFrame \/ ReadTimesOut \/ ReadGivesUp
  <2>1. UNCHANGED <<txSeq, calls>>
    BY <1>9 DEF ProcessFrame, FrameDuplicate, FrameMatch, FrameOther, TakeFrame,
                ReadTimesOut, ReadGivesUp
  <2>2. pc' \in {"read", "readDrain"}
    BY <1>9 DEF ProcessFrame, FrameDuplicate, FrameMatch, FrameOther, Resume,
                ReadTimesOut, ReadGivesUp, Silent
  <2>. QED BY <1>2, <2>1, <2>2
<1>. QED BY <1>3, <1>4, <1>5, <1>6, <1>7, <1>8, <1>9 DEF Next, Write, Read

-----------------------------------------------------------------------------
(* The theorems *)

LEMMA InductiveInit == Init => IInv
BY TypedInit, ClockInit, OriginInit, InHandInit, WaitedInit, MemoryInit, CountedInit
   DEF IInv, AnswersTheRequest, Init

LEMMA InductiveNext == IInv /\ [Next]_vars => IInv'
BY TypedNext, ClockNext, OriginNext, InHandNext, WaitedNext, GivenUpNext, MemoryNext,
   CountedNext, AnswersNext DEF IInv

LEMMA Inductive == Spec => []IInv
BY InductiveInit, InductiveNext, PTL DEF Spec

LEMMA InvTypeOK == IInv => TypeOK
<1>. SUFFICES ASSUME IInv PROVE TypeOK
  OBVIOUS
<1>. Typed /\ Clock /\ Origin /\ Counted
  BY DEF IInv
<1>1. {lastAt, began, drainFrom, cleared} \subseteq Moments
  <2>1. /\ t \in 1..MaxTime /\ lastAt \in Nat /\ began \in Nat /\ drainFrom \in Nat
        /\ cleared \in Nat /\ MaxTime \in Nat
        /\ lastAt <= t /\ began <= t /\ drainFrom <= t /\ cleared <= t
    BY Types, BusAssumption DEF Clock
  <2>2. /\ lastAt \in 0..MaxTime /\ began \in 0..MaxTime /\ drainFrom \in 0..MaxTime
        /\ cleared \in 0..MaxTime
    BY ONLY <2>1
  <2>. QED BY <2>2 DEF Moments
<1>2. txSeq \in 0..MaxWrites
  <2>1. txSeq \in Nat /\ calls.write \in Nat /\ MaxWrites \in Nat
    BY Types, BusAssumption
  <2>2. txSeq + (IF pc \in {"writeDrain", "gate"} THEN 1 ELSE 0) <= calls.write
        /\ calls.write <= MaxWrites
    BY DEF Counted
  <2>. QED BY ONLY <2>1, <2>2
<1>3. pending.valid \in BOOLEAN /\ pending.until \in 0..UsWrap - 1
  BY Types DEF Pending
<1>4. \A i \in 1..Len(queue) : queue[i].req = 0 \/ queue[i].frame \in Frames
  BY DEF Origin, Known, Frames
<1>5. got # NoFrame => got.frame \in Frames \/ got.req = 0
  BY DEF Origin, Known, Frames
<1>6. got # NoFrame => got.req # 0
  BY DEF IInv, InHand
<1>7. pc \in {"idle", "writeDrain", "gate", "read", "readDrain"}
      /\ result \in {"none", "sent", "refused", "success", "failed"}
      /\ t \in 1..MaxTime /\ cur \in 0..Len(sent)
  BY DEF Typed
<1>. QED BY <1>1, <1>2, <1>3, <1>4, <1>5, <1>6, <1>7 DEF TypeOK

\* The variables keep their types; nothing comes to the caller that nobody sent.
THEOREM BusTypeCorrect == Spec => []TypeOK
BY Inductive, InvTypeOK, PTL

\* What the caller is given came in after the ring was proved empty for its request
\* (_drainToIdle() in writeAdu() and the stamps of the RX task).
THEOREM BusStaleIsDrained == Spec => []StaleIsDrained
<1>1. IInv => StaleIsDrained
  <2>. SUFFICES ASSUME IInv, got # NoFrame PROVE got.at >= cleared
    BY DEF StaleIsDrained
  <2>1. cleared <= got.at
    BY DEF IInv, Clock
  <2>. QED BY <2>1
<1>. QED BY <1>1, Inductive, PTL

\* readAdu() succeeds only for a request that went out.
THEOREM BusNothingForNothing == Spec => []NothingForNothing
<1>1. IInv => NothingForNothing
  BY DEF IInv, InHand, NothingForNothing
<1>. QED BY <1>1, Inductive, PTL

\* The answer that is given to the caller is the one to its request, or one the driver
\* had no means to tell from it.
THEOREM BusAnswersTheRequest == Spec => []AnswersTheRequest
<1>1. IInv => AnswersTheRequest
  BY DEF IInv
<1>. QED BY <1>1, Inductive, PTL

\* An answer to the request in the ADU, once looked at, is lost only to the duplicate
\* filter or to an ADU that asks for an exception.
THEOREM BusGenuineIsTaken == Spec => GenuineIsTaken
<1>. DEFINE Lost == /\ accepted.frame = Head(queue).frame /\ accepted.seq # txSeq
                    /\ \/ Head(queue).at - accepted.at <= Dedupe
                       \/ Head(queue).at - accepted.at >= UsWrap
            Taken == Looked /\ Head(queue).req = cur /\ cur # 0 =>
                       got' = Head(queue) \/ Lost \/ adu.exc
<1>1. ASSUME IInv, Next, Looked, Head(queue).req = cur, cur # 0
      PROVE  got' = Head(queue) \/ Lost \/ adu.exc
  <2>. Typed /\ Clock /\ Origin /\ InHand
    BY <1>1 DEF IInv
  <2>1. pc = "read" /\ queue # <<>> /\ queue' # queue /\ Oldest = Head(queue)
    <3>1. Len(Tail(queue)) = Len(queue) - 1 /\ Len(queue) \in Nat
      BY <1>1, QueueTail, Types, LenProperties DEF Looked
    <3>2. Len(Tail(queue)) # Len(queue)
      BY ONLY <3>1
    <3>. QED BY <1>1, <3>2 DEF Looked, Oldest
  <2>2. ProcessFrame
    <3>1. ~Slaves
      <4>1. \A e \in Entry : Append(queue, e) # Tail(queue)
        <5>1. queue \in Seq(Entry) /\ Len(Tail(queue)) = Len(queue) - 1
              /\ Len(queue) \in Nat
          BY <2>1, QueueTail, Types, LenProperties
        <5>2. \A e \in Entry : Len(Append(queue, e)) = Len(queue) + 1
          BY <5>1, AppendProperties
        <5>3. Len(queue) + 1 # Len(queue) - 1
          BY ONLY <5>1
        <5>. QED BY <5>1, <5>2, <5>3
      <4>. QED BY <1>1, <4>1, StrayQueue, AnswerQueue DEF Slaves, Looked
    <3>2. ~Drain
      BY <2>1 DEF Drain, DrainFrame, DrainIdle, Drained, DrainEscape, Draining
    <3>3. ~Write /\ ~Tick /\ ~Rest
      BY <2>1 DEF Write, WriteCall, Send, SendFails, SendNothing, Tick, Rest, wire
    <3>4. ~ReadCall /\ ~ReadTimesOut /\ ~ReadGivesUp
      BY <2>1 DEF ReadCall, ReadTimesOut, ReadGivesUp, wire
    <3>. QED BY <1>1, <3>1, <3>2, <3>3, <3>4 DEF Next, Read
  <2>3. CASE FrameMatch
    BY <2>3, MatchGot
  <2>4. CASE RecentDuplicate(Oldest)
    <3>1. /\ accepted.frame = Head(queue).frame /\ accepted.seq # txSeq
          /\ (Head(queue).at - accepted.at) % UsWrap <= Dedupe
      BY <2>1, <2>4 DEF RecentDuplicate
    <3>2. /\ Head(queue).at \in Nat /\ accepted.at \in Nat /\ UsWrap \in Nat \ {0}
          /\ accepted.at <= Head(queue).at
      BY <2>1, QueueTail, AcceptedTypes, BusAssumption DEF Clock, Ordered, Entry
    <3>. DEFINE d == Head(queue).at - accepted.at
    <3>3. d \in Nat
      BY ONLY <3>2
    <3>. HIDE DEF d
    <3>4. d < UsWrap => d % UsWrap = d
      BY <3>2, <3>3, RestOf
    <3>5. d % UsWrap <= Dedupe
      BY <3>1 DEF d
    <3>6. d <= Dedupe \/ d >= UsWrap
      BY ONLY <3>2, <3>3, <3>4, <3>5
    <3>. QED BY <3>1, <3>6 DEF d
  <2>5. CASE FrameOther
    <3>1. Asking
      BY <2>1 DEF Asking
    <3>2. adu.unit = sent[cur].asked.unit /\ adu.fc = sent[cur].asked.fc
      BY <1>1, <3>1 DEF InHand
    <3>3. Oldest = queue[1] /\ 1 \in 1..Len(queue)
      BY <2>1, QueueTail
    <3>4. Oldest.frame = AnswerTo(sent[cur].asked)
      BY <1>1, <2>1, <3>3 DEF Origin, Known
    <3>5. Oldest.frame.unit = adu.unit /\ Oldest.frame.fc = adu.fc
      BY <3>2, <3>4 DEF AnswerTo
    <3>6. ~Matches(Oldest.frame)
      BY <2>5 DEF FrameOther
    <3>. QED BY <3>5, <3>6 DEF Matches
  <2>. QED BY <2>2, <2>3, <2>4, <2>5 DEF ProcessFrame, FrameDuplicate
<1>2. IInv /\ [Next]_vars => [Taken]_vars
  BY <1>1
<1>3. [][Taken]_vars => GenuineIsTaken
  BY PTL DEF GenuineIsTaken
<1>. QED BY <1>2, <1>3, Inductive, PTL DEF Spec

=============================================================================
