----------------------------- MODULE BusProtocol -----------------------------
(***************************************************************************)
(* Requests and answers: an owner that calls writeAdu() and readAdu() with *)
(* one ADU, slaves that answer late, twice, by an exception or not at all, *)
(* and what the transport remembers between two calls: the last frame it   *)
(* accepted, the request that timed out, the frames not yet looked at      *)
(* (ModbusRTUComm.cpp:805-990, 1047-1470 and 1517-1616).                   *)
(*                                                                         *)
(* One step is one frame, or one decision of a call.  A frame is whole,    *)
(* its CRC is good, and the RX task has stamped it when it came in; bytes, *)
(* errors, polled ingress and delays of the owner inside a call are        *)
(* RxTransaction's; here time passes where the owner waits.  The wait for  *)
(* the next-TX gate is of any length; how long it must be is TxGate's.     *)
(***************************************************************************)
EXTENDS Integers, Sequences, FiniteSets

CONSTANTS Requests,     \* [unit, fc, shape, bad]; shape is what an answer repeats of
                        \* it, a bad one is answered by an exception
          NoAnswer,     \* unit 0, the broadcast: no slave answers
          UsWrap,       \* micros() counts modulo UsWrap
          T35,          \* _frameTimeout
          ReadTimeout,  \* _readTimeout, in microseconds
          LateGrace,    \* _computeLateGraceUs()
          MaxFrame,     \* _maxFrameReceiveUs
          DrainEscapeUs, \* MBUS_RTU_DRAIN_ESCAPE_US
          Dedupe,       \* MBUS_RTU_DEDUPE_WINDOW_US
          TxUs,         \* time on the wire of a request
          Rests,        \* lengths of a long rest of the owner
          MaxWrites,    \* bound: calls of writeAdu()
          MaxReads,     \* bound: calls of readAdu()
          MaxStrays,    \* bound: frames of other units
          MaxQueue,     \* bound: frames that wait to be looked at
          MaxRepeats,   \* bound: second copies of an answer
          MaxTime       \* bound: last moment

ASSUME BusAssumption ==
  /\ {UsWrap, T35, ReadTimeout, LateGrace, MaxFrame, DrainEscapeUs,
      Dedupe, TxUs, MaxQueue, MaxWrites, MaxTime} \subseteq Nat \ {0}
  /\ {MaxReads, MaxStrays, MaxRepeats} \subseteq Nat /\ Rests \subseteq Nat
  \* "other" is the unit of a stray, and "crc" what is no function code (Scrambled)
  /\ \A r \in Requests : r.unit # "other" /\ r.fc # "crc" /\ r.bad \in BOOLEAN

VARIABLES
  t,         \* true time
  pc,        \* the phase of the call the owner is in
  result,    \* what the last call returned
  adu,       \* the caller's ADU: unit, fc (exc: its error bit), shape, full: it has a length
  queue,     \* frames that came in and were not looked at
  lastAt,    \* when the last one came in; 0 before the first
  txSeq,     \* _txSeq
  accepted,  \* _lastAcceptedFrame, Us and TxSeq; at is true time
  pending,   \* _timedOutPending
  began,     \* ctx.start_us, or drainStartUs of a write; true time
  firstAt,   \* ctx.first_byte_us once there was activity, else Never
  lateEnd,   \* ctx.late_deadline_us once in the late window, else Never
  drainFrom, \* drainStartUs
  got,       \* the frame the read has matched, or NoFrame
  sent,      \* per request on the wire: when, what was asked, the answers that came,
             \* what the owner was told of it (fate), the frame it was matched with
  cur,       \* the request the ADU was sent as; 0 if it was not sent
  cleared,   \* when the drain of the last writeAdu() ended
  calls,     \* reads and writes so far
  strays     \* frames of other units so far

call == <<began, firstAt, lateEnd, drainFrom, got>>
memory == <<txSeq, accepted, pending>>
wire == <<queue, lastAt, strays>>
vars == <<t, pc, result, adu, wire, memory, call, sent, cur, cleared, calls>>

Never   == -1
NoFrame == [req |-> 0, at |-> 0, frame |-> <<>>]
NoneYet == [frame |-> <<>>, at |-> 0, seq |-> 0]
Settled == [valid |-> FALSE, unit |-> 0, fc |-> 0, shape |-> 0, until |-> 0]

Init == /\ t = 1 /\ pc = "idle" /\ result = "none"
        /\ adu = [unit |-> 0, fc |-> 0, exc |-> FALSE, shape |-> 0, full |-> FALSE]
        /\ queue = <<>> /\ lastAt = 0 /\ txSeq = 0
        /\ accepted = NoneYet /\ pending = Settled
        /\ began = 0 /\ firstAt = Never /\ lateEnd = Never /\ drainFrom = 0
        /\ got = NoFrame /\ sent = <<>> /\ cur = 0 /\ cleared = 0
        /\ calls = [read |-> 0, write |-> 0] /\ strays = 0

-----------------------------------------------------------------------------
(* The slaves *)

\* Two frames do not end at the same moment.
Comes(q, frame) == /\ lastAt < t /\ lastAt' = t /\ Len(queue) < MaxQueue
                   /\ queue' = Append(queue, [req |-> q, at |-> t, frame |-> frame])

\* An answer to request q comes in: the first one, or the same once more.
AnswerTo(r) == [unit |-> r.unit, fc |-> r.fc, exc |-> r.bad,
                shape |-> IF r.bad THEN 0 ELSE r.shape]
Repeats == Cardinality({q \in 1..Len(sent) : sent[q].came = 2})
Answer(q) == /\ sent[q].asked.unit # NoAnswer
             /\ \/ sent[q].came = 0
                \/ sent[q].came = 1 /\ Repeats < MaxRepeats
             /\ Comes(q, AnswerTo(sent[q].asked))
             /\ sent' = [sent EXCEPT ![q].came = @ + 1]
             /\ UNCHANGED <<t, pc, result, adu, strays, memory, call, cur, cleared, calls>>

\* A frame of a unit nobody asked.
Stray == /\ strays < MaxStrays /\ strays' = strays + 1
         /\ Comes(0, [unit |-> "other", fc |-> "read", exc |-> FALSE, shape |-> 0])
         /\ UNCHANGED <<t, pc, result, adu, memory, call, sent, cur, cleared, calls>>

-----------------------------------------------------------------------------
(* The request that timed out, and the frame accepted last *)

\* static_cast<int32_t>(nowUs - deadline) >= 0
Reached(now, deadline) == (now - deadline) % UsWrap < UsWrap \div 2

\* _expireTimedOutPending()
Expire(p, now) == IF p.valid /\ Reached(now, p.until) THEN Settled ELSE p

\* Defect: the end of the grace is not a count of micros().
ArmUnwrapped == IF adu.unit = NoAnswer THEN Settled
                ELSE [valid |-> TRUE, unit |-> adu.unit, fc |-> adu.fc, shape |-> adu.shape,
                      until |-> t + LateGrace]

\* _armTimedOutPending(): nothing for a request that has no answer.
Arm == IF adu.unit = NoAnswer THEN Settled
       ELSE [valid |-> TRUE, unit |-> adu.unit, fc |-> adu.fc, shape |-> adu.shape,
             until |-> (t + LateGrace) % UsWrap]

\* The frame belongs to it: an exception, or an answer of the right shape.
BelongsTo(p, f) == /\ p.valid /\ f.unit = p.unit /\ f.fc = p.fc
                   /\ f.exc \/ f.shape = p.shape

\* _matchAndConsumeTimedOutPending(), with the stamp of the frame
Consume(p, e) == LET live == Expire(p, e.at)
                 IN  IF BelongsTo(live, e.frame) THEN Settled ELSE live

\* _frameMatchesRequest()
Matches(f) == f.unit = adu.unit /\ f.fc = adu.fc /\ (adu.exc => f.exc)

\* Defect: no memory of the last frame.
DuplicateForgotten(e) == FALSE

\* _isRecentDuplicate()
RecentDuplicate(e) == /\ accepted # NoneYet
                      /\ accepted.seq # txSeq
                      /\ (e.at - accepted.at) % UsWrap <= Dedupe
                      /\ e.frame = accepted.frame

-----------------------------------------------------------------------------
(* _drainToIdle(), from readAdu() and from writeAdu() *)

Draining == pc \in {"readDrain", "writeDrain"}

\* A queued frame is thrown away.
DrainFrame == /\ Draining /\ queue # <<>>
              /\ pending' = Consume(Expire(pending, t), Head(queue))
              /\ queue' = Tail(queue)
              /\ UNCHANGED <<t, pc, result, adu, lastAt, strays, txSeq, accepted, call,
                             sent, cur, cleared, calls>>

\* sinceRx >= _frameTimeout, where 0 stands for "no byte yet" and for its own moment
Quiet == (t - lastAt) % UsWrap >= T35

\* What belonged to the call is forgotten.
CallOver == /\ began' = 0 /\ firstAt' = Never /\ lateEnd' = Never /\ drainFrom' = 0
            /\ got' = NoFrame

\* readAdu() returns: the frame stays in the ADU, or the ADU is emptied.
ReadReturn(ok) ==
  /\ pc' = "idle" /\ result' = IF ok THEN "success" ELSE "failed"
  /\ CallOver
  /\ adu' = [adu EXCEPT !.full = ok]
  /\ sent' = IF cur = 0 THEN sent
             ELSE [sent EXCEPT ![cur].fate = IF ok THEN "answered" ELSE "given up",
                               ![cur].took = IF got = NoFrame THEN @ ELSE got]

\* Idle is proved: a write goes on to its gate, a read returns.
Drained == /\ Draining /\ Quiet
           /\ pending' = Expire(pending, t)
           /\ IF pc = "writeDrain"
              THEN /\ pc' = "gate" /\ cleared' = t
                   /\ CallOver /\ UNCHANGED <<result, adu, sent>>
              ELSE ReadReturn(got # NoFrame) /\ UNCHANGED cleared
           /\ UNCHANGED <<t, wire, txSeq, accepted, cur, calls>>

\* Defect: silence is enough, frames may be left.
DrainIdleUnread == Drained

DrainIdle == queue = <<>> /\ Drained

\* The escape empties the ring and forgets; the call fails.
DrainEscape == /\ Draining /\ ~(queue = <<>> /\ Quiet)
               /\ t - drainFrom >= DrainEscapeUs
               /\ queue' = <<>> /\ lastAt' = 0 /\ pending' = Settled
               /\ IF pc = "writeDrain"
                  THEN /\ pc' = "idle" /\ result' = "refused"
                       /\ CallOver /\ UNCHANGED <<adu, sent>>
                  ELSE ReadReturn(FALSE)
               /\ UNCHANGED <<t, strays, txSeq, accepted, cur, cleared, calls>>

-----------------------------------------------------------------------------
(* writeAdu() *)

FilledBy(r) == [unit |-> r.unit, fc |-> r.fc, exc |-> FALSE, shape |-> r.shape,
                full |-> TRUE]

\* A new request, or the ADU as the call that failed left it.
WriteCall == /\ pc = "idle" /\ calls.write < MaxWrites
             /\ calls' = [calls EXCEPT !.write = @ + 1]
             /\ \/ \E r \in Requests : adu' = FilledBy(r)
                \/ result \in {"failed", "refused"} /\ UNCHANGED adu
             /\ pc' = "writeDrain" /\ result' = "none" /\ drainFrom' = t /\ cur' = 0
             /\ pending' = Expire(pending, t)
             /\ UNCHANGED <<t, wire, txSeq, accepted, began, firstAt, lateEnd, got, sent,
                            cleared>>

\* The frame is sent.
Send == /\ pc = "gate" /\ adu.full /\ t + TxUs <= MaxTime
        /\ t' = t + TxUs /\ txSeq' = txSeq + 1
        /\ \E asked \in Requests :
             /\ adu = FilledBy(asked)
             /\ sent' = Append(sent, [at |-> t', asked |-> asked, came |-> 0,
                                      fate |-> "unread", took |-> NoFrame])
        /\ cur' = Len(sent')
        /\ pc' = "idle" /\ result' = "sent"
        /\ UNCHANGED <<adu, wire, accepted, pending, call, cleared, calls>>

\* Defect: unit and function code survive updateCrc().
ScrambledNot(a) == a

\* updateCrc() of an ADU of length 0 puts the CRC where unit and function code are.
Scrambled(a) == [a EXCEPT !.unit = "crc", !.fc = "crc"]

\* write() or the transmit drain fails: nobody understood the frame.
SendFails == /\ pc = "gate"
             /\ adu' = IF adu.full THEN adu ELSE Scrambled(adu)
             /\ pc' = "idle" /\ result' = "refused"
             /\ UNCHANGED <<t, wire, memory, call, sent, cur, cleared, calls>>

\* An emptied ADU: no byte is written, and the call is a success.
SendNothing == /\ pc = "gate" /\ ~adu.full
               /\ adu' = Scrambled(adu) /\ txSeq' = txSeq + 1
               /\ pc' = "idle" /\ result' = "sent"
               /\ UNCHANGED <<t, wire, accepted, pending, call, sent, cur, cleared, calls>>

-----------------------------------------------------------------------------
(* readAdu() *)

\* After a write that succeeded, or once more after a read that did not.
ReadCall == /\ pc = "idle" /\ result \in {"sent", "failed"} /\ calls.read < MaxReads
            /\ calls' = [calls EXCEPT !.read = @ + 1]
            /\ pc' = "read" /\ began' = t /\ firstAt' = Never /\ lateEnd' = Never
            /\ got' = NoFrame /\ adu' = [adu EXCEPT !.full = FALSE]
            /\ pending' = Expire(pending, t)
            /\ UNCHANGED <<t, result, wire, txSeq, accepted, drainFrom, sent, cur, cleared>>

Later(a, b) == IF a > b THEN a ELSE b

\* activeEscapeExpired()
EscapeExpired == t - began >= ReadTimeout + LateGrace + MaxFrame

\* The next frame; the first one opens the receive windows.
Oldest == Head(queue)
TakeFrame == /\ pc = "read" /\ queue # <<>> /\ queue' = Tail(queue)
             /\ firstAt' = IF firstAt = Never THEN Later(Oldest.at, began) ELSE firstAt
             /\ UNCHANGED <<t, result, lastAt, strays, txSeq, began, lateEnd, sent, cur,
                            cleared, calls>>

\* resumeAfterProcessedCandidate()
Resume == /\ pc' = IF EscapeExpired THEN "readDrain" ELSE "read"
          /\ drainFrom' = IF EscapeExpired THEN t ELSE drainFrom
          /\ UNCHANGED <<got, accepted, adu>>

FrameDuplicate == /\ TakeFrame /\ RecentDuplicate(Oldest)
                  /\ pending' = Expire(pending, t) /\ Resume

\* The ADU takes the bytes of the frame; it keeps them if the drain fails later.
FrameMatch == /\ TakeFrame /\ ~RecentDuplicate(Oldest) /\ Matches(Oldest.frame)
              /\ adu' = [unit |-> Oldest.frame.unit, fc |-> Oldest.frame.fc,
                         exc |-> Oldest.frame.exc, shape |-> 0, full |-> FALSE]
              /\ got' = Oldest /\ pending' = Settled
              /\ accepted' = [frame |-> Oldest.frame, at |-> Oldest.at, seq |-> txSeq]
              /\ pc' = "readDrain" /\ drainFrom' = t

FrameOther == /\ TakeFrame /\ ~RecentDuplicate(Oldest) /\ ~Matches(Oldest.frame)
              /\ pending' = Consume(Expire(pending, t), Oldest) /\ Resume

\* Defect: the timed-out request is served before the one in progress.
ProcessPendingFirst ==
  /\ pc = "read" /\ queue # <<>>
  /\ \/ /\ TakeFrame /\ BelongsTo(Expire(pending, t), Oldest.frame)
        /\ pending' = Settled /\ Resume
     \/ /\ ~BelongsTo(Expire(pending, t), Oldest.frame)
        /\ FrameDuplicate \/ FrameMatch \/ FrameOther

\* PROCESS_FRAME: duplicate before match before timed-out request before stray
ProcessFrame == FrameDuplicate \/ FrameMatch \/ FrameOther

Silent == pc = "read" /\ queue = <<>>

\* The response timer: not the end yet, the late window opens.
ReadTimesOut == /\ Silent /\ firstAt = Never /\ lateEnd = Never
                /\ t - began >= ReadTimeout
                /\ pending' = Arm /\ lateEnd' = t + LateGrace
                /\ UNCHANGED <<t, pc, result, adu, wire, txSeq, accepted, began, firstAt,
                               drainFrom, got, sent, cur, cleared, calls>>

\* What ends the wait without a match: the late window, the frame envelope or the
\* recovery window on a quiet line, the escape.
WindowOver == \/ firstAt = Never /\ lateEnd # Never /\ t >= lateEnd
              \/ firstAt # Never /\ t >= firstAt + MaxFrame
              \/ firstAt # Never /\ t >= firstAt + ReadTimeout /\ Quiet
              \/ EscapeExpired

ReadGivesUp == /\ Silent /\ WindowOver
               /\ pc' = "readDrain" /\ drainFrom' = t /\ pending' = Expire(pending, t)
               /\ UNCHANGED <<t, result, adu, wire, txSeq, accepted, began, firstAt, lateEnd,
                              got, sent, cur, cleared, calls>>

-----------------------------------------------------------------------------
(* The clock *)

\* The owner is between two calls, or the call has nothing to do yet.
\* Before the first request nothing depends on how late it is.
Waiting == \/ pc = "gate" \/ (pc = "idle" /\ sent # <<>>)
           \/ Silent /\ ~WindowOver
              /\ (firstAt = Never /\ lateEnd = Never => t - began < ReadTimeout)
           \/ Draining /\ queue = <<>> /\ ~Quiet /\ t - drainFrom < DrainEscapeUs

Tick == /\ t < MaxTime /\ t' = t + 1 /\ Waiting
        /\ UNCHANGED <<pc, result, adu, wire, memory, call, sent, cur, cleared, calls>>

\* The owner stays away, for as long as a cycle of micros().
Rest == /\ pc = "idle"
        /\ \E d \in Rests : t + d <= MaxTime /\ t' = t + d
        /\ UNCHANGED <<pc, result, adu, wire, memory, call, sent, cur, cleared, calls>>

-----------------------------------------------------------------------------
Slaves == Stray \/ \E q \in 1..Len(sent) : Answer(q)
Drain  == DrainFrame \/ DrainIdle \/ DrainEscape
Write  == WriteCall \/ Send \/ SendFails \/ SendNothing
Read   == ReadCall \/ ProcessFrame \/ ReadTimesOut \/ ReadGivesUp

Next == Tick \/ Rest \/ Slaves \/ Drain \/ Write \/ Read
Spec == Init /\ [][Next]_vars

-----------------------------------------------------------------------------
Moments == 0..MaxTime
Frames  == {AnswerTo(sent[q].asked) : q \in 1..Len(sent)}

\* The variables keep their types; what is queued was sent by somebody.
TypeOK ==
  /\ pc \in {"idle", "writeDrain", "gate", "read", "readDrain"}
  /\ result \in {"none", "sent", "refused", "success", "failed"}
  /\ t \in 1..MaxTime /\ {lastAt, began, drainFrom, cleared} \subseteq Moments
  /\ txSeq \in 0..MaxWrites /\ cur \in 0..Len(sent)
  /\ pending.valid \in BOOLEAN /\ pending.until \in 0..UsWrap - 1
  /\ \A i \in 1..Len(queue) : queue[i].req = 0 \/ queue[i].frame \in Frames
  /\ got # NoFrame => got.frame \in Frames

\* Nothing that came in before the drain of the last writeAdu() ended is ever given
\* to the caller as an answer (cpp:953-971 and 1518).
StaleIsDrained == pc = "readDrain" /\ got # NoFrame => got.at >= cleared

\* Whose answer a read returns.  It is the answer to the request in the ADU, or one that
\* the driver had no means to tell from it (cpp:805-839, 1240 and 1381-1408): to a request
\* nobody waited for; to one that was given up and did not come within the shortest wait;
\* to one that was answered, if that was the answer to another, if a later frame has taken
\* its place in the memory of the transport, or if the dedupe window was over.
ShortestWait == CHOOSE us \in {ReadTimeout, MaxFrame, DrainEscapeUs} :
                  \A d \in {ReadTimeout, MaxFrame, DrainEscapeUs} : us <= d
Forgotten(q) == \E later \in q + 1..Len(sent) : sent[later].took # NoFrame
Excused(q) ==
  \/ sent[q].fate = "unread"
  \/ sent[q].fate = "given up" /\ got.at - sent[q].at >= ShortestWait
  \/ /\ sent[q].fate = "answered"
     /\ sent[q].took.req # q \/ Forgotten(q) \/ got.at - sent[q].took.at > Dedupe
AnswersTheRequest ==
  pc = "readDrain" /\ got # NoFrame => got.req = cur \/ (got.req # 0 /\ Excused(got.req))

\* An answer to the request in the ADU that readAdu() looks at is taken, unless it equals
\* the one accepted last and came within the dedupe window after it, or a cycle of
\* micros() later (cpp:826), or the ADU asks for an exception because a failed drain took
\* one back; the request that timed out never swallows it (cpp:1381-1418).
Looked == pc = "read" /\ queue # <<>> /\ queue' = Tail(queue)
GenuineIsTaken ==
  [][Looked /\ Head(queue).req = cur /\ cur # 0 =>
       \/ got' = Head(queue)
       \/ /\ accepted.frame = Head(queue).frame /\ accepted.seq # txSeq
          /\ \/ Head(queue).at - accepted.at <= Dedupe
             \/ Head(queue).at - accepted.at >= UsWrap
       \/ adu.exc]_vars

\* A read succeeds only for a request that went out: a retry with the ADU a failed read
\* has emptied is not answered by a late answer to the first try (cpp:1051 and 1554-1555).
NothingForNothing == result = "success" /\ pc = "idle" => cur # 0

\* A read that ends without an answer has waited the read timeout: once the line is idle
\* the code means to "retain the historical recovery window for a following clean frame"
\* (cpp:1275-1278).  The frame envelope ends it earlier (cpp:1269-1273).
FullWait == pc = "readDrain" /\ got = NoFrame => drainFrom - began >= ReadTimeout
=============================================================================
