--------------------------- MODULE RxTransaction ----------------------------
(***************************************************************************)
(* readAdu(): from the call to the terminal result, with the drain it ends *)
(* in, and the drain of writeAdu() before the next request                 *)
(* (ModbusRTUComm.cpp:37-97, 505-546, 805-925, 927-1040 and 1047-1515).    *)
(*                                                                         *)
(* A received byte is its time stamp; what the bytes say is the choice of  *)
(* RtuCandidate!Outcomes and of the content of a good frame.  The line may *)
(* be silent, or deliver a byte in each unit of time for ever.  In polled  *)
(* mode bytes wait in the UART until the owner ingests them; with an RX    *)
(* thread they are stamped and pushed whatever the owner is doing, and the *)
(* owner's loads are steps of their own wherever the order of two of them  *)
(* matters.  The TX gate the drain leaves behind is TxGate's, the accesses *)
(* to one ring slot are RxRing's.  A local variable of the code that is    *)
(* dead is 0 here.                                                         *)
(***************************************************************************)
EXTENDS RtuCandidate

CONSTANTS MaxSafe,     \* kMaxWrapSafeRxIntervalUs (2^31 - 1)
          ReadTimeout, \* _readTimeout in microseconds
          LateGrace,   \* _computeLateGraceUs()
          MaxFrame,    \* _maxFrameReceiveUs
          DrainEscapeUs, \* MBUS_RTU_DRAIN_ESCAPE_US
          Dedupe,      \* MBUS_RTU_DEDUPE_WINDOW_US
          Threaded,    \* is there an RX thread
          Room,        \* bytes the ring holds
          UartRoom,    \* bytes the UART holds
          Lag,         \* longest pass of the owner's loops, and of one push
          Rests,       \* times the owner may stay away
          Start,       \* readings of micros() when begin() returns
          MaxRest,     \* bound: time between two calls
          MaxCalls,    \* bound: calls of a behaviour
          MaxBytes,    \* bound: bytes that come in, 0 for no bound
          Kinds        \* what a good frame may be

ASSUME TransactionAssumption ==
  /\ {MaxSafe, ReadTimeout, LateGrace, MaxFrame, Dedupe} \subseteq Nat
  /\ {MaxRest, MaxCalls, MaxBytes} \subseteq Nat
  /\ {DrainEscapeUs, Room, UartRoom, Lag} \subseteq Nat \ {0}
  /\ 2 * MaxSafe < UsWrap
  \* The grace is clamped to milliseconds, and a loop does not stay away for a
  \* quarter of the range of micros().
  /\ LateGrace <= MaxSafe
  /\ MaxSafe + 2 * Lag < UsWrap /\ DrainEscapeUs + 2 * Lag <= UsWrap
  /\ Threaded \in BOOLEAN /\ Kinds \subseteq {"reply", "same", "other"}
  /\ Rests \subseteq Nat \ {0} /\ Start \subseteq 0 .. UsWrap - 1

VARIABLES now,      \* micros()
          uart,     \* bytes waiting in the UART (polled mode)
          push,     \* the byte the RX thread is pushing
          ring,     \* stamps of the bytes in the RX ring, oldest first
          lastRx,   \* _lastRxByteUs, 0 for "none yet"
          op,       \* the call the owner is in
          pc,       \* where it is in the pass of the loop
          state,    \* ctx.state
          resume,   \* ctx.resume_after_process
          event,    \* ctx.pending_extract, with the content of a good frame
          startUs,  \* ctx.start_us
          nowUs,    \* the reading of micros() this pass decides by
          avail,    \* the extractor's reading of _rxCount()
          firstUs,  \* ctx.first_byte_us
          flags,    \* the outcome flags of ctx that are set
          lateUs,   \* ctx.late_deadline_us, also the grace of the next one
          pending,  \* _timedOutPending.valid
          seenRx,   \* the drain's reading of _lastRxByteUs
          drainUs,  \* drainStartUs
          accepted, \* when the last accepted frame ended, and if a request
                    \* was sent since (_lastAcceptedUs, _lastAcceptedTxSeq)
          adu,      \* what the caller's ADU holds
          result,   \* what readAdu() returned last
          due,      \* has a character time passed since the last byte
          bytes,    \* bytes that came in, when MaxBytes bounds them
          lag,      \* time this pass has taken
          age,      \* time since the call began, or since the last returned
          calls,    \* calls made
          quiet,    \* silence on the line, up to T35
          hush,     \* longest silence on the line since the drain began
          lost,     \* was the last byte dropped by a full ring
          heard     \* has an answer been extracted in this call

line  == <<uart, push, due, bytes>>
rx    == <<ring, lastRx>>
loop  == <<pc, state, resume, event, avail>>
txn   == <<startUs, firstUs, flags, lateUs, pending>>
drain == <<seenRx, drainUs>>
kept  == <<accepted, adu, result>>
clock == <<now, lag, age, quiet, hush, calls>>
ghost == <<lost, heard>>
vars  == <<line, rx, op, loop, nowUs, txn, drain, kept, clock, ghost>>

NoPush == [at |-> "none", ts |-> 0]
NoEvent == [status |-> "none", kind |-> "none", first |-> 0, last |-> 0]
Never == [valid |-> FALSE, us |-> 0, sent |-> FALSE]

\* Signed 32-bit order of two readings.
NotBefore(ref, us) == Since(ref, us) < UsWrap \div 2

\* make_rx_timing_budget(): the read timeout shrinks so that the whole
\* transaction stays in the half of the range that signed order can judge.
RxTail == Min({MaxSafe, LateGrace + MaxFrame})
ReadUs == Min({ReadTimeout, MaxSafe - RxTail})
Escape == ReadUs + RxTail

\* Defect: the stamp of a byte is trusted however old it is.
AnchorTrusting(us, seen) == us

\* normalize_rx_event_timestamp()
Anchor(us, seen) == IF Since(us, seen) > Escape THEN seen
                    ELSE IF NotBefore(startUs, us) THEN us ELSE startUs

\* Defect: a clock that does not wrap.
LaterUnwrapped(us, d) == us + d

Later(us, d) == (us + d) % UsWrap
Reached(deadline) == NotBefore(deadline, nowUs)
\* Defect: the receive phase has no last resort.
EscapeNeverExpires == FALSE

EscapeExpired == Since(startUs, nowUs) >= Escape

States == {"WAIT_FIRST", "RX_ACTIVE", "PROCESS_FRAME", "LATE_WINDOW", "DRAIN",
           "DONE"}

\* The bound on a read: the pass before the escape, one that finds a frame all
\* the same, the one that judges it and the one that enters the drain; and the
\* pass of the drain before its escape, and the one that sees it.
ReturnBound == Escape + DrainEscapeUs + 6 * Lag

-----------------------------------------------------------------------------
Init == /\ now \in Start
        /\ uart = 0 /\ push = NoPush /\ due = FALSE /\ bytes = 0
        /\ ring = <<>> /\ lastRx = 0
        /\ op = "none" /\ pc = "idle" /\ state = "DONE"
        /\ resume = "WAIT_FIRST" /\ event = NoEvent /\ avail = 0
        /\ startUs = 0 /\ nowUs = 0 /\ firstUs = 0 /\ flags = {}
        /\ lateUs = 0 /\ pending = FALSE
        /\ seenRx = 0 /\ drainUs = 0
        /\ accepted = Never /\ adu = "empty" /\ result = "none"
        /\ lag = 0 /\ age = 0 /\ quiet = T35 /\ hush = 0
        /\ calls = 0 /\ lost = FALSE /\ heard = FALSE

-----------------------------------------------------------------------------
(* The line, and the time *)

\* Where time passes and bytes come in.  Without an RX thread only the steps
\* that read the clock or the UART can tell the difference.
Moment == Threaded \/ pc \in {"idle", "head", "carve", "drain", "drainHead",
                             "sample"}

\* A byte comes in, at most one in each unit of time.  The RX thread reads
\* micros() for it at once (_ingestPoll 510); without one it waits.
Arrive == /\ due /\ Moment
          /\ IF MaxBytes = 0 THEN UNCHANGED bytes
             ELSE bytes < MaxBytes /\ bytes' = bytes + 1
          /\ due' = FALSE
          /\ quiet' = IF Threaded THEN quiet ELSE 0
          /\ IF Threaded
             THEN /\ push = NoPush
                  /\ push' = [at |-> "stamped", ts |-> now]
                  /\ UNCHANGED uart
             ELSE /\ uart < UartRoom
                  /\ uart' = uart + 1
                  /\ UNCHANGED push
          /\ UNCHANGED <<rx, op, loop, nowUs, txn, drain, kept, now, lag, age,
                         hush, calls, ghost>>

\* _pushRxByte() in the RX thread: a byte that finds the ring full is lost,
\* the others store _lastRxByteUs before they publish the entry.  The
\* silence ends for the driver when it has noted the byte.
PushStore == /\ push.at = "stamped"
             /\ IF Len(ring) < Room
                THEN push' = [push EXCEPT !.at = "stored"] /\ lastRx' = push.ts
                ELSE push' = NoPush /\ UNCHANGED lastRx
             /\ lost' = (Len(ring) >= Room)
             /\ quiet' = Min({T35, Since(push.ts, now)})
             /\ UNCHANGED <<uart, due, bytes, ring, op, loop, nowUs, txn,
                            drain, kept, now, lag, age, hush, calls, heard>>

PushPublish == /\ push.at = "stored"
               /\ ring' = Append(ring, push.ts)
               /\ push' = NoPush
               /\ UNCHANGED <<uart, due, bytes, lastRx, op, loop, nowUs, txn,
                              drain, kept, clock, ghost>>

RxThread == PushStore \/ PushPublish

Draining == state = "DRAIN" /\ pc \notin {"head", "look", "drain"}

\* Time goes on by d.  A pass of the owner's loop, and a push, take at most
\* Lag; a caller that is in no call may stay away for any time in Rests.
Elapse(d) ==
  /\ push # NoPush => Since(push.ts, now) + d <= Lag
  /\ now' = Later(now, d) /\ due' = TRUE
  /\ quiet' = Min({T35, quiet + d})
  /\ hush' = IF Draining THEN Max({hush, quiet'}) ELSE 0
  /\ age' = Min({age + d, ReturnBound + 1})
  /\ UNCHANGED <<uart, push, bytes, rx, op, loop, nowUs, txn, drain, kept,
                 calls, ghost>>

Tick == op # "none" /\ Moment /\ lag < Lag /\ lag' = lag + 1 /\ Elapse(1)
Rest(d) == op = "none" /\ age + d <= MaxRest /\ UNCHANGED lag /\ Elapse(d)

\* _ingestPoll() by the owner, when there is no RX thread to do it.
Ingest ==
  LET n == Min({uart, Room - Len(ring)})
  IN  /\ uart' = 0
      /\ ring' = ring \o [i \in 1 .. n |-> now]
      /\ lastRx' = IF n > 0 THEN now ELSE lastRx
      /\ lost' = IF uart = 0 THEN lost ELSE n < uart
      /\ UNCHANGED <<push, due, bytes>>

\* _expireTimedOutPending(us)
Live(us) == pending /\ ~NotBefore(lateUs, us)

-----------------------------------------------------------------------------
(* readAdu(): the call, the head of its loop and the first sign of activity *)

\* The ADU of a call holds the request, and then no frame at all.
Call(o, s, at) ==
  /\ op = "none" /\ calls < MaxCalls
  /\ op' = o /\ state' = s /\ pc' = at /\ calls' = calls + 1
  /\ adu' = "empty" /\ result' = "none"
  /\ lag' = 0 /\ age' = 0 /\ heard' = FALSE
  /\ UNCHANGED <<line, rx, resume, event, avail, nowUs, firstUs, flags, lateUs,
                 pending, drain, accepted, now, quiet, hush, lost>>

ReadCall == Call("read", "WAIT_FIRST", "head") /\ startUs' = now

\* The call returns; its locals are gone.
Leave == /\ op' = "none" /\ pc' = "idle" /\ state' = "DONE"
         /\ resume' = "WAIT_FIRST" /\ flags' = {}
         /\ nowUs' = 0 /\ seenRx' = 0 /\ drainUs' = 0
         /\ lag' = 0 /\ age' = 0 /\ hush' = 0
         /\ UNCHANGED <<line, event, avail, startUs, firstUs, lateUs, now,
                        quiet, calls, ghost>>

LoopHead == /\ pc = "head"
            /\ Ingest
            /\ nowUs' = now /\ pending' = Live(now)
            /\ pc' = "look" /\ lag' = 0
            /\ UNCHANGED <<op, state, resume, event, avail, startUs, firstUs,
                           flags, lateUs, drain, kept, now, age, quiet, hush,
                           calls, heard>>

\* noteFirstRxActivity(): the windows of the receive phase hang on firstUs.
NoteFirst(us) == /\ firstUs' = Anchor(us, nowUs)
                 /\ flags' = flags \cup {"active"}

\* Bytes in the ring are the sign of activity, not a retained time stamp.
Look ==
  /\ pc = "look"
  /\ IF "active" \notin flags /\ ring # <<>>
     THEN /\ NoteFirst(ring[1])
          /\ state' = IF state \in {"WAIT_FIRST", "LATE_WINDOW"}
                      THEN "RX_ACTIVE" ELSE state
     ELSE UNCHANGED <<firstUs, flags, state>>
  /\ pc' = CASE state' = "PROCESS_FRAME" -> "classify"
             [] state' = "DRAIN" -> "drain"
             [] OTHER -> "count"
  /\ UNCHANGED <<line, rx, op, resume, event, avail, nowUs, startUs, lateUs,
                 pending, drain, kept, clock, ghost>>

-----------------------------------------------------------------------------
(* _extractNextFrame(), for readAdu() and for the drain *)

\* The count is taken once; bytes that come in later are not looked at.
Count == /\ pc = "count"
         /\ avail' = Len(ring) /\ pc' = "carve"
         /\ UNCHANGED <<line, rx, op, state, resume, event, nowUs, txn, drain,
                        kept, clock, ghost>>

Run == Scanned(SubSeq(ring, 1, Min({avail, Len(ring)})))

\* A good frame answers the request or not; "same" is an answer that is byte
\* for byte the frame accepted last.
Content(status) == IF status # "ok" THEN {"none"}
                   ELSE IF accepted.valid THEN Kinds ELSE Kinds \ {"same"}

Candidate(o, kind) ==
  IF o.status = "ok"
  THEN [status |-> "ok", kind |-> kind, first |-> ring[1],
        last |-> ring[o.drop]]
  ELSE [NoEvent EXCEPT !.status = o.status]

Consume(n) == /\ ring' = SubSeq(ring, n + 1, Len(ring))
              /\ UNCHANGED <<uart, push, due, bytes, lastRx>>

\* The extractor found nothing: the state decides, on the pass's own nowUs.
CarveNone == /\ pc = "carve" /\ state # "DRAIN"
             /\ Outcome("none", 0) \in Outcomes(Run, now)
             /\ pc' = "judge" /\ avail' = 0
             /\ UNCHANGED <<line, rx, op, state, resume, event, nowUs, txn,
                            drain, kept, clock, ghost>>

\* Every other outcome goes through PROCESS_FRAME, one pass later.
CarveCandidate(o, kind) ==
  /\ pc = "carve" /\ state # "DRAIN"
  /\ o.status # "none" /\ kind \in Content(o.status)
  /\ Consume(o.drop)
  /\ event' = Candidate(o, kind)
  /\ IF state = "WAIT_FIRST" /\ "active" \notin flags
     THEN NoteFirst(IF event'.first # 0 THEN event'.first ELSE nowUs)
     ELSE UNCHANGED <<firstUs, flags>>
  /\ resume' = IF state = "LATE_WINDOW" THEN "LATE_WINDOW" ELSE "RX_ACTIVE"
  /\ state' = "PROCESS_FRAME" /\ pc' = "head" /\ avail' = 0 /\ nowUs' = 0
  /\ UNCHANGED <<op, startUs, lateUs, pending, drain, kept, clock, ghost>>

-----------------------------------------------------------------------------
(* WAIT_FIRST, RX_ACTIVE and LATE_WINDOW when nothing was extracted *)

Goto(next, at) ==
  /\ state' = next /\ pc' = at
  /\ nowUs' = IF at = "head" THEN 0 ELSE nowUs
  /\ UNCHANGED <<line, rx, op, resume, event, avail, startUs, firstUs, drain,
                 kept, clock, ghost>>

\* The last resort, in every one of the three states.
JudgeEscape == /\ pc = "judge" /\ EscapeExpired
               /\ Goto("DRAIN", "head")
               /\ UNCHANGED <<flags, lateUs, pending>>

\* Defect: a read gives up without the late window.
WaitFirstGivesUp(answerable) ==
  /\ pc = "judge" /\ ~EscapeExpired /\ state = "WAIT_FIRST"
  /\ "active" \notin flags /\ Reached(Later(startUs, ReadUs))
  /\ pending' = answerable
  /\ flags' = flags \cup {"late"} /\ lateUs' = Later(nowUs, LateGrace)
  /\ Goto("DRAIN", "head")

\* No byte in time: wait a little longer before giving up.  A request that
\* nobody answers (unit 0, FC 0x45) leaves nothing pending.
WaitFirstExpires(answerable) ==
  /\ pc = "judge" /\ ~EscapeExpired /\ state = "WAIT_FIRST"
  /\ "active" \notin flags /\ Reached(Later(startUs, ReadUs))
  /\ pending' = answerable
  /\ flags' = flags \cup {"late"} /\ lateUs' = Later(nowUs, LateGrace)
  /\ Goto("LATE_WINDOW", "head")

WaitFirst == /\ pc = "judge" /\ ~EscapeExpired /\ state = "WAIT_FIRST"
             /\ "active" \in flags \/ ~Reached(Later(startUs, ReadUs))
             /\ Goto("WAIT_FIRST", "head")
             /\ UNCHANGED <<flags, lateUs, pending>>

LateWindow == /\ pc = "judge" /\ ~EscapeExpired /\ state = "LATE_WINDOW"
              /\ Goto(IF Reached(lateUs) THEN "DRAIN" ELSE "LATE_WINDOW",
                      "head")
              /\ UNCHANGED <<flags, lateUs, pending>>

\* The envelope of the longest frame is used up.
RxActiveEnvelope == /\ pc = "judge" /\ ~EscapeExpired /\ state = "RX_ACTIVE"
                    /\ "active" \in flags /\ Reached(Later(firstUs, MaxFrame))
                    /\ Goto("DRAIN", "head")
                    /\ UNCHANGED <<flags, lateUs, pending>>

\* _rxEmpty() comes first, _lastRxByteUs is loaded a step later.
RxActiveEmpty ==
  /\ pc = "judge" /\ ~EscapeExpired /\ state = "RX_ACTIVE"
  /\ "active" \notin flags \/ ~Reached(Later(firstUs, MaxFrame))
  /\ Goto("RX_ACTIVE", IF ring = <<>> THEN "last" ELSE "head")
  /\ UNCHANGED <<flags, lateUs, pending>>

RxActiveLast ==
  LET lineIdle == lastRx # 0 /\ Since(lastRx, nowUs) >= T35
  IN  /\ pc = "last"
      /\ Goto(IF lineIdle /\ Reached(Later(firstUs, ReadUs))
              THEN "DRAIN" ELSE "RX_ACTIVE", "head")
      /\ UNCHANGED <<flags, lateUs, pending>>

Judge == \/ JudgeEscape
         \/ \E answerable \in BOOLEAN : WaitFirstExpires(answerable)
         \/ WaitFirst \/ LateWindow
         \/ RxActiveEnvelope \/ RxActiveEmpty \/ RxActiveLast

-----------------------------------------------------------------------------
(* PROCESS_FRAME: one candidate is classified *)

\* A good frame is activity, if nothing was before it.
NoteFrame(more) ==
  /\ firstUs' = IF "active" \in flags THEN firstUs
                ELSE Anchor(IF event.first # 0 THEN event.first ELSE nowUs,
                            nowUs)
  /\ flags' = flags \cup {"active"} \cup more

\* Defect: an equal frame is a duplicate though no request was sent between.
DuplicateUnsent == /\ event.kind = "same" /\ accepted.valid
                   /\ Since(accepted.us, event.last) <= Dedupe

\* _isRecentDuplicate()
RecentDuplicate == /\ event.kind = "same"
                   /\ accepted.valid /\ accepted.sent
                   /\ Since(accepted.us, event.last) <= Dedupe

\* Defect: the transition out of PROCESS_FRAME is missing.
ResumeNever == /\ pc' = "head" /\ event' = NoEvent
               /\ resume' = "WAIT_FIRST" /\ nowUs' = 0
               /\ UNCHANGED <<line, rx, op, state, avail, startUs, lateUs,
                              drain, kept, clock, lost>>

\* Leave PROCESS_FRAME: the escape is looked at only after the candidate.
ResumeAfter == /\ state' = IF EscapeExpired THEN "DRAIN" ELSE resume
               /\ pc' = "head" /\ event' = NoEvent
               /\ resume' = "WAIT_FIRST" /\ nowUs' = 0
               /\ UNCHANGED <<line, rx, op, avail, startUs, lateUs, drain,
                              kept, clock, lost>>

ClassifyError == /\ pc = "classify" /\ event.status # "ok"
                 /\ flags' = flags \cup {IF event.status = "crc" THEN "crc"
                                         ELSE "bad"}
                 /\ ResumeAfter /\ UNCHANGED <<firstUs, pending, heard>>

ClassifyDuplicate == /\ pc = "classify" /\ event.status = "ok"
                     /\ RecentDuplicate
                     /\ heard' = TRUE
                     /\ NoteFrame({}) /\ ResumeAfter /\ UNCHANGED pending

\* Only here is the ADU filled.
ClassifyMatch == /\ pc = "classify" /\ event.kind \in {"reply", "same"}
                 /\ ~RecentDuplicate
                 /\ adu' = "reply"
                 /\ accepted' = [valid |-> TRUE, us |-> event.last,
                                 sent |-> FALSE]
                 /\ pending' = FALSE
                 /\ NoteFrame({"match"})
                 /\ heard' = TRUE
                 /\ state' = "DRAIN" /\ pc' = "head" /\ event' = NoEvent
                 /\ resume' = "WAIT_FIRST" /\ nowUs' = 0
                 /\ UNCHANGED <<line, rx, op, avail, startUs, lateUs, drain,
                                result, clock, lost>>

\* A stray frame; it may be the late answer to an earlier request
\* (_matchAndConsumeTimedOutPending), which it then settles.
ClassifyOther(settles) ==
  /\ pc = "classify" /\ event.kind = "other"
  /\ pending' = (Live(event.last) /\ ~settles)
  /\ NoteFrame({}) /\ ResumeAfter /\ UNCHANGED heard

Classify == \/ ClassifyError \/ ClassifyDuplicate \/ ClassifyMatch
            \/ \E settles \in BOOLEAN : ClassifyOther(settles)

-----------------------------------------------------------------------------
(* _drainToIdle(), at the end of readAdu() and at the start of writeAdu() *)

WriteCall == Call("write", "DRAIN", "drain") /\ UNCHANGED startUs

\* readAdu() looks at none of its windows any more.
DrainCall == /\ pc = "drain"
             /\ pending' = Live(now)
             /\ lateUs' = IF pending' THEN lateUs ELSE 0
             /\ startUs' = 0 /\ firstUs' = 0 /\ nowUs' = 0
             /\ drainUs' = now /\ hush' = quiet
             /\ pc' = "drainHead"
             /\ UNCHANGED <<line, rx, op, state, resume, event, avail, flags,
                            seenRx, kept, now, lag, age, quiet, calls, ghost>>

DrainHead == /\ pc = "drainHead"
             /\ Ingest
             /\ pc' = "count" /\ lag' = 0
             /\ UNCHANGED <<op, state, resume, event, avail, nowUs, txn, drain,
                            kept, now, age, quiet, hush, calls, heard>>

\* Frames are thrown away until there are none; a good one may settle the
\* timed-out request.
DrainCarve(o, settles) ==
  /\ pc = "carve" /\ state = "DRAIN"
  /\ Consume(o.drop)
  /\ pending' = IF o.status = "ok"
                THEN Live(ring[o.drop]) /\ ~settles ELSE pending
  /\ avail' = 0
  /\ pc' = IF o.status = "none" THEN "sample" ELSE "count"
  /\ UNCHANGED <<op, state, resume, event, nowUs, startUs, firstUs, flags,
                 lateUs, drain, kept, clock, ghost>>

\* micros(), then _lastRxByteUs, then _rxEmpty().
DrainSample == /\ pc = "sample"
               /\ nowUs' = now /\ pending' = Live(now)
               /\ pc' = "load"
               /\ UNCHANGED <<line, rx, op, state, resume, event, avail,
                              startUs, firstUs, flags, lateUs, drain, kept,
                              clock, ghost>>

DrainLoad == /\ pc = "load"
             /\ seenRx' = lastRx /\ pc' = "check"
             /\ UNCHANGED <<line, rx, op, state, resume, event, avail, nowUs,
                            txn, drainUs, kept, clock, ghost>>

SinceRx   == IF seenRx = 0 THEN nowUs ELSE Since(seenRx, nowUs)
\* Defect: an empty ring is taken for an idle line.
DrainIdleUntimed == ring = <<>>

DrainIdle == ring = <<>> /\ SinceRx >= T35
\* Defect: a drain waits for silence however long it takes.
EscapeNeverDue == FALSE

EscapeDue == Since(drainUs, nowUs) >= DrainEscapeUs

DrainLoop == /\ pc = "check" /\ ~DrainIdle /\ ~EscapeDue
             /\ pc' = "drainHead" /\ nowUs' = 0 /\ seenRx' = 0
             /\ UNCHANGED <<line, rx, op, state, resume, event, avail, txn,
                            drainUs, kept, clock, ghost>>

\* frame error > CRC error > time-out
Verdict(outcome) == CASE "match" \in outcome -> "success"
                      [] outcome \cap {"match", "bad"} = {"bad"} -> "frame"
                      [] outcome \cap {"match", "bad", "crc"} = {"crc"} ->
                           "crc"
                      [] OTHER -> "timeout"

\* Defect: the frame stays in the ADU of a read that failed.
ReadReturnKeeping(outcome) == result' = Verdict(outcome) /\ UNCHANGED adu

\* readAdu() returns after its drain; without a match the ADU is emptied.
ReadReturn(outcome) ==
  /\ result' = Verdict(outcome)
  /\ adu' = IF "match" \in outcome THEN adu ELSE "empty"

ReadDone == /\ pc = "check" /\ op = "read" /\ DrainIdle
            /\ ReadReturn(flags)
            /\ Leave /\ UNCHANGED <<rx, pending, accepted>>

\* writeAdu() goes on to send; _txSeq counts the requests that were sent.
\* What it does meanwhile is TxGate's, and takes the time of a Rest.
WriteDone(sent) ==
  /\ pc = "check" /\ op = "write" /\ DrainIdle
  /\ accepted' = [accepted EXCEPT !.sent = @ \/ (sent /\ accepted.valid)]
  /\ Leave /\ UNCHANGED <<rx, pending, adu, result>>

\* The line never fell silent: throw everything away and fail the call.
DrainEscape ==
  /\ pc = "check" /\ ~DrainIdle /\ EscapeDue
  /\ ring' = <<>> /\ lastRx' = 0 /\ pending' = FALSE
  /\ IF op = "read" THEN ReadReturn((flags \ {"match"}) \cup {"bad"})
                    ELSE UNCHANGED <<adu, result>>
  /\ Leave /\ UNCHANGED accepted

Drain == \/ DrainCall \/ DrainHead
         \/ \E o \in Outcomes(Run, now), settles \in BOOLEAN :
              DrainCarve(o, settles)
         \/ DrainSample \/ DrainLoad \/ DrainLoop \/ ReadDone
         \/ \E sent \in BOOLEAN : WriteDone(sent)
         \/ DrainEscape

-----------------------------------------------------------------------------
\* A step of the call the owner is in.
Owner == \/ LoopHead \/ Look \/ Count \/ CarveNone
         \/ \E o \in Outcomes(Run, now), kind \in Kinds \cup {"none"} :
              CarveCandidate(o, kind)
         \/ Judge \/ Classify \/ Drain

Next == \/ Owner \/ ReadCall \/ WriteCall
        \/ Arrive \/ RxThread \/ Tick
        \/ \E d \in Rests : Rest(d)

\* The owner and the RX thread get to run, and time passes, while a call is
\* in progress.  Nobody has to call, and no byte has to come.
\* Tick is strongly fair since Moment lets it happen at some steps only.
Fairness == WF_vars(Owner) /\ WF_vars(RxThread) /\ SF_vars(Tick)

Spec == Init /\ [][Next]_vars /\ Fairness

-----------------------------------------------------------------------------
Stamp == 0 .. UsWrap - 1

TypeOK ==
  /\ now \in Stamp /\ lastRx \in Stamp /\ startUs \in Stamp
  /\ nowUs \in Stamp /\ firstUs \in Stamp /\ lateUs \in Stamp
  /\ seenRx \in Stamp /\ drainUs \in Stamp
  /\ uart \in 0 .. UartRoom /\ due \in BOOLEAN /\ bytes \in 0 .. MaxBytes
  /\ pending \in BOOLEAN
  /\ push \in [at : {"none", "stamped", "stored"}, ts : Stamp]
  /\ ring \in Seq(Stamp) /\ Len(ring) <= Room /\ avail \in 0 .. Room
  /\ op \in {"none", "read", "write"}
  /\ pc \in {"idle", "head", "look", "count", "carve", "judge", "last",
             "classify", "drain", "drainHead", "sample", "load", "check"}
  /\ state \in States /\ resume \in States
  /\ event \in [status : {"none", "ok", "crc", "frame", "gap"},
                kind : {"none", "reply", "same", "other"},
                first : Stamp, last : Stamp]
  /\ flags \subseteq {"active", "match", "bad", "crc", "late"}
  /\ accepted \in [valid : BOOLEAN, us : Stamp, sent : BOOLEAN]
  /\ adu \in {"empty", "reply"}
  /\ result \in {"none", "success", "timeout", "frame", "crc"}
  /\ lag \in 0 .. Lag /\ age \in 0 .. Max({ReturnBound, MaxRest}) + 1
  /\ quiet \in 0 .. T35 /\ hush \in 0 .. T35
  /\ calls \in 0 .. MaxCalls /\ lost \in BOOLEAN /\ heard \in BOOLEAN

\* Whatever the line does, a call returns within the escape of its receive
\* phase and of its drain, plus the passes that were under way (1069-1073).
ReturnBounded == op # "none" => age <= ReturnBound

\* A read gives up a silent line only after the read timeout and the late
\* grace, so that the next request cannot collide with a slow answer
\* (1222-1244, 1310-1313).
SilentWait == pc = "drain" /\ op = "read" /\ "active" \notin flags
                => age >= ReadUs + LateGrace

\* The receive windows of a read hang on a moment inside that read, whatever
\* the stamps of the bytes it finds in the ring (78-93, 1126-1137): an old
\* byte cannot make them end early, or in the next cycle of micros().
WindowsAreCurrent == "active" \in flags /\ state # "DRAIN"
                       => Since(firstUs, now) <= age

\* readAdu() returns success exactly when the ADU holds a frame; a frame is
\* taken back when the drain after it fails (1430-1433, 1469).
ResultAgrees == op # "read" => /\ result = "success" <=> adu = "reply"
                               /\ result = "success" => heard

\* An answer to the request goes unreported only if it is the echo of one
\* that was delivered for an earlier request (819-839, 1381-1387), or if the
\* drain after it failed.
OnlyEchoesAreDropped ==
  op = "none" /\ heard /\ result \in {"timeout", "crc"}
    => accepted.valid /\ accepted.sent

\* The drain takes the line for idle only if it was silent for T3.5, but for
\* a pass of the loop, at some time since it began (973-977).  Two cases are
\* out: after a hard recovery no byte is remembered, and a byte lost to a full
\* ring leaves no trace in _lastRxByteUs.
IdleIsReal == pc = "check" /\ DrainIdle /\ seenRx # 0 /\ ~lost
                => hush >= T35 - Lag

\* When the extractor ends a candidate by the silence after it, there was such
\* a silence ("only finalize once idle >= T3.5", 764): a byte that came in since
\* the count, if any, followed T3.5 later.
SilenceIsSeen ==
  /\ pc = "carve" /\ avail >= MinFrame /\ CandidateEnd(Run) = avail
  /\ Idle(Run, now)
  /\ Len(ring) > avail
  => GapBefore(ring, avail + 1) >= T35

\* Every call returns.
Returns == op # "none" ~> op = "none"
=============================================================================
