------------------------------- MODULE RxTask --------------------------------
(***************************************************************************)
(* The life of the RX task: begin() and the destructor, the readable       *)
(* callback, the event task with its semaphore, and the owner that polls   *)
(* when there is no task (ModbusRTUComm.cpp:120-127, 199-237, 334-468 and  *)
(* 505-520; ArduinoModbusRTUPlatform.h:145-257; ModbusRTUPlatform.h:       *)
(* 185-229; GigaBufferedSerial.h:176-206 and 287-292).                     *)
(*                                                                         *)
(* Three actors: the owner, which is the only one to call begin() and to   *)
(* destroy the object, the RX task, and the serial driver, whose callback  *)
(* is an interrupt and therefore a single step.  What mbed does is         *)
(* external: the driver reports the change from "nothing to read" to       *)
(* "something to read", once, to the handler that is installed when the    *)
(* report is made, and installing a handler while there is something to    *)
(* read reports it at once.  A received byte is a unit of the counter      *)
(* uart; the ring it goes to is RxRing's.                                  *)
(***************************************************************************)
EXTENDS Integers

CONSTANTS QuietPasses,  \* passes of begin()'s loop that make up T3.5
          UartRoom,     \* bytes the driver can hold
          SemMax,       \* greatest count of the semaphore
          MaxStarts,    \* bound: calls of begin()
          MaxBytes      \* bound: bytes that come in

ASSUME TaskAssumption ==
  /\ {QuietPasses, UartRoom, SemMax} \subseteq Nat \ {0}
  /\ {MaxStarts, MaxBytes} \subseteq Nat

VARIABLES
  pc,        \* where the owner is
  op,        \* the call it is in
  still,     \* passes of silence seen by begin()
  attached,  \* _rxCallbackAttached
  running,   \* _rxThreadRunning
  handle,    \* _rxThreadState: an event task, or None
  state,     \* the backend's local pointer to the task it starts or stops
  live,      \* the event tasks that are allocated
  run,       \* state->run
  tokens,    \* count of state->event
  task,      \* where the thread of the task is
  hint,      \* _rxReadableHint
  callback,  \* _readableCb and _readableCbCtx are set
  sigio,     \* the driver's handler is installed
  uart,      \* bytes that can be read
  edge,      \* the driver has a change to report
  starts,    \* calls of begin() so far
  bytes,     \* bytes that came in
  wild       \* points of the owner at which something freed was signalled

owner  == <<pc, op, still, attached, running, state, starts>>
event  == <<handle, live, run, tokens>>
driver == <<callback, sigio>>
line   == <<uart, edge, bytes>>
vars   == <<owner, event, task, hint, driver, line, wild>>

None == 0
Least(a, b) == IF a < b THEN a ELSE b

Init == /\ pc = "idle" /\ op = "none" /\ still = 0
        /\ attached = FALSE /\ running = FALSE /\ state = None
        /\ handle = None /\ live = {} /\ run = FALSE /\ tokens = 0
        /\ task = "none" /\ hint = FALSE
        /\ callback = FALSE /\ sigio = FALSE
        /\ uart = 0 /\ edge = FALSE /\ bytes = 0 /\ starts = 0 /\ wild = {}

-----------------------------------------------------------------------------
(* The driver, and the callback it makes *)

\* Defect: the semaphore counts without end.
ReleasedUnbounded(n) == n + 1

\* rtos::Semaphore::release()
Released(n) == Least(n + 1, SemMax)

\* _onReadableSignal(): the hint first, then the wake if a task is published.
\* A task that is freed, or a driver object that is gone, is memory somebody
\* else may own.
Freed == (handle # None /\ handle \notin live) \/ pc = "gone"

Signal == /\ hint' = TRUE
          /\ tokens' = IF handle \in live THEN Released(tokens) ELSE tokens
          /\ wild' = IF Freed THEN wild \cup {pc} ELSE wild

NoSignal == UNCHANGED <<hint, tokens, wild>>

\* A byte becomes readable; a full driver loses it in the hardware.
Arrive == /\ bytes < MaxBytes /\ uart < UartRoom
          /\ bytes' = bytes + 1 /\ uart' = uart + 1
          /\ edge' = (edge \/ uart = 0)
          /\ UNCHANGED <<owner, event, task, hint, driver, wild>>

\* _onReadableSigio(), when the driver reports the change.
Callback == /\ edge
            /\ edge' = FALSE
            /\ IF sigio /\ callback THEN Signal ELSE NoSignal
            /\ UNCHANGED <<owner, handle, live, run, task, driver, uart,
                           bytes>>

-----------------------------------------------------------------------------
(* The thread of the task: _rxThreadMain() and _ingestPoll() *)

ThreadStep(from, to) ==
  /\ task = from /\ task' = to
  /\ UNCHANGED <<owner, handle, live, run, driver, edge, bytes, wild>>

TaskMain == /\ ThreadStep("main", IF handle = None THEN "exited" ELSE "test")
            /\ UNCHANGED <<tokens, hint, uart>>

TaskTest == /\ ThreadStep("test", IF run THEN "wait" ELSE "exited")
            /\ UNCHANGED <<tokens, hint, uart>>

TaskWait == /\ tokens > 0
            /\ ThreadStep("wait", "woken")
            /\ tokens' = tokens - 1
            /\ UNCHANGED <<hint, uart>>

TaskWoken == /\ ThreadStep("woken", IF run THEN "clear" ELSE "exited")
             /\ UNCHANGED <<tokens, hint, uart>>

TaskClear == /\ ThreadStep("clear", "poll")
             /\ hint' = FALSE
             /\ UNCHANGED <<tokens, uart>>

\* Defect: one byte is taken for each wake.
TaskTakeOne == /\ uart > 0
               /\ ThreadStep("poll", "test")
               /\ uart' = uart - 1
               /\ UNCHANGED <<tokens, hint>>

\* available() and read(), one byte; the task goes on until there is none.
TaskTake == /\ uart > 0
            /\ ThreadStep("poll", "poll")
            /\ uart' = uart - 1
            /\ UNCHANGED <<tokens, hint>>

TaskDone == /\ uart = 0
            /\ ThreadStep("poll", "test")
            /\ UNCHANGED <<tokens, hint, uart>>

Task == \/ TaskMain \/ TaskTest \/ TaskWait \/ TaskWoken \/ TaskClear
        \/ TaskTake \/ TaskDone

-----------------------------------------------------------------------------
(* The owner: begin() and the destructor up to the detached callback *)

OwnerStep(from, to) ==
  /\ pc = from /\ pc' = to
  /\ UNCHANGED <<op, starts, uart, edge, bytes>>

\* _stopRxThread() does nothing unless a task is known to run.
Stop == IF running /\ handle # None THEN "stop" ELSE "detach"

Call(o) == /\ pc = "idle"
           /\ op' = o /\ pc' = Stop
           /\ UNCHANGED <<still, attached, running, state, event, task, hint,
                          driver, line, wild>>

BeginCall   == Call("begin") /\ starts < MaxStarts /\ starts' = starts + 1
DestroyCall == Call("destroy") /\ UNCHANGED starts

\* stopEventTask(): no new round, wake it, wait for it, free it.
StopFlag == /\ OwnerStep("stop", "release")
            /\ state' = handle /\ run' = FALSE
            /\ UNCHANGED <<still, attached, running, handle, live, tokens,
                           task, hint, driver, wild>>

\* Defect: a task that waits is not woken to see that it has to end.
StopReleaseNone == /\ OwnerStep("release", "join")
                   /\ UNCHANGED <<still, attached, running, state, event,
                                  task, hint, driver, wild>>

StopRelease == /\ OwnerStep("release", "join")
               /\ tokens' = Released(tokens)
               /\ UNCHANGED <<still, attached, running, state, handle, live,
                              run, task, hint, driver, wild>>

\* Defect: the task is freed without waiting for its thread.
StopJoinless == /\ OwnerStep("join", "delete")
                /\ UNCHANGED <<still, attached, running, state, event, task,
                               hint, driver, wild>>

StopJoin == /\ task = "exited"
            /\ OwnerStep("join", "delete")
            /\ UNCHANGED <<still, attached, running, state, event, task, hint,
                           driver, wild>>

StopDelete == /\ OwnerStep("delete", "null")
              /\ live' = live \ {state} /\ tokens' = 0
              /\ task' = IF task = "exited" THEN "none" ELSE task
              /\ UNCHANGED <<still, attached, running, state, handle, run,
                             hint, driver, wild>>

\* handle = 0 in the backend, then _rxThreadRunning = false.
StopNull == /\ OwnerStep("null", "detach")
            /\ handle' = None /\ state' = None /\ running' = FALSE
            /\ UNCHANGED <<still, attached, live, run, tokens, task, hint,
                           driver, wild>>

\* _detachIngressAdapter(): only a callback that was attached is removed.
AfterDetach == IF op = "begin" THEN "reset" ELSE "gone"

DetachCallback == /\ attached
                  /\ OwnerStep("detach", "detachSigio")
                  /\ callback' = FALSE
                  /\ UNCHANGED <<still, attached, running, state, event, task,
                                 hint, sigio, wild>>

DetachSigio == /\ OwnerStep("detachSigio", AfterDetach)
               /\ sigio' = FALSE /\ attached' = FALSE
               /\ UNCHANGED <<still, running, state, event, task, hint,
                              callback, wild>>

DetachSkip == /\ ~attached
              /\ OwnerStep("detach", AfterDetach)
              /\ UNCHANGED <<still, attached, running, state, event, task,
                             hint, driver, wild>>

-----------------------------------------------------------------------------
(* begin(): reset, silence, attach, start, replay *)

Reset == /\ OwnerStep("reset", "silence")
         /\ hint' = FALSE /\ still' = 0
         /\ UNCHANGED <<attached, running, state, event, task, driver, wild>>

\* A byte is thrown away and the silence starts again.
SilenceByte == /\ pc = "silence" /\ uart > 0
               /\ uart' = uart - 1 /\ still' = 0
               /\ UNCHANGED <<pc, op, attached, running, state, starts, event,
                              task, hint, driver, edge, bytes, wild>>

SilencePass == /\ pc = "silence" /\ uart = 0 /\ still < QuietPasses
               /\ still' = still + 1
               /\ UNCHANGED <<pc, op, attached, running, state, starts, event,
                              task, hint, driver, line, wild>>

\* The clock is read last: a byte that came in since available() stays.
SilenceOver == /\ still = QuietPasses
               /\ OwnerStep("silence", "attach")
               /\ still' = 0
               /\ UNCHANGED <<attached, running, state, event, task, hint,
                              driver, wild>>

\* attachReadable() refuses a stream that is not a registered adapter.
AttachRefused == /\ OwnerStep("attach", "start")
                 /\ attached' = FALSE
                 /\ UNCHANGED <<still, running, state, event, task, hint,
                                driver, wild>>

AttachCallback == /\ OwnerStep("attach", "attachSigio")
                  /\ attached' = FALSE /\ callback' = TRUE
                  /\ UNCHANGED <<still, running, state, event, task, hint,
                                 sigio, wild>>

\* Installing the handler reports what is there already.
AttachSigio == /\ OwnerStep("attachSigio", "start")
               /\ sigio' = TRUE /\ attached' = TRUE
               /\ IF uart > 0 THEN Signal ELSE NoSignal
               /\ UNCHANGED <<still, running, state, handle, live, run, task,
                              callback>>

\* Without a callback, or without memory, the owner goes on polling.
StartSkip == /\ OwnerStep("start", "idle")
             /\ UNCHANGED <<still, attached, running, state, event, task,
                            hint, driver, wild>>

\* The handle is published before the thread can run.
StartPublish == /\ attached /\ ~running /\ handle = None
                /\ OwnerStep("start", "launch")
                /\ state' = starts /\ live' = live \cup {starts}
                /\ handle' = starts /\ run' = TRUE /\ tokens' = 0
                /\ UNCHANGED <<still, attached, running, task, hint, driver,
                               wild>>

\* Thread::start()
Launch == /\ OwnerStep("launch", "started")
          /\ task' = "main" /\ state' = None
          /\ UNCHANGED <<still, attached, running, event, hint, driver, wild>>

LaunchFails == /\ OwnerStep("launch", "failed")
               /\ run' = FALSE
               /\ UNCHANGED <<still, attached, running, state, handle, live,
                              tokens, task, hint, driver, wild>>

\* Defect: the task is freed while its handle can still be signalled.
FailNullLate == /\ OwnerStep("failed", "failedDelete")
                /\ live' = live \ {state}
                /\ UNCHANGED <<still, attached, running, state, handle, run,
                               tokens, task, hint, driver, wild>>

\* The handle is withdrawn before the task is freed.
FailNull == /\ OwnerStep("failed", "failedDelete")
            /\ handle' = None
            /\ UNCHANGED <<still, attached, running, state, live, run, tokens,
                           task, hint, driver, wild>>

\* Defect: a task that could not start is not freed.
FailKeep == /\ OwnerStep("failedDelete", "idle")
            /\ state' = None
            /\ UNCHANGED <<still, attached, running, event, task, hint,
                           driver, wild>>

FailDelete == /\ OwnerStep("failedDelete", "idle")
              /\ live' = live \ {state} /\ state' = None
              /\ UNCHANGED <<still, attached, running, handle, run, tokens,
                             task, hint, driver, wild>>

Started == /\ OwnerStep("started", "replay")
           /\ running' = TRUE
           /\ UNCHANGED <<still, attached, state, event, task, hint, driver,
                          wild>>

\* Defect: an edge from before the handle was published is forgotten.
ReplayNever == /\ OwnerStep("replay", "idle")
               /\ UNCHANGED <<still, attached, running, state, event, task,
                              hint, driver, wild>>

\* replayPendingEvent()
Replay == /\ OwnerStep("replay", "idle")
          /\ tokens' = IF handle # None /\ hint THEN Released(tokens)
                       ELSE tokens
          /\ UNCHANGED <<still, attached, running, state, handle, live, run,
                         task, hint, driver, wild>>

\* readAdu() or writeAdu() without a task: the owner ingests by itself.
OwnerPoll == /\ pc = "idle" /\ ~running /\ uart > 0
             /\ uart' = uart - 1
             /\ UNCHANGED <<owner, event, task, hint, driver, edge, bytes,
                            wild>>

-----------------------------------------------------------------------------
\* A step of the call the owner is in.
Owner == \/ StopFlag \/ StopRelease \/ StopJoin \/ StopDelete \/ StopNull
         \/ DetachCallback \/ DetachSigio \/ DetachSkip
         \/ Reset \/ SilenceByte \/ SilencePass \/ SilenceOver
         \/ AttachRefused \/ AttachCallback \/ AttachSigio
         \/ StartSkip \/ StartPublish \/ Launch \/ LaunchFails
         \/ FailNull \/ FailDelete \/ Started \/ Replay

Next == \/ BeginCall \/ DestroyCall \/ Owner \/ OwnerPoll
        \/ Task \/ Arrive \/ Callback

\* Nobody blocks for ever but in waitEvent() and join(), which are not
\* enabled then; the driver reports its changes.  Nobody has to call.
Fairness == WF_vars(Owner) /\ WF_vars(Task) /\ WF_vars(Callback)

Spec == Init /\ [][Next]_vars /\ Fairness

-----------------------------------------------------------------------------
Idle == pc \in {"idle", "gone"}

TypeOK ==
  /\ pc \in {"idle", "stop", "release", "join", "delete", "null", "detach",
             "detachSigio", "reset", "silence", "attach", "attachSigio",
             "start", "launch", "failed", "failedDelete", "started",
             "replay", "gone"}
  /\ op \in {"none", "begin", "destroy"}
  /\ still \in 0 .. QuietPasses
  /\ {attached, running, run, hint, callback, sigio, edge} \subseteq BOOLEAN
  /\ handle \in 0 .. MaxStarts /\ state \in 0 .. MaxStarts
  /\ live \subseteq 1 .. MaxStarts
  /\ tokens \in 0 .. SemMax
  /\ task \in {"none", "main", "test", "wait", "woken", "clear", "poll",
               "exited"}
  /\ uart \in 0 .. UartRoom /\ bytes \in 0 .. MaxBytes
  /\ starts \in 0 .. MaxStarts

\* A freed task is never signalled, and no callback enters a driver object that
\* is gone, whenever the start fails and whenever the callback comes.  The
\* exception is the point at which the facade demands the exclusion from
\* others ("Callback-versus-teardown exclusion is an owner/platform lifecycle
\* responsibility", ModbusRTUPlatform.h:226-228): between delete and
\* handle = 0 in stopEventTask().
NoWildSignal == wild \subseteq {"null"}

\* Between two calls there is a task exactly if the driver believes that one
\* runs, and then it is the one that is published: a failed start leaves
\* nothing behind and a stop frees everything (ModbusRTUPlatform.h:203-206).
NoLeak == Idle => /\ live = {handle} \ {None}
                  /\ running <=> handle # None
                  /\ task \in {"none", "exited"} => ~running

\* Only one actor takes bytes from the UART and touches the producer's end of
\* the ring: begin() resets the ring and discards bytes, and a polling owner
\* ingests, only when no thread of a task is left (cpp:200-227, 949, 1195).
OneProducer == pc \in {"reset", "silence"} \/ (pc = "idle" /\ ~running)
                 => task = "none"

\* "edge-only input cannot wait for another byte" (cpp:363-366): bytes that come
\* in while the task runs, or came in while it started, are taken from the UART,
\* unless the owner begins to stop the task.
Ingested == pc = "idle" /\ running /\ uart > 0
              ~> uart = 0 \/ pc = "stop"

\* begin() and the destructor return, once the line has fallen silent: a task
\* that waits is woken to end, and every failed start falls back to polling.
CallReturns == ~Idle ~> Idle
=============================================================================
