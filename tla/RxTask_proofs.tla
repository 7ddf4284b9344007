---------------------------- MODULE RxTask_proofs ----------------------------
(***************************************************************************)
(* Theorems about the life of the RX task, for every number of starts and  *)
(* of bytes, every size of the driver's buffer and every count of the      *)
(* semaphore.                                                              *)
(***************************************************************************)
EXTENDS RxTask, TLAPS

USE TaskAssumption

\* What release() leaves in the semaphore.
LEMMA ReleasedInRange == \A n \in 0 .. SemMax : Released(n) \in 0 .. SemMax
BY DEF Released, Least

-----------------------------------------------------------------------------
(* Types *)

\* Only begin() gets past the detached callback, so when a task is started the
\* number of the call, its name, is not None.
Begun == /\ op = "begin" => starts # 0
         /\ pc \in {"reset", "silence", "attach", "attachSigio", "start"}
              => op = "begin"

TypeInv == TypeOK /\ Begun

LEMMA TypeInit == Init => TypeInv
<1>. SUFFICES ASSUME Init PROVE TypeInv
  OBVIOUS
<1>. USE DEF Init, None
<1>1. {attached, running, run, hint, callback, sigio, edge} \subseteq BOOLEAN
  OBVIOUS
<1>2. still \in 0 .. QuietPasses /\ tokens \in 0 .. SemMax
  OBVIOUS
<1>3. /\ handle \in 0 .. MaxStarts /\ state \in 0 .. MaxStarts
      /\ starts \in 0 .. MaxStarts
      /\ uart \in 0 .. UartRoom /\ bytes \in 0 .. MaxBytes
  OBVIOUS
<1>. QED BY <1>1, <1>2, <1>3 DEF TypeInv, TypeOK, Begun

\* A signal changes the hint and the semaphore, and both stay in range.
LEMMA SignalTyped ==
  ASSUME TypeOK, Signal \/ NoSignal
  PROVE  hint' \in BOOLEAN /\ tokens' \in 0 .. SemMax
BY ReleasedInRange DEF TypeOK, Signal, NoSignal

LEMMA TypeLine == TypeInv /\ (Arrive \/ Callback \/ OwnerPoll) => TypeInv'
<1>. SUFFICES ASSUME TypeInv, Arrive \/ Callback \/ OwnerPoll PROVE TypeInv'
  OBVIOUS
<1>. USE DEF TypeInv, TypeOK, Begun, owner, event, driver, line
<1>1. CASE Arrive
  BY <1>1 DEF Arrive
<1>2. CASE Callback
  BY <1>2, SignalTyped DEF Callback
<1>3. CASE OwnerPoll
  BY <1>3 DEF OwnerPoll
<1>. QED BY <1>1, <1>2, <1>3

LEMMA TypeTask == TypeInv /\ Task => TypeInv'
<1>. SUFFICES ASSUME TypeInv, Task PROVE TypeInv'
  OBVIOUS
<1>. USE DEF TypeInv, TypeOK, Begun, owner, driver, ThreadStep
<1>1. CASE TaskMain
  BY <1>1 DEF TaskMain
<1>2. CASE TaskTest
  BY <1>2 DEF TaskTest
<1>3. CASE TaskWait
  BY <1>3 DEF TaskWait
<1>4. CASE TaskWoken
  BY <1>4 DEF TaskWoken
<1>5. CASE TaskClear
  BY <1>5 DEF TaskClear
<1>6. CASE TaskTake
  BY <1>6 DEF TaskTake
<1>7. CASE TaskDone
  BY <1>7 DEF TaskDone
<1>. QED BY <1>1, <1>2, <1>3, <1>4, <1>5, <1>6, <1>7 DEF Task

LEMMA TypeCalls == TypeInv /\ (BeginCall \/ DestroyCall) => TypeInv'
<1>. SUFFICES ASSUME TypeInv, BeginCall \/ DestroyCall PROVE TypeInv'
  OBVIOUS
<1>. USE DEF TypeInv, TypeOK, Begun, event, driver, line, Call
<1>1. Stop \in {"stop", "detach"}
  BY DEF Stop
<1>2. CASE BeginCall
  BY <1>1, <1>2 DEF BeginCall
<1>3. CASE DestroyCall
  BY <1>1, <1>3 DEF DestroyCall
<1>. QED BY <1>2, <1>3

LEMMA TypeOwner == TypeInv /\ Owner => TypeInv'
<1>. SUFFICES ASSUME TypeInv, Owner PROVE TypeInv'
  OBVIOUS
<1>. USE DEF TypeInv, TypeOK, Begun, event, driver, line, OwnerStep
<1>1. CASE StopFlag
  <2>1. {attached, running, run, hint, callback, sigio, edge}' \subseteq BOOLEAN
    BY <1>1 DEF StopFlag
  <2>. QED BY <1>1, <2>1 DEF StopFlag
<1>2. CASE StopRelease
  BY <1>2, ReleasedInRange DEF StopRelease
<1>3. CASE StopJoin
  BY <1>3 DEF StopJoin
<1>4. CASE StopDelete
  BY <1>4 DEF StopDelete
<1>5. CASE StopNull
  <2>1. {attached, running, run, hint, callback, sigio, edge}' \subseteq BOOLEAN
    BY <1>5 DEF StopNull
  <2>. QED BY <1>5, <2>1 DEF StopNull, None
<1>6. CASE DetachCallback
  BY <1>6 DEF DetachCallback
<1>7. CASE DetachSigio
  BY <1>7 DEF DetachSigio, AfterDetach
<1>8. CASE DetachSkip
  BY <1>8 DEF DetachSkip, AfterDetach
<1>9. CASE Reset
  <2>1. {attached, running, run, hint, callback, sigio, edge}' \subseteq BOOLEAN
    BY <1>9 DEF Reset
  <2>. QED BY <2>1, <1>9 DEF Reset
<1>10. CASE SilenceByte
  BY <1>10 DEF SilenceByte
<1>11. CASE SilencePass
  BY <1>11 DEF SilencePass
<1>12. CASE SilenceOver
  BY <1>12 DEF SilenceOver
<1>13. CASE AttachRefused
  BY <1>13 DEF AttachRefused
<1>14. CASE AttachCallback
  <2>1. {attached, running, run, hint, callback, sigio, edge}' \subseteq BOOLEAN
    BY <1>14 DEF AttachCallback
  <2>. QED BY <1>14, <2>1 DEF AttachCallback
<1>15. CASE AttachSigio
  BY <1>15, SignalTyped DEF AttachSigio
<1>16. CASE StartSkip
  BY <1>16 DEF StartSkip
<1>17. CASE StartPublish
  <2>1. {attached, running, run, hint, callback, sigio, edge}' \subseteq BOOLEAN
    BY <1>17 DEF StartPublish
  <2>. QED BY <2>1, <1>17 DEF StartPublish, None
<1>18. CASE Launch
  BY <1>18 DEF Launch, None
<1>19. CASE LaunchFails
  BY <1>19 DEF LaunchFails
<1>20. CASE FailNull
  BY <1>20 DEF FailNull, None
<1>21. CASE FailDelete
  BY <1>21 DEF FailDelete, None
<1>22. CASE Started
  BY <1>22 DEF Started
<1>23. CASE Replay
  BY <1>23, ReleasedInRange DEF Replay
<1>. QED
  BY <1>1, <1>2, <1>3, <1>4, <1>5, <1>6, <1>7, <1>8, <1>9, <1>10, <1>11, <1>12,
     <1>13, <1>14, <1>15, <1>16, <1>17, <1>18, <1>19, <1>20, <1>21, <1>22, <1>23 DEF Owner

LEMMA TypeStep == TypeInv /\ [Next]_vars => TypeInv'
<1>1. CASE UNCHANGED vars
  BY <1>1 DEF vars, owner, event, driver, line, TypeInv, TypeOK, Begun
<1>. QED BY <1>1, TypeCalls, TypeOwner, TypeLine, TypeTask DEF Next

\* The variables keep their ranges; the number of a task is the number of the call of
\* begin() that started it, however many calls there are.
THEOREM TaskTypeCorrect == Spec => []TypeOK
BY TypeInit, TypeStep, PTL DEF Spec, TypeInv

-----------------------------------------------------------------------------
(* The life cycle *)

\* No task, and nothing that would be taken for one.
Off == handle = None /\ live = {} /\ ~running /\ task = "none"

\* One task: it is published, its thread has begun and was not told to end.
On == handle # None /\ live = {handle} /\ run /\ task \notin {"none", "exited"}

\* What is published, allocated, believed to run and really running, at each point of
\* the owner, and which task the backend holds in its hands (state).
Lifecycle ==
  /\ pc \in {"detach", "detachSigio", "reset", "silence", "attach", "attachSigio",
            "start", "gone"} => Off /\ state = None
  /\ pc = "idle" => state = None /\ (Off \/ (running /\ On))
  /\ pc \in {"stop", "replay"} => running /\ On
  /\ pc = "replay" => state = None
  /\ pc = "started" => ~running /\ On /\ state = None
  /\ pc \in {"release", "join", "delete"}
       => running /\ handle # None /\ live = {handle} /\ state = handle /\ ~run
          /\ task # "none"
  /\ pc = "delete" => task = "exited"
  /\ pc = "null" => running /\ handle # None /\ live = {} /\ task = "none"
  /\ pc \in {"launch", "failed"}
       => ~running /\ handle # None /\ live = {handle} /\ state = handle
          /\ task = "none"
  /\ pc = "launch" => run
  /\ pc = "failedDelete"
       => ~running /\ handle = None /\ live = {state} /\ task = "none"

\* The two halves of the callback, which are installed and removed one by one, agree
\* with what the driver believes, and with nothing installed nothing can call it.
Attachment ==
  /\ pc \in {"reset", "silence", "attach", "gone"} => ~attached
  /\ pc \notin {"detachSigio", "attachSigio"} => (sigio <=> attached) /\ (callback <=> attached)
  /\ pc = "detachSigio" => ~callback
  /\ pc = "attachSigio" => callback /\ ~sigio

IInv == TypeInv /\ Lifecycle /\ Attachment /\ NoWildSignal

LEMMA LifeInit == Init => Lifecycle /\ Attachment /\ NoWildSignal
BY DEF Init, Lifecycle, Off, On, Attachment, NoWildSignal, None

\* The owner follows the life cycle.
LEMMA LifeOwner == IInv /\ Owner => Lifecycle'
<1>. SUFFICES ASSUME IInv, Owner PROVE Lifecycle'
  OBVIOUS
<1>. USE DEF IInv, TypeInv, TypeOK, Begun, Lifecycle, Off, On, None, event, driver, line,
             OwnerStep
<1>1. CASE StopFlag
  BY <1>1 DEF StopFlag
<1>2. CASE StopRelease
  BY <1>2 DEF StopRelease
<1>3. CASE StopJoin
  BY <1>3 DEF StopJoin
<1>4. CASE StopDelete
  BY <1>4 DEF StopDelete
<1>5. CASE StopNull
  BY <1>5 DEF StopNull
<1>6. CASE DetachCallback
  BY <1>6 DEF DetachCallback
<1>7. CASE DetachSigio
  BY <1>7 DEF DetachSigio, AfterDetach
<1>8. CASE DetachSkip
  BY <1>8 DEF DetachSkip, AfterDetach
<1>9. CASE Reset
  BY <1>9 DEF Reset
<1>10. CASE SilenceByte
  BY <1>10 DEF SilenceByte
<1>11. CASE SilencePass
  BY <1>11 DEF SilencePass
<1>12. CASE SilenceOver
  BY <1>12 DEF SilenceOver
<1>13. CASE AttachRefused
  BY <1>13 DEF AttachRefused
<1>14. CASE AttachCallback
  BY <1>14 DEF AttachCallback
<1>15. CASE AttachSigio
  BY <1>15 DEF AttachSigio, Signal, NoSignal, Freed
<1>16. CASE StartSkip
  BY <1>16 DEF StartSkip
<1>17. CASE StartPublish
  BY <1>17 DEF StartPublish
<1>18. CASE Launch
  BY <1>18 DEF Launch
<1>19. CASE LaunchFails
  BY <1>19 DEF LaunchFails
<1>20. CASE FailNull
  BY <1>20 DEF FailNull
<1>21. CASE FailDelete
  BY <1>21 DEF FailDelete
<1>22. CASE Started
  BY <1>22 DEF Started
<1>23. CASE Replay
  BY <1>23 DEF Replay
<1>. QED
  BY <1>1, <1>2, <1>3, <1>4, <1>5, <1>6, <1>7, <1>8, <1>9, <1>10, <1>11, <1>12,
     <1>13, <1>14, <1>15, <1>16, <1>17, <1>18, <1>19, <1>20, <1>21, <1>22, <1>23 DEF Owner

\* A thread of a task runs while its task is allocated, and ends only when it is told to.
LEMMA LifeTask == IInv /\ Task => Lifecycle'
<1>. SUFFICES ASSUME IInv, Task PROVE Lifecycle'
  OBVIOUS
<1>. USE DEF IInv, TypeInv, TypeOK, Lifecycle, Off, On, owner, driver, ThreadStep
<1>1. CASE TaskMain
  BY <1>1 DEF TaskMain
<1>2. CASE TaskTest
  BY <1>2 DEF TaskTest
<1>3. CASE TaskWait
  BY <1>3 DEF TaskWait
<1>4. CASE TaskWoken
  BY <1>4 DEF TaskWoken
<1>5. CASE TaskClear
  BY <1>5 DEF TaskClear
<1>6. CASE TaskTake
  BY <1>6 DEF TaskTake
<1>7. CASE TaskDone
  BY <1>7 DEF TaskDone
<1>. QED BY <1>1, <1>2, <1>3, <1>4, <1>5, <1>6, <1>7 DEF Task

\* A call stops the task if there is one, and goes on to the callback otherwise.
LEMMA LifeCalls == IInv /\ (BeginCall \/ DestroyCall) => Lifecycle'
<1>. SUFFICES ASSUME IInv, BeginCall \/ DestroyCall PROVE Lifecycle'
  OBVIOUS
<1>1. /\ pc = "idle" /\ pc' = Stop
      /\ UNCHANGED <<running, state, handle, live, run, task>>
  BY DEF BeginCall, DestroyCall, Call, event
<1>2. CASE Off
  <2>1. pc' = "detach"
    BY <1>1, <1>2 DEF Off, Stop
  <2>. QED BY <1>1, <1>2, <2>1 DEF IInv, Lifecycle, Off
<1>3. CASE running /\ On
  <2>1. pc' = "stop"
    BY <1>1, <1>3 DEF On, Stop
  <2>. QED BY <1>1, <1>3, <2>1 DEF Lifecycle, On
<1>. QED BY <1>1, <1>2, <1>3 DEF IInv, Lifecycle

LEMMA AttachmentOwner == IInv /\ Owner => Attachment'
<1>. SUFFICES ASSUME IInv, Owner PROVE Attachment'
  OBVIOUS
<1>. USE DEF IInv, Attachment, event, driver, line, OwnerStep
<1>1. CASE StopFlag
  BY <1>1 DEF StopFlag
<1>2. CASE StopRelease
  BY <1>2 DEF StopRelease
<1>3. CASE StopJoin
  BY <1>3 DEF StopJoin
<1>4. CASE StopDelete
  BY <1>4 DEF StopDelete
<1>5. CASE StopNull
  BY <1>5 DEF StopNull
<1>6. CASE DetachCallback
  BY <1>6 DEF DetachCallback
<1>7. CASE DetachSigio
  BY <1>7 DEF DetachSigio, AfterDetach
<1>8. CASE DetachSkip
  BY <1>8 DEF DetachSkip, AfterDetach
<1>9. CASE Reset
  BY <1>9 DEF Reset
<1>10. CASE SilenceByte
  BY <1>10 DEF SilenceByte
<1>11. CASE SilencePass
  BY <1>11 DEF SilencePass
<1>12. CASE SilenceOver
  BY <1>12 DEF SilenceOver
<1>13. CASE AttachRefused
  BY <1>13 DEF AttachRefused
<1>14. CASE AttachCallback
  BY <1>14 DEF AttachCallback
<1>15. CASE AttachSigio
  BY <1>15 DEF AttachSigio
<1>16. CASE StartSkip
  BY <1>16 DEF StartSkip
<1>17. CASE StartPublish
  BY <1>17 DEF StartPublish
<1>18. CASE Launch
  BY <1>18 DEF Launch
<1>19. CASE LaunchFails
  BY <1>19 DEF LaunchFails
<1>20. CASE FailNull
  BY <1>20 DEF FailNull
<1>21. CASE FailDelete
  BY <1>21 DEF FailDelete
<1>22. CASE Started
  BY <1>22 DEF Started
<1>23. CASE Replay
  BY <1>23 DEF Replay
<1>. QED
  BY <1>1, <1>2, <1>3, <1>4, <1>5, <1>6, <1>7, <1>8, <1>9, <1>10, <1>11, <1>12,
     <1>13, <1>14, <1>15, <1>16, <1>17, <1>18, <1>19, <1>20, <1>21, <1>22, <1>23 DEF Owner

LEMMA AttachmentCalls == IInv /\ (BeginCall \/ DestroyCall) => Attachment'
BY DEF BeginCall, DestroyCall, Call, Stop, IInv, Attachment, event, driver, line

\* Whenever a signal can be made, what it reaches is allocated, but for the point between
\* delete and handle = 0.
LEMMA SignalIsSafe ==
  ASSUME IInv, (sigio /\ callback) \/ pc = "attachSigio"
  PROVE  Freed => pc = "null"
BY DEF IInv, TypeInv, TypeOK, Lifecycle, Off, On, Attachment, Freed

LEMMA WildStep == IInv /\ [Next]_vars => NoWildSignal'
<1>. SUFFICES ASSUME IInv, [Next]_vars PROVE NoWildSignal'
  OBVIOUS
<1>. USE DEF IInv, NoWildSignal
<1>1. CASE Callback
  BY <1>1, SignalIsSafe DEF Callback, Signal, NoSignal
<1>2. CASE AttachSigio
  BY <1>2, SignalIsSafe DEF AttachSigio, Signal, NoSignal, OwnerStep
<1>3. CASE UNCHANGED wild
  BY <1>3
<1>4. Owner => AttachSigio \/ UNCHANGED wild
  BY DEF Owner, StopFlag, StopRelease, StopJoin, StopDelete, StopNull, DetachCallback,
         DetachSigio, DetachSkip, Reset, SilenceByte, SilencePass, SilenceOver,
         AttachRefused, AttachCallback, StartSkip, StartPublish, Launch, LaunchFails,
         FailNull, FailDelete, Started, Replay
<1>5. BeginCall \/ DestroyCall \/ OwnerPoll \/ Task \/ Arrive => UNCHANGED wild
  BY DEF BeginCall, DestroyCall, Call, OwnerPoll, Arrive, Task, ThreadStep, TaskMain,
         TaskTest, TaskWait, TaskWoken, TaskClear, TaskTake, TaskDone
<1>. QED BY <1>1, <1>2, <1>3, <1>4, <1>5 DEF Next, vars

LEMMA IInvStep == IInv /\ [Next]_vars => IInv'
<1>. SUFFICES ASSUME IInv, [Next]_vars PROVE IInv'
  OBVIOUS
<1>1. TypeInv'
  BY TypeStep DEF IInv
<1>2. NoWildSignal'
  BY WildStep
<1>3. CASE BeginCall \/ DestroyCall
  BY <1>1, <1>2, <1>3, LifeCalls, AttachmentCalls DEF IInv
<1>4. CASE Owner
  BY <1>1, <1>2, <1>4, LifeOwner, AttachmentOwner DEF IInv
<1>5. CASE Task
  <2>1. Attachment'
    BY <1>5 DEF IInv, Attachment, Task, ThreadStep, TaskMain, TaskTest, TaskWait,
                TaskWoken, TaskClear, TaskTake, TaskDone, owner, driver
  <2>. QED BY <1>1, <1>2, <1>5, <2>1, LifeTask DEF IInv
<1>6. CASE OwnerPoll \/ Arrive \/ Callback \/ UNCHANGED vars
  <2>1. UNCHANGED <<pc, attached, running, state, handle, live, run, task, driver>>
    BY <1>6 DEF OwnerPoll, Arrive, Callback, vars, owner, event
  <2>2. Lifecycle' /\ Attachment'
    BY <2>1 DEF IInv, Lifecycle, Off, On, Attachment, driver
  <2>. QED BY <1>1, <1>2, <2>2 DEF IInv
<1>. QED BY <1>3, <1>4, <1>5, <1>6 DEF Next

LEMMA TaskSafe == Spec => []IInv
BY TypeInit, LifeInit, IInvStep, PTL DEF Spec, IInv

-----------------------------------------------------------------------------
(* The three properties *)

\* A failed start leaves nothing behind, a stop frees everything, and between two calls a
\* task exists exactly if the driver believes that one runs (ModbusRTUPlatform.h:203-206).
THEOREM TaskNoLeak == Spec => []NoLeak
<1>1. IInv => NoLeak
  BY DEF IInv, TypeInv, TypeOK, Lifecycle, Off, On, NoLeak, Idle, None
<1>. QED BY <1>1, TaskSafe, PTL

\* No freed task is signalled and no driver that is gone is entered, whenever the callback
\* comes; the platform has to exclude it between delete and handle = 0 only
\* (ModbusRTUPlatform.h:226-228).
THEOREM TaskNoWildSignal == Spec => []NoWildSignal
BY TaskSafe, PTL DEF IInv

\* When begin() resets the ring and discards bytes, and when a polling owner ingests, no
\* thread of a task is left (cpp:200-227, 949 and 1195).
THEOREM TaskOneProducer == Spec => []OneProducer
<1>1. IInv => OneProducer
  BY DEF IInv, Lifecycle, Off, On, OneProducer
<1>. QED BY <1>1, TaskSafe, PTL

-----------------------------------------------------------------------------
(* No edge is lost *)

\* The thread will look at the UART before it waits again.
Busy == task \in {"woken", "clear", "poll"}

\* What Ingested rests on: while the task runs between two calls, a byte that can be read
\* has an edge still to be reported, a wake in the semaphore, or the thread at work
\* ("edge-only input cannot wait for another byte", cpp:363-366).
NoLostEdge == pc = "idle" /\ running /\ uart > 0 => edge \/ tokens > 0 \/ Busy

\* Until the replay the hint may stand for a wake: an edge reported before the handle was
\* published could not release the semaphore, and publishing empties it.
Watched ==
  /\ pc \in {"launch", "started", "replay"} \/ (pc = "idle" /\ running) => attached
  /\ pc = "start" /\ attached /\ uart > 0 => edge \/ hint
  /\ pc \in {"launch", "started", "replay"} /\ uart > 0
       => edge \/ hint \/ tokens > 0 \/ Busy
  /\ NoLostEdge

WatchInv == IInv /\ Watched

LEMMA WatchOwner == WatchInv /\ Owner => Watched'
<1>. SUFFICES ASSUME WatchInv, Owner PROVE Watched'
  OBVIOUS
<1>. USE DEF WatchInv, Watched, NoLostEdge, Busy, event, driver, line, OwnerStep
<1>1. CASE AttachSigio
  BY <1>1 DEF AttachSigio, Signal, NoSignal, IInv, TypeInv, TypeOK
<1>2. CASE StartPublish
  BY <1>2 DEF StartPublish
<1>3. CASE Launch
  BY <1>3 DEF Launch, IInv, Lifecycle
<1>4. CASE Started
  BY <1>4 DEF Started
<1>5. CASE Replay
  <2>1. hint => tokens' > 0
    BY <1>5 DEF Replay, Released, Least, IInv, TypeInv, TypeOK, Lifecycle, On
  <2>2. ~hint => tokens' = tokens
    BY <1>5 DEF Replay
  <2>. QED BY <1>5, <2>1, <2>2 DEF Replay
<1>6. CASE StartSkip
  BY <1>6 DEF StartSkip, IInv, Lifecycle, Off
<1>7. CASE FailDelete
  BY <1>7 DEF FailDelete, IInv, Lifecycle
<1>8. CASE AttachRefused
  BY <1>8 DEF AttachRefused
<1>9. CASE SilenceByte \/ SilencePass
  BY <1>9 DEF SilenceByte, SilencePass
<1>10. CASE \/ StopFlag \/ StopRelease \/ StopJoin \/ StopDelete \/ StopNull
            \/ DetachCallback \/ DetachSigio \/ DetachSkip \/ Reset \/ SilenceOver
            \/ AttachCallback \/ LaunchFails \/ FailNull
  <2>1. pc' \in {"release", "join", "delete", "null", "detach", "detachSigio", "reset",
                "gone", "silence", "attach", "attachSigio", "failed", "failedDelete"}
    BY <1>10 DEF StopFlag, StopRelease, StopJoin, StopDelete, StopNull, DetachCallback,
                 DetachSigio, DetachSkip, Reset, SilenceOver, AttachCallback,
                 LaunchFails, FailNull, AfterDetach
  <2>. QED BY <2>1
<1>. QED BY <1>1, <1>2, <1>3, <1>4, <1>5, <1>6, <1>7, <1>8, <1>9, <1>10 DEF Owner

\* The thread clears the hint before it polls, and stops polling only when there is
\* nothing to read.
LEMMA WatchTask == WatchInv /\ Task => Watched'
<1>. SUFFICES ASSUME WatchInv, Task PROVE Watched'
  OBVIOUS
<1>. USE DEF WatchInv, Watched, NoLostEdge, Busy, owner, driver, ThreadStep, IInv, TypeInv,
             TypeOK, Lifecycle, Off, On
<1>1. CASE TaskMain
  BY <1>1 DEF TaskMain
<1>2. CASE TaskTest
  BY <1>2 DEF TaskTest
<1>3. CASE TaskWait
  BY <1>3 DEF TaskWait
<1>4. CASE TaskWoken
  BY <1>4 DEF TaskWoken
<1>5. CASE TaskClear
  BY <1>5 DEF TaskClear
<1>6. CASE TaskTake
  BY <1>6 DEF TaskTake
<1>7. CASE TaskDone
  BY <1>7 DEF TaskDone
<1>. QED BY <1>1, <1>2, <1>3, <1>4, <1>5, <1>6, <1>7 DEF Task

\* The first byte of a run is an edge, and a reported edge is a hint, and a wake once the
\* handle is published.
LEMMA WatchLine == WatchInv /\ (Arrive \/ Callback \/ OwnerPoll) => Watched'
<1>. SUFFICES ASSUME WatchInv, Arrive \/ Callback \/ OwnerPoll PROVE Watched'
  OBVIOUS
<1>. USE DEF WatchInv, Watched, NoLostEdge, Busy, owner, event, driver
<1>1. CASE Arrive
  BY <1>1 DEF Arrive, IInv, TypeInv, TypeOK
<1>2. CASE Callback
  <2>1. CASE sigio /\ callback
    <3>1. hint' /\ (handle \in live => tokens' > 0)
      BY <1>2, <2>1 DEF Callback, Signal, Released, Least, IInv, TypeInv, TypeOK
    <3>2. pc = "idle" /\ running => handle \in live
      BY DEF IInv, Lifecycle, Off, On
    <3>. QED BY <1>2, <3>1, <3>2 DEF Callback
  <2>2. CASE ~(sigio /\ callback)
    <3>1. pc \notin {"start", "launch", "started", "replay"} \/ ~attached
      BY <2>2 DEF IInv, Attachment
    <3>2. ~(pc = "idle" /\ running)
      BY <2>2 DEF IInv, Attachment
    <3>. QED BY <1>2, <3>1, <3>2 DEF Callback
  <2>. QED BY <2>1, <2>2
<1>3. CASE OwnerPoll
  BY <1>3 DEF OwnerPoll
<1>. QED BY <1>1, <1>2, <1>3

LEMMA WatchStep == WatchInv /\ [Next]_vars => WatchInv'
<1>. SUFFICES ASSUME WatchInv, [Next]_vars PROVE Watched'
  BY IInvStep DEF WatchInv
<1>1. CASE BeginCall \/ DestroyCall
  BY <1>1 DEF BeginCall, DestroyCall, Call, Stop, Watched, NoLostEdge
<1>2. CASE UNCHANGED vars
  BY <1>2 DEF vars, owner, event, driver, line, WatchInv, Watched, NoLostEdge, Busy
<1>. QED BY <1>1, <1>2, WatchOwner, WatchTask, WatchLine DEF Next

\* No edge is lost: between two calls the running task has a reason to look at every byte
\* that can be read, however edges, callbacks, starts and replays interleave.
THEOREM TaskNoLostEdge == Spec => []NoLostEdge
<1>1. Init => WatchInv
  BY TypeInit, LifeInit DEF Init, WatchInv, IInv, Watched, NoLostEdge
<1>. QED BY <1>1, WatchStep, PTL DEF Spec, WatchInv, Watched
=============================================================================
