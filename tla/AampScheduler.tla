---------------------------- MODULE AampScheduler ----------------------------
(***************************************************************************)
(* The player's asynchronous command queue (AampScheduler.cpp).  Three     *)
(* kinds of thread meet in it:                                             *)
(*   - the worker thread, which runs ExecuteAsyncTask;                     *)
(*   - the application thread, which owns the PlayerInstanceAAMP and calls *)
(*     Stop, detach and the destructor, all of which suspend the queue;    *)
(*   - the Callers (application, downloader and sink threads), which       *)
(*     schedule and remove tasks and change the player state.              *)
(* A region protected by mQMutex alone is one atomic step.  mExMutex is    *)
(* explicit (exOwner), as it is held across steps and guarded by a         *)
(* different lock than the queue.  mQCond.notify_one wakes the worker only *)
(* if it is waiting at that moment.                                        *)
(***************************************************************************)
EXTENDS Naturals, Sequences, SequencesExt

CONSTANTS
  Callers,      (* threads that call ScheduleTask and RemoveTask           *)
  MaxTaskId,    (* AAMP_SCHEDULER_ID_MAX_VALUE                             *)
  MaxScheduled  (* bound: tasks accepted over a behaviour                  *)

ASSUME SchedulerAssumption ==
  /\ Callers # {}
  /\ MaxTaskId \in Nat /\ MaxTaskId > 1
  /\ MaxScheduled \in Nat

VARIABLES
  mTaskQueue,         (* queued tasks, oldest first                        *)
  mSchedulerRunning,
  mNextTaskId,
  mCurrentTaskId,     (* the last task the worker dequeued, 0 before any   *)
  mLockOut,
  mState,             (* player state, reduced to what the queue tests     *)
  exOwner,            (* who holds mExMutex                                *)
  worker,             (* control state of ExecuteAsyncTask                 *)
  running,            (* the task being executed, or NoTask                *)
  app,                (* control state of the application thread           *)
  op,                 (* the suspending call the application is in         *)
  caller,             (* per caller: the task admitted but not yet queued  *)
  issued,             (* ghost: tickets handed out, one per queued task    *)
  newestRate,         (* ghost: ticket of the last SetRate accepted        *)
  lastRun,            (* ghost: ticket of the last executed task           *)
  removed             (* ghost: tickets erased from the queue unexecuted   *)

queueVars == <<mTaskQueue, mNextTaskId, mLockOut, issued, newestRate>>
appVars   == <<app, op, mSchedulerRunning>>
vars == <<mTaskQueue, mSchedulerRunning, mNextTaskId, mCurrentTaskId, mLockOut,
          mState, exOwner, worker, running, app, op, caller, issued, newestRate,
          lastRun, removed>>

AAMP_TASK_ID_INVALID == 0
AAMP_SCHEDULER_ID_DEFAULT == 1

Names  == {"SetRate", "Other"}
States == {"IDLE", "PLAYING", "ERROR", "RELEASED"}
Task   == [id : 0 .. MaxTaskId, name : Names, ticket : 0 .. MaxScheduled]
NoTask == [id |-> AAMP_TASK_ID_INVALID, name |-> "Other", ticket |-> 0]
None   == "none"

Dead(s) == s \in {"ERROR", "RELEASED"}

(* AampScheduler(): nothing is queued and no thread runs.                  *)
Init ==
  /\ mTaskQueue = <<>>
  /\ mSchedulerRunning = FALSE
  /\ mNextTaskId = AAMP_SCHEDULER_ID_DEFAULT
  /\ mCurrentTaskId = AAMP_TASK_ID_INVALID
  /\ mLockOut = FALSE
  /\ mState = "IDLE"
  /\ exOwner = None
  /\ worker = "notStarted"
  /\ running = NoTask
  /\ app = "new"
  /\ op = None
  /\ caller = [c \in Callers |-> None]
  /\ issued = 0
  /\ newestRate = 0
  /\ lastRun = 0
  /\ removed = {}

(* StartScheduler: called once, by the PlayerInstanceAAMP constructor.     *)
StartScheduler ==
  /\ app = "new"
  /\ app' = "idle"
  /\ mSchedulerRunning' = TRUE
  /\ worker' = "loop"
  /\ UNCHANGED <<queueVars, mCurrentTaskId, mState, exOwner, running, op,
                 caller, lastRun, removed>>

(* Mutant: the notification is forgotten.                                  *)
NotifyForgotten == worker

(* mQCond.notify_one(): only a worker that already waits is woken.         *)
NotifyWorker == IF worker = "waiting" THEN "loop" ELSE worker

------------------------------------------------------------------------------
(* Callers.  ScheduleTask tests mSchedulerRunning and the player state     *)
(* before it takes mQMutex, so admission and queueing are two steps.       *)

ScheduleTaskAdmit(c, name) ==
  /\ caller[c] = None
  /\ issued < MaxScheduled
  /\ mSchedulerRunning
  /\ ~Dead(mState)
  /\ caller' = [caller EXCEPT ![c] = name]
  /\ UNCHANGED <<queueVars, appVars, mCurrentTaskId, mState, exOwner, worker,
                 running, lastRun, removed>>

(* mNextTaskId++ and the wrap to AAMP_SCHEDULER_ID_DEFAULT.                *)
NextId(id) == IF id + 1 >= MaxTaskId THEN AAMP_SCHEDULER_ID_DEFAULT ELSE id + 1

IsSetRate(t) == t.name = "SetRate"

(* A new SetRate takes the place of the SetRate that is still queued.      *)
WithoutStale(q, name) ==
  IF name = "SetRate" THEN RemoveFirstMatch(q, IsSetRate) ELSE q

(* Mutant: push_front for push_back.                                       *)
EnqueuedInFront(q, name) ==
  <<[id |-> mNextTaskId, name |-> name, ticket |-> issued + 1]>>
    \o WithoutStale(q, name)

(* Mutant: the SetRate that is already queued is kept and the new one is   *)
(* dropped.                                                                *)
EnqueuedOldKept(q, name) ==
  IF WithoutStale(q, name) # q THEN q
  ELSE Append(q, [id |-> mNextTaskId, name |-> name, ticket |-> issued + 1])

(* The queue after push_back of a new task.                                *)
Enqueued(q, name) ==
  Append(WithoutStale(q, name),
         [id |-> mNextTaskId, name |-> name, ticket |-> issued + 1])

(* Mutant: ScheduleTask does not test mLockOut under mQMutex.              *)
AcceptsAlways == TRUE

(* The test made once mQMutex is held.                                     *)
Accepts == ~mLockOut

(* The rest of ScheduleTask, under mQMutex; a task met by the lock-out is  *)
(* skipped.                                                                *)
ScheduleTask(c) ==
  /\ caller[c] # None
  /\ issued < MaxScheduled
  /\ caller' = [caller EXCEPT ![c] = None]
  /\ IF ~Accepts
     THEN UNCHANGED <<queueVars, worker, removed>>
     ELSE /\ mTaskQueue' = Enqueued(mTaskQueue, caller[c])
          /\ removed' = removed \cup
               { t.ticket : t \in ToSet(mTaskQueue)
                                  \ ToSet(WithoutStale(mTaskQueue, caller[c])) }
          /\ mNextTaskId' = NextId(mNextTaskId)
          /\ issued' = issued + 1
          /\ newestRate' = IF caller[c] = "SetRate" THEN issued + 1 ELSE newestRate
          /\ worker' = NotifyWorker
          /\ UNCHANGED mLockOut
  /\ UNCHANGED <<appVars, mCurrentTaskId, mState, exOwner, running, lastRun>>

(* The queue without the first task of that id.                            *)
WithoutId(q, id) == RemoveFirstMatch(q, LAMBDA u : u.id = id)

(* RemoveTask: the task that is, or was last, executing is not touched.    *)
RemoveTask(id) ==
  /\ id # AAMP_TASK_ID_INVALID
  /\ mCurrentTaskId # id
  /\ mTaskQueue' = WithoutId(mTaskQueue, id)
  /\ mTaskQueue' # mTaskQueue
  /\ removed' = removed \cup
       { u.ticket : u \in ToSet(mTaskQueue) \ ToSet(mTaskQueue') }
  /\ UNCHANGED <<appVars, mNextTaskId, mLockOut, issued, newestRate,
                 mCurrentTaskId, mState, exOwner, worker, running, caller,
                 lastRun>>

SetState(s) ==
  /\ s # mState
  /\ mState' = s
  /\ UNCHANGED <<queueVars, appVars, mCurrentTaskId, exOwner, worker, running,
                 caller, lastRun, removed>>

------------------------------------------------------------------------------
(* ExecuteAsyncTask, on the worker thread.                                 *)

(* Top of the loop, with mQMutex held: leave, wait, or ask for mExMutex.   *)
WorkerLoop ==
  /\ worker = "loop"
  /\ worker' = IF ~mSchedulerRunning THEN "exited"
               ELSE IF mTaskQueue = <<>> THEN "waiting" ELSE "wantEx"
  /\ UNCHANGED <<queueVars, appVars, mCurrentTaskId, mState, exOwner, running,
                 caller, lastRun, removed>>

(* std::condition_variable::wait without a predicate may return at will.   *)
SpuriousWakeup ==
  /\ worker = "waiting"
  /\ worker' = "loop"
  /\ UNCHANGED <<queueVars, appVars, mCurrentTaskId, mState, exOwner, running,
                 caller, lastRun, removed>>

TakeExecutionLock ==
  /\ worker = "wantEx"
  /\ exOwner = None
  /\ exOwner' = "worker"
  /\ worker' = "haveEx"
  /\ UNCHANGED <<queueVars, appVars, mCurrentTaskId, mState, running, caller,
                 lastRun, removed>>

(* pop_front.                                                              *)
Popped(q) == Tail(q)

(* With mExMutex and mQMutex held: dequeue, test the player state, run.    *)
(* A task met in a dead state is dropped; so is mExMutex.                  *)
Dequeue ==
  /\ worker = "haveEx"
  /\ IF mTaskQueue = <<>>
     THEN /\ worker' = "loop"
          /\ exOwner' = None
          /\ UNCHANGED <<mTaskQueue, mCurrentTaskId, running, lastRun, removed>>
     ELSE /\ mTaskQueue' = Popped(mTaskQueue)
          /\ mCurrentTaskId' = Head(mTaskQueue).id
          /\ IF Dead(mState)
             THEN /\ worker' = "loop"
                  /\ exOwner' = None
                  /\ removed' = removed \cup {Head(mTaskQueue).ticket}
                  /\ UNCHANGED <<running, lastRun>>
             ELSE /\ worker' = "executing"
                  /\ running' = Head(mTaskQueue)
                  /\ lastRun' = Head(mTaskQueue).ticket
                  /\ UNCHANGED <<exOwner, removed>>
  /\ UNCHANGED <<appVars, mNextTaskId, mLockOut, issued, newestRate, mState,
                 caller>>

(* obj.mTask(obj.mData) returns; mExMutex is released at the end of scope. *)
FinishTask ==
  /\ worker = "executing"
  /\ worker' = "loop"
  /\ running' = NoTask
  /\ exOwner' = None
  /\ UNCHANGED <<queueVars, appVars, mCurrentTaskId, mState, caller, lastRun,
                 removed>>

------------------------------------------------------------------------------
(* The application thread.  "stop" is PlayerInstanceAAMP::Stop, "detach"   *)
(* leaves the queue as it is, "destroy" is the destructor, which suspends  *)
(* and clears before StopScheduler, and "stopScheduler" is StopScheduler   *)
(* called on a queue nobody suspended.                                     *)

AppVarsRest == <<mCurrentTaskId, mState, running, caller, lastRun>>

(* Entry of a suspending call: mExLock.lock() will block on mExMutex.      *)
AppCall(o) ==
  /\ app = "idle"
  /\ op' = o
  /\ app' = IF o = "stopScheduler" THEN "stopRunning" ELSE "lockEx"
  /\ UNCHANGED <<queueVars, AppVarsRest, mSchedulerRunning, exOwner, worker,
                 removed>>

SuspendLockEx ==
  /\ app = "lockEx"
  /\ exOwner = None
  /\ exOwner' = "app"
  /\ app' = "lockOut"
  /\ UNCHANGED <<queueVars, AppVarsRest, op, mSchedulerRunning, worker, removed>>

SuspendLockOut ==
  /\ app = "lockOut"
  /\ mLockOut' = TRUE
  /\ app' = IF op = "detach" THEN "resume" ELSE "suspended"
  /\ UNCHANGED <<mTaskQueue, mNextTaskId, issued, newestRate, AppVarsRest, op,
                 mSchedulerRunning, exOwner, worker, removed>>

RemoveAllTasks ==
  /\ app = "suspended"
  /\ removed' = removed \cup { t.ticket : t \in ToSet(mTaskQueue) }
  /\ mTaskQueue' = <<>>
  /\ app' = IF op = "destroy" THEN "stopRunning" ELSE "resume"
  /\ UNCHANGED <<mNextTaskId, mLockOut, issued, newestRate, AppVarsRest, op,
                 mSchedulerRunning, exOwner, worker>>

(* StopScheduler: clear mSchedulerRunning without mQMutex, then suspend    *)
(* unless the caller has done so.                                          *)
StopRunning ==
  /\ app = "stopRunning"
  /\ mSchedulerRunning' = FALSE
  /\ op' = "stopScheduler"
  /\ app' = IF mLockOut THEN "suspended" ELSE "lockEx"
  /\ UNCHANGED <<queueVars, AppVarsRest, exOwner, worker, removed>>

(* ResumeScheduler: mExMutex first, mLockOut afterwards.                   *)
ResumeUnlockEx ==
  /\ app = "resume"
  /\ exOwner' = None
  /\ app' = "resumeLockOut"
  /\ UNCHANGED <<queueVars, AppVarsRest, op, mSchedulerRunning, worker, removed>>

ResumeLockOut ==
  /\ app = "resumeLockOut"
  /\ mLockOut' = FALSE
  /\ app' = IF op = "stopScheduler" THEN "notify" ELSE "idle"
  /\ op' = IF op = "stopScheduler" THEN op ELSE None
  /\ UNCHANGED <<mTaskQueue, mNextTaskId, issued, newestRate, AppVarsRest,
                 mSchedulerRunning, exOwner, worker, removed>>

StopNotify ==
  /\ app = "notify"
  /\ app' = "join"
  /\ worker' = NotifyWorker
  /\ UNCHANGED <<queueVars, AppVarsRest, op, mSchedulerRunning, exOwner, removed>>

Join ==
  /\ app = "join"
  /\ worker = "exited"
  /\ app' = "gone"
  /\ UNCHANGED <<queueVars, AppVarsRest, op, mSchedulerRunning, exOwner, worker,
                 removed>>

------------------------------------------------------------------------------
WorkerStep == WorkerLoop \/ TakeExecutionLock \/ Dequeue \/ FinishTask

AppStep ==
  \/ SuspendLockEx \/ SuspendLockOut \/ RemoveAllTasks \/ StopRunning
  \/ ResumeUnlockEx \/ ResumeLockOut \/ StopNotify \/ Join

CallerStep ==
  \/ \E c \in Callers, n \in Names : ScheduleTaskAdmit(c, n)
  \/ \E c \in Callers : ScheduleTask(c)
  \/ \E i \in 1 .. MaxTaskId : RemoveTask(i)
  \/ \E s \in States : SetState(s)

Next ==
  \/ StartScheduler
  \/ WorkerStep
  \/ SpuriousWakeup
  \/ \E o \in {"stop", "detach", "destroy", "stopScheduler"} : AppCall(o)
  \/ AppStep
  \/ CallerStep

Spec == Init /\ [][Next]_vars

(* The worker keeps running, a task returns, and a suspending call that    *)
(* has been entered goes on.  mExMutex is not a fair lock, yet the         *)
(* application waits in it while the worker returns to it once per task:   *)
(* SF on the two lock steps says neither is passed over for ever.  Nothing *)
(* is assumed of callers, of when the application calls, or of spurious    *)
(* wake-ups.                                                               *)
Fairness ==
  /\ WF_vars(WorkerLoop) /\ WF_vars(Dequeue) /\ WF_vars(FinishTask)
  /\ SF_vars(TakeExecutionLock)
  /\ WF_vars(AppStep) /\ SF_vars(SuspendLockEx)

FairSpec == Spec /\ Fairness

------------------------------------------------------------------------------
(* Types; ids stay in the range the wrap of mNextTaskId promises.          *)
TypeOK ==
  /\ mTaskQueue \in Seq(Task)
  /\ mSchedulerRunning \in BOOLEAN
  /\ mNextTaskId \in 1 .. MaxTaskId
  /\ mCurrentTaskId \in 0 .. MaxTaskId
  /\ mLockOut \in BOOLEAN
  /\ mState \in States
  /\ exOwner \in {None, "worker", "app"}
  /\ worker \in {"notStarted", "loop", "waiting", "wantEx", "haveEx",
                 "executing", "exited"}
  /\ running \in Task
  /\ app \in {"new", "idle", "lockEx", "lockOut", "suspended", "stopRunning",
              "resume", "resumeLockOut", "notify", "join", "gone"}
  /\ op \in {None, "stop", "detach", "destroy", "stopScheduler"}
  /\ caller \in [Callers -> Names \cup {None}]
  /\ issued \in 0 .. MaxScheduled
  /\ newestRate \in 0 .. MaxScheduled
  /\ lastRun \in 0 .. MaxScheduled
  /\ removed \subseteq 0 .. MaxScheduled

(* The application holds the queue still: SuspendScheduler and             *)
(* RemoveAllTasks have returned and ResumeScheduler has not been entered.  *)
Quiescing ==
  \/ app = "stopRunning" /\ op = "destroy"
  \/ app = "resume" /\ op # "detach"

(* What Stop and the destructor rely on when they tear the stream down     *)
(* (main_aamp.cpp: "Ensure scheduler is suspended and all tasks if any to  *)
(* be cleaned"): after SuspendScheduler and RemoveAllTasks no task is      *)
(* executing, none is queued, and none can be queued by a caller that had  *)
(* already passed ScheduleTask's early tests.                              *)
StopIsQuiescent == Quiescing => running = NoTask /\ mTaskQueue = <<>>

(* Tasks run in the order in which they were queued, whatever ids they     *)
(* got and however often the queue was edited.                             *)
FirstInFirstRun ==
  /\ \A i, j \in 1 .. Len(mTaskQueue) :
       i < j => mTaskQueue[i].ticket < mTaskQueue[j].ticket
  /\ \A i \in 1 .. Len(mTaskQueue) : lastRun < mTaskQueue[i].ticket

(* Only the newest SetRate that was accepted waits, and it is not lost: it *)
(* waits, or has been executed or passed by a later task, or was taken out *)
(* by RemoveTask, by RemoveAllTasks or in a dead state.  A rate is never   *)
(* applied after a newer one was asked for, nor the newer one dropped in   *)
(* its favour.                                                             *)
LatestSetRateWins ==
  /\ \A i \in 1 .. Len(mTaskQueue) :
       IsSetRate(mTaskQueue[i]) => mTaskQueue[i].ticket = newestRate
  /\ \/ \E i \in 1 .. Len(mTaskQueue) : mTaskQueue[i].ticket = newestRate
     \/ newestRate <= lastRun
     \/ newestRate \in removed

(* A task taken out of the queue by RemoveTask, RemoveAllTasks or a newer  *)
(* SetRate is never executed: the worker does not hold a task "that cannot *)
(* be deleted by RemoveAllTasks()" (comment in ExecuteAsyncTask).          *)
RemovedNeverRuns == running # NoTask => running.ticket \notin removed

(* Every queued task leaves the queue (run, dropped or removed), even      *)
(* though notify_one may find no waiter and the task may be queued while   *)
(* the worker is on its way into mQCond.wait.                              *)
QueueDrains ==
  \A k \in 1 .. MaxScheduled :
    (\E i \in 1 .. Len(mTaskQueue) : mTaskQueue[i].ticket = k)
      ~> (app = "gone" \/ \A i \in 1 .. Len(mTaskQueue) : mTaskQueue[i].ticket # k)

(* Stop, detach, the destructor and StopScheduler return: the application  *)
(* gets mExMutex from a busy worker, and join finds a worker that has left *)
(* its loop although mSchedulerRunning is cleared without mQMutex.         *)
StopReturns == (app \notin {"new", "idle"}) ~> (app \in {"idle", "gone"})
=============================================================================
