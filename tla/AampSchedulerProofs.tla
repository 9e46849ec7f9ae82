------------------------ MODULE AampSchedulerProofs ------------------------
(***************************************************************************)
(* Proofs about AampScheduler, for any set of callers and any bounds.      *)
(***************************************************************************)
EXTENDS AampScheduler, Integers, SequenceTheorems, WellFoundedInduction,
        TLAPS

(* Sequences used as queues.                                               *)

(* A non-empty set of indices has a least one, so Min is well defined.     *)
LEMMA MinOfIndices ==
  ASSUME NEW I \in SUBSET Nat, I # {}
  PROVE  Min(I) \in I
<1> DEFINE R == {ss \in Nat \X Nat : ss[1] < ss[2]}
<1>1. IsWellFoundedOn(R, Nat)
  BY NatLessThanWellFounded, Zenon DEF OpToRel
<1> HIDE DEF R
<1>2. PICK x \in I : \A y \in I : ~ (<<y, x>> \in R)
  BY <1>1, WFMin
<1>3. \A y \in I : x =< y
  <2>1. \A y \in I : x \in Nat /\ y \in Nat /\ ~(y < x)
    BY <1>2 DEF R
  <2> QED BY <2>1
<1> QED BY <1>3 DEF Min

(* Erasing one element keeps the others in their order.                    *)
LEMMA RemoveAtProperties ==
  ASSUME NEW S, NEW s \in Seq(S), NEW k \in 1 .. Len(s)
  PROVE  /\ RemoveAt(s, k) \in Seq(S)
         /\ Len(RemoveAt(s, k)) = Len(s) - 1
         /\ \A i \in 1 .. Len(s) - 1 :
              RemoveAt(s, k)[i] = IF i < k THEN s[i] ELSE s[i + 1]
<1> DEFINE l == SubSeq(s, 1, k - 1)
           r == SubSeq(s, k + 1, Len(s))
<1>1. l \in Seq(S) /\ Len(l) = k - 1 /\ \A i \in 1 .. k - 1 : l[i] = s[i]
  OBVIOUS
<1>2. r \in Seq(S) /\ Len(r) = Len(s) - k /\ \A i \in 1 .. Len(s) - k : r[i] = s[k + i]
  OBVIOUS
<1>3. RemoveAt(s, k) = l \o r
  BY DEF RemoveAt
<1> HIDE DEF l, r
<1>4. l \o r \in Seq(S) /\ Len(l \o r) = Len(s) - 1
  <2>1. l \o r \in Seq(S) /\ Len(l \o r) = Len(l) + Len(r)
    BY <1>1, <1>2, ConcatProperties
  <2> QED BY <1>1, <1>2, <2>1, LenProperties
<1>5. ASSUME NEW i \in 1 .. Len(s) - 1
      PROVE  (l \o r)[i] = IF i < k THEN s[i] ELSE s[i + 1]
  <2>1. i >= k => i - (k - 1) \in 1 .. Len(s) - k /\ k + (i - (k - 1)) = i + 1
    OBVIOUS
  <2> QED BY <1>1, <1>2, <2>1
<1> QED BY <1>3, <1>4, <1>5

------------------------------------------------------------------------------
(* What erasing does to the queue: nothing, or it takes out one task.      *)
LEMMA WithoutStaleCases ==
  ASSUME NEW q \in Seq(Task), NEW name
  PROVE  \/ /\ WithoutStale(q, name) = q
            /\ name = "SetRate" => \A i \in 1 .. Len(q) : ~IsSetRate(q[i])
         \/ \E k \in 1 .. Len(q) : /\ WithoutStale(q, name) = RemoveAt(q, k)
                                   /\ IsSetRate(q[k])
<1>1. CASE name = "SetRate" /\ \E i \in 1 .. Len(q) : IsSetRate(q[i])
  <2> DEFINE I == {i \in 1 .. Len(q) : IsSetRate(q[i])}
  <2>1. I \in SUBSET Nat /\ I # {}
    BY <1>1
  <2>2. Min(I) \in I
    BY <2>1, MinOfIndices
  <2>3. WithoutStale(q, name) = RemoveAt(q, Min(I))
    BY <1>1, <2>1 DEF WithoutStale, RemoveFirstMatch, SelectInSeq
  <2> QED BY <2>2, <2>3
<1>2. CASE ~ (name = "SetRate" /\ \E i \in 1 .. Len(q) : IsSetRate(q[i]))
  BY <1>2 DEF WithoutStale, RemoveFirstMatch
<1> QED BY <1>1, <1>2

LEMMA RemoveTaskCases ==
  ASSUME NEW q \in Seq(Task), NEW id
  PROVE  \/ WithoutId(q, id) = q
         \/ \E k \in 1 .. Len(q) :
              WithoutId(q, id) = RemoveAt(q, k)
<1>1. CASE \E i \in 1 .. Len(q) : q[i].id = id
  <2> DEFINE I == {i \in 1 .. Len(q) : q[i].id = id}
  <2>1. I \in SUBSET Nat /\ I # {}
    BY <1>1
  <2>2. Min(I) \in I
    BY <2>1, MinOfIndices
  <2>3. WithoutId(q, id) = RemoveAt(q, Min(I))
    BY <1>1, <2>1 DEF WithoutId, RemoveFirstMatch, SelectInSeq
  <2> QED BY <2>2, <2>3
<1>2. CASE ~ \E i \in 1 .. Len(q) : q[i].id = id
  BY <1>2 DEF WithoutId, RemoveFirstMatch
<1> QED BY <1>1, <1>2

(* ToSet of a sequence, by its indices.                                    *)
LEMMA ToSetOfSeq ==
  ASSUME NEW S, NEW s \in Seq(S)
  PROVE  ToSet(s) = { s[i] : i \in 1 .. Len(s) }
  BY DEF ToSet

------------------------------------------------------------------------------
(* Who holds mExMutex and mLockOut, and what that excludes.                *)
AppHoldsEx == \/ app \in {"lockOut", "suspended", "resume"}
              \/ app = "stopRunning" /\ op = "destroy"

AppLockedOut == \/ app \in {"suspended", "resume", "resumeLockOut"}
                \/ app = "stopRunning" /\ op = "destroy"

LockInv ==
  /\ exOwner = "worker" <=> worker \in {"haveEx", "executing"}
  /\ exOwner = "app" <=> AppHoldsEx
  /\ app = "new" <=> worker = "notStarted"
  /\ mLockOut <=> AppLockedOut
  /\ running # NoTask => worker = "executing"
  /\ Quiescing => mTaskQueue = <<>>

(* Tickets grow along the queue; executed and erased ones are behind it.   *)
FifoInv ==
  /\ FirstInFirstRun
  /\ lastRun <= issued
  /\ running # NoTask => running.ticket = lastRun
  /\ \A i \in 1 .. Len(mTaskQueue) : mTaskQueue[i].ticket <= issued

------------------------------------------------------------------------------
LEMMA NewTask ==
  ASSUME TypeOK, issued < MaxScheduled, NEW n \in Names
  PROVE  [id |-> mNextTaskId, name |-> n, ticket |-> issued + 1] \in Task
  BY SchedulerAssumption DEF TypeOK, Task

LEMMA TypeInit == Init => TypeOK
<1> SUFFICES ASSUME Init PROVE TypeOK OBVIOUS
<1>1. mTaskQueue \in Seq(Task)
  BY EmptySeq DEF Init
<1>2. running \in Task
  BY SchedulerAssumption DEF Init, NoTask, Task, AAMP_TASK_ID_INVALID, Names
<1>3. caller \in [Callers -> Names \cup {None}] /\ removed \subseteq 0 .. MaxScheduled
  BY DEF Init
<1>4. mSchedulerRunning \in BOOLEAN /\ mLockOut \in BOOLEAN
  BY DEF Init
<1>5. mNextTaskId \in 1 .. MaxTaskId /\ mCurrentTaskId \in 0 .. MaxTaskId
  BY SchedulerAssumption DEF Init, AAMP_TASK_ID_INVALID, AAMP_SCHEDULER_ID_DEFAULT
<1>6. /\ issued \in 0 .. MaxScheduled /\ newestRate \in 0 .. MaxScheduled
      /\ lastRun \in 0 .. MaxScheduled
  BY SchedulerAssumption DEF Init
<1> QED
  BY <1>1, <1>2, <1>3, <1>4, <1>5, <1>6
  DEF Init, TypeOK, States

(* Type correctness is inductive on its own.                               *)
LEMMA TypeStep == TypeOK /\ [Next]_vars => TypeOK'
<1> SUFFICES ASSUME TypeOK, [Next]_vars PROVE TypeOK' OBVIOUS
<1> USE SchedulerAssumption
<1>1. CASE StartScheduler
  BY <1>1 DEF TypeOK, StartScheduler, queueVars
<1>2. CASE WorkerLoop
  BY <1>2 DEF TypeOK, WorkerLoop, queueVars, appVars
<1>3. CASE SpuriousWakeup
  BY <1>3 DEF TypeOK, SpuriousWakeup, queueVars, appVars
<1>4. CASE TakeExecutionLock
  BY <1>4 DEF TypeOK, TakeExecutionLock, queueVars, appVars
<1>5. CASE Dequeue
  <2>1. CASE mTaskQueue = <<>>
    BY <1>5, <2>1 DEF TypeOK, Dequeue, appVars
  <2>2. CASE mTaskQueue # <<>>
    <3>1. /\ Head(mTaskQueue) \in Task
          /\ Tail(mTaskQueue) \in Seq(Task)
      BY <2>2, HeadTailProperties DEF TypeOK
    <3>2. /\ Head(mTaskQueue).id \in 0 .. MaxTaskId
          /\ Head(mTaskQueue).ticket \in 0 .. MaxScheduled
      BY <3>1 DEF Task
    <3>3. mTaskQueue' \in Seq(Task) /\ mCurrentTaskId' \in 0 .. MaxTaskId
      BY <1>5, <2>2, <3>1, <3>2 DEF Dequeue, Popped
    <3>4. running' \in Task
      BY <1>5, <2>2, <3>1 DEF TypeOK, Dequeue
    <3>5. lastRun' \in 0 .. MaxScheduled /\ removed' \subseteq 0 .. MaxScheduled
      BY <1>5, <2>2, <3>2 DEF TypeOK, Dequeue
    <3>6. worker' \in {"loop", "executing"} /\ exOwner' \in {None, exOwner}
      BY <1>5, <2>2 DEF Dequeue
    <3>7. UNCHANGED <<mSchedulerRunning, mNextTaskId, mLockOut, mState, app, op,
                      caller, issued, newestRate>>
      BY <1>5 DEF Dequeue, appVars
    <3> HIDE <1>5, SchedulerAssumption
    <3> QED BY <3>3, <3>4, <3>5, <3>6, <3>7 DEF TypeOK, States
  <2> QED BY <2>1, <2>2
<1>6. CASE FinishTask
  <2>1. NoTask \in Task
    BY DEF NoTask, Task, AAMP_TASK_ID_INVALID, Names
  <2> QED BY <1>6, <2>1 DEF TypeOK, FinishTask, queueVars, appVars
<1>7. ASSUME NEW o \in {"stop", "detach", "destroy", "stopScheduler"}, AppCall(o)
      PROVE  TypeOK'
  BY <1>7 DEF TypeOK, AppCall, queueVars, AppVarsRest
<1>8. CASE SuspendLockEx
  BY <1>8 DEF TypeOK, SuspendLockEx, queueVars, AppVarsRest
<1>9. CASE SuspendLockOut
  BY <1>9 DEF TypeOK, SuspendLockOut, AppVarsRest
<1>10. CASE RemoveAllTasks
  <2>1. { t.ticket : t \in ToSet(mTaskQueue) } \subseteq 0 .. MaxScheduled
    <3>1. \A i \in 1 .. Len(mTaskQueue) : mTaskQueue[i] \in Task
      BY ElementOfSeq DEF TypeOK
    <3>2. \A u \in ToSet(mTaskQueue) : u \in Task
      BY <3>1, ToSetOfSeq DEF TypeOK
    <3> QED BY <3>2 DEF Task
  <2>2. <<>> \in Seq(Task)
    BY EmptySeq
  <2> QED BY <1>10, <2>1, <2>2 DEF TypeOK, RemoveAllTasks, AppVarsRest
<1>11. CASE StopRunning
  BY <1>11 DEF TypeOK, StopRunning, queueVars, AppVarsRest
<1>12. CASE ResumeUnlockEx
  BY <1>12 DEF TypeOK, ResumeUnlockEx, queueVars, AppVarsRest
<1>13. CASE ResumeLockOut
  BY <1>13 DEF TypeOK, ResumeLockOut, AppVarsRest
<1>14. CASE StopNotify
  BY <1>14 DEF TypeOK, StopNotify, NotifyWorker, queueVars, AppVarsRest
<1>15. CASE Join
  BY <1>15 DEF TypeOK, Join, queueVars, AppVarsRest
<1>16. ASSUME NEW c \in Callers, NEW n \in Names, ScheduleTaskAdmit(c, n)
       PROVE  TypeOK'
  BY <1>16 DEF TypeOK, ScheduleTaskAdmit, queueVars, appVars
<1>17. ASSUME NEW c \in Callers, ScheduleTask(c)
       PROVE  TypeOK'
  <2>1. CASE ~Accepts
    <3>1. /\ caller' = [caller EXCEPT ![c] = None]
          /\ UNCHANGED <<queueVars, worker, removed, appVars, mCurrentTaskId,
                         mState, exOwner, running, lastRun>>
      BY <1>17, <2>1 DEF ScheduleTask
    <3>2. caller' \in [Callers -> Names \cup {None}]
      BY <3>1 DEF TypeOK
    <3> QED BY <3>1, <3>2 DEF TypeOK, queueVars, appVars
  <2>2. CASE Accepts
    <3> DEFINE q == WithoutStale(mTaskQueue, caller[c])
               t == [id |-> mNextTaskId, name |-> caller[c], ticket |-> issued + 1]
    <3>1. q \in Seq(Task)
      BY WithoutStaleCases, RemoveAtProperties DEF TypeOK
    <3>2. caller[c] \in Names
      BY <1>17 DEF TypeOK, ScheduleTask
    <3>3. t \in Task
      BY <1>17, <3>2, NewTask DEF ScheduleTask
    <3>4. Append(q, t) \in Seq(Task)
      <4> HIDE DEF q, t
      <4> QED BY <3>1, <3>3, AppendProperties
    <3>5. mTaskQueue' \in Seq(Task)
      BY <1>17, <2>2, <3>4 DEF ScheduleTask, Enqueued
    <3>6. { u.ticket : u \in ToSet(mTaskQueue) \ ToSet(q) } \subseteq 0 .. MaxScheduled
      <4>1. \A i \in 1 .. Len(mTaskQueue) : mTaskQueue[i] \in Task
        BY ElementOfSeq DEF TypeOK
      <4>2. \A u \in ToSet(mTaskQueue) : u \in Task
        BY <4>1, ToSetOfSeq DEF TypeOK
      <4> QED BY <4>2 DEF Task
    <3>7. NextId(mNextTaskId) \in 1 .. MaxTaskId
      BY DEF NextId, TypeOK, AAMP_SCHEDULER_ID_DEFAULT
    <3>8. removed' \subseteq 0 .. MaxScheduled
      BY <1>17, <2>2, <3>6 DEF ScheduleTask, TypeOK
    <3>9. /\ mNextTaskId' \in 1 .. MaxTaskId
          /\ issued' \in 0 .. MaxScheduled /\ newestRate' \in 0 .. MaxScheduled
          /\ worker' \in {"notStarted", "loop", "waiting", "wantEx", "haveEx",
                          "executing", "exited"}
          /\ caller' \in [Callers -> Names \cup {None}]
          /\ mLockOut' \in BOOLEAN
      BY <1>17, <2>2, <3>7 DEF ScheduleTask, TypeOK, NotifyWorker
    <3> QED BY <1>17, <3>5, <3>8, <3>9 DEF TypeOK, ScheduleTask, appVars
  <2> QED BY <2>1, <2>2
<1>18. ASSUME NEW i \in 1 .. MaxTaskId, RemoveTask(i)
       PROVE  TypeOK'
  <2>1. WithoutId(mTaskQueue, i) \in Seq(Task)
    BY RemoveTaskCases, RemoveAtProperties DEF TypeOK
  <2>2. { u.ticket : u \in ToSet(mTaskQueue) \ ToSet(mTaskQueue') } \subseteq 0 .. MaxScheduled
    <3>1. \A k \in 1 .. Len(mTaskQueue) : mTaskQueue[k] \in Task
      BY ElementOfSeq DEF TypeOK
    <3>2. \A u \in ToSet(mTaskQueue) : u \in Task
      BY <3>1, ToSetOfSeq DEF TypeOK
    <3> QED BY <3>2 DEF Task
  <2>3. mTaskQueue' \in Seq(Task) /\ removed' \subseteq 0 .. MaxScheduled
    BY <1>18, <2>1, <2>2 DEF RemoveTask, TypeOK
  <2> QED BY <1>18, <2>3 DEF TypeOK, RemoveTask, appVars
<1>19. ASSUME NEW s \in States, SetState(s)
       PROVE  TypeOK'
  BY <1>19 DEF TypeOK, SetState, queueVars, appVars
<1>20. CASE UNCHANGED vars
  BY <1>20 DEF TypeOK, vars
<1> QED
  BY <1>1, <1>2, <1>3, <1>4, <1>5, <1>6, <1>7, <1>8, <1>9, <1>10, <1>11, <1>12,
     <1>13, <1>14, <1>15, <1>16, <1>17, <1>18, <1>19, <1>20
  DEF Next, WorkerStep, AppStep, CallerStep

(* Types are correct in every reachable state: in particular the wrap of   *)
(* mNextTaskId keeps task ids within the range AAMP_SCHEDULER_ID_MAX_VALUE *)
(* promises, and never yields AAMP_TASK_ID_INVALID.                        *)
THEOREM TypeCorrect == Spec => []TypeOK
  BY TypeInit, TypeStep, PTL DEF Spec

------------------------------------------------------------------------------
LEMMA LockStep == TypeOK /\ LockInv /\ [Next]_vars => LockInv'
<1> SUFFICES ASSUME TypeOK, LockInv, [Next]_vars PROVE LockInv' OBVIOUS
<1> USE DEF LockInv, AppHoldsEx, AppLockedOut, Quiescing, None
<1>1. CASE StartScheduler
  BY <1>1 DEF TypeOK, StartScheduler, queueVars
<1>2. CASE WorkerLoop
  BY <1>2 DEF TypeOK, WorkerLoop, queueVars, appVars
<1>3. CASE SpuriousWakeup
  BY <1>3 DEF SpuriousWakeup, queueVars, appVars
<1>4. CASE TakeExecutionLock
  BY <1>4 DEF TypeOK, TakeExecutionLock, queueVars, appVars
<1>5. CASE Dequeue
  BY <1>5 DEF TypeOK, Dequeue, Popped, appVars
<1>6. CASE FinishTask
  BY <1>6 DEF TypeOK, FinishTask, queueVars, appVars
<1>7. ASSUME NEW o \in {"stop", "detach", "destroy", "stopScheduler"}, AppCall(o)
      PROVE  LockInv'
  BY <1>7 DEF TypeOK, AppCall, queueVars, AppVarsRest
<1>8. CASE SuspendLockEx
  BY <1>8 DEF TypeOK, SuspendLockEx, queueVars, AppVarsRest
<1>9. CASE SuspendLockOut
  BY <1>9 DEF TypeOK, SuspendLockOut, AppVarsRest
<1>10. CASE RemoveAllTasks
  BY <1>10 DEF TypeOK, RemoveAllTasks, AppVarsRest
<1>11. CASE StopRunning
  BY <1>11 DEF TypeOK, StopRunning, queueVars, AppVarsRest
<1>12. CASE ResumeUnlockEx
  BY <1>12 DEF TypeOK, ResumeUnlockEx, queueVars, AppVarsRest
<1>13. CASE ResumeLockOut
  BY <1>13 DEF TypeOK, ResumeLockOut, AppVarsRest
<1>14. CASE StopNotify
  BY <1>14 DEF TypeOK, StopNotify, NotifyWorker, queueVars, AppVarsRest
<1>15. CASE Join
  BY <1>15 DEF TypeOK, Join, queueVars, AppVarsRest
<1>16. ASSUME NEW c \in Callers, NEW n \in Names, ScheduleTaskAdmit(c, n)
       PROVE  LockInv'
  BY <1>16 DEF ScheduleTaskAdmit, queueVars, appVars
<1>17. ASSUME NEW c \in Callers, ScheduleTask(c)
       PROVE  LockInv'
  BY <1>17 DEF TypeOK, ScheduleTask, Accepts, NotifyWorker, queueVars, appVars
<1>18. ASSUME NEW i \in 1 .. MaxTaskId, RemoveTask(i)
       PROVE  LockInv'
  <2>1. Quiescing => mTaskQueue' = <<>>
    <3> SUFFICES ASSUME Quiescing PROVE mTaskQueue' = <<>> OBVIOUS
    <3>1. Len(mTaskQueue) = 0
      OBVIOUS
    <3>2. WithoutId(mTaskQueue, i) = mTaskQueue
      <4>1. mTaskQueue \in Seq(Task)
        BY DEF TypeOK
      <4>2. \/ WithoutId(mTaskQueue, i) = mTaskQueue
            \/ \E k \in 1 .. Len(mTaskQueue) :
                 WithoutId(mTaskQueue, i) = RemoveAt(mTaskQueue, k)
        BY <4>1, RemoveTaskCases
      <4> QED BY <3>1, <4>2
    <3> QED BY <1>18, <3>2 DEF RemoveTask
  <2> QED BY <1>18, <2>1 DEF RemoveTask, appVars
<1>19. ASSUME NEW s \in States, SetState(s)
       PROVE  LockInv'
  BY <1>19 DEF SetState, queueVars, appVars
<1>20. CASE UNCHANGED vars
  BY <1>20 DEF vars
<1> QED
  BY <1>1, <1>2, <1>3, <1>4, <1>5, <1>6, <1>7, <1>8, <1>9, <1>10, <1>11, <1>12,
     <1>13, <1>14, <1>15, <1>16, <1>17, <1>18, <1>19, <1>20
  DEF Next, WorkerStep, AppStep, CallerStep

(* After SuspendScheduler and RemoveAllTasks no task is executing and none *)
(* is queued until ResumeScheduler: what Stop and the destructor rely on.  *)
(* The invariant needed is LockInv: mExMutex and mLockOut are held exactly *)
(* while the application is between suspension and resumption, so neither  *)
(* the worker nor a late caller can be where it would disturb the queue.   *)
THEOREM SuspensionIsQuiescent == Spec => []StopIsQuiescent
<1>1. Init => LockInv
  BY DEF Init, LockInv, AppHoldsEx, AppLockedOut, Quiescing, None
<1>2. LockInv => StopIsQuiescent
  BY DEF LockInv, StopIsQuiescent, Quiescing, AppHoldsEx, None
<1> QED
  BY <1>1, <1>2, TypeInit, TypeStep, LockStep, PTL DEF Spec

------------------------------------------------------------------------------
(* r is q with elements taken out: the rest is in its old order.           *)
Edited(q, r) ==
  /\ \A i \in 1 .. Len(r) : \E a \in 1 .. Len(q) : r[i] = q[a]
  /\ \A i, j \in 1 .. Len(r) : i < j =>
       \E a, b \in 1 .. Len(q) : a < b /\ r[i] = q[a] /\ r[j] = q[b]

LEMMA RemoveAtEdits ==
  ASSUME NEW q \in Seq(Task), NEW k \in 1 .. Len(q)
  PROVE  Edited(q, RemoveAt(q, k))
<1> DEFINE r == RemoveAt(q, k)
           from(i) == IF i < k THEN i ELSE i + 1
<1>1. /\ Len(q) \in Nat
      /\ Len(r) = Len(q) - 1
      /\ \A i \in 1 .. Len(q) - 1 : r[i] = IF i < k THEN q[i] ELSE q[i + 1]
  BY RemoveAtProperties, LenProperties
<1>2. \A i \in 1 .. Len(r) : from(i) \in 1 .. Len(q) /\ r[i] = q[from(i)]
  <2> HIDE DEF r
  <2> QED BY <1>1
<1>3. \A i, j \in 1 .. Len(r) : i < j => from(i) < from(j)
  OBVIOUS
<1> QED
  <2> HIDE DEF r, from
  <2>1. Edited(q, r)
    BY <1>2, <1>3 DEF Edited
  <2> QED BY <2>1 DEF r

LEMMA SameEdits == ASSUME NEW q PROVE Edited(q, q)
  BY DEF Edited

(* Order and age of the tickets survive an edit of the queue.              *)
TicketsInOrder(q) ==
  /\ \A i, j \in 1 .. Len(q) : i < j => q[i].ticket < q[j].ticket
  /\ \A i \in 1 .. Len(q) : lastRun < q[i].ticket /\ q[i].ticket <= issued

LEMMA EditKeepsOrder ==
  ASSUME NEW q, NEW r, Edited(q, r), TicketsInOrder(q)
  PROVE  TicketsInOrder(r)
<1>1. ASSUME NEW i \in 1 .. Len(r), NEW j \in 1 .. Len(r), i < j
      PROVE  r[i].ticket < r[j].ticket
  <2>1. PICK a, b \in 1 .. Len(q) : a < b /\ r[i] = q[a] /\ r[j] = q[b]
    BY <1>1 DEF Edited
  <2> QED BY <2>1 DEF TicketsInOrder
<1>2. ASSUME NEW i \in 1 .. Len(r)
      PROVE  lastRun < r[i].ticket /\ r[i].ticket <= issued
  <2>1. PICK a \in 1 .. Len(q) : r[i] = q[a]
    BY DEF Edited
  <2> QED BY <2>1 DEF TicketsInOrder
<1> QED BY <1>1, <1>2 DEF TicketsInOrder

LEMMA FifoIsTickets ==
  FifoInv <=> /\ TicketsInOrder(mTaskQueue)
              /\ lastRun <= issued
              /\ running # NoTask => running.ticket = lastRun
  BY DEF FifoInv, FirstInFirstRun, TicketsInOrder

LEMMA FifoStep == TypeOK /\ FifoInv /\ [Next]_vars => FifoInv'
<1> SUFFICES ASSUME TypeOK, FifoInv, [Next]_vars PROVE FifoInv' OBVIOUS
<1> USE SchedulerAssumption
<1>0. /\ mTaskQueue \in Seq(Task) /\ Len(mTaskQueue) \in Nat
      /\ \A i \in 1 .. Len(mTaskQueue) : mTaskQueue[i] \in Task
      /\ issued \in Nat /\ lastRun \in Nat
  BY ElementOfSeq, LenProperties DEF TypeOK
<1>1. CASE UNCHANGED <<mTaskQueue, issued, lastRun, running>>
  BY <1>1 DEF FifoInv, FirstInFirstRun
<1>2. CASE Dequeue
  <2>1. CASE mTaskQueue = <<>>
    BY <1>2, <2>1 DEF Dequeue, FifoInv, FirstInFirstRun
  <2>2. CASE mTaskQueue # <<>>
    <3>1. /\ mTaskQueue' = Tail(mTaskQueue)
          /\ Len(mTaskQueue') = Len(mTaskQueue) - 1
          /\ \A i \in 1 .. Len(mTaskQueue') : mTaskQueue'[i] = mTaskQueue[i + 1]
          /\ Head(mTaskQueue) = mTaskQueue[1]
          /\ 1 \in 1 .. Len(mTaskQueue)
      BY <1>0, <1>2, <2>2, HeadTailProperties, EmptySeq DEF Dequeue, Popped
    <3>2. issued' = issued /\ lastRun' \in {lastRun, mTaskQueue[1].ticket}
          /\ \/ running' = running /\ lastRun' = lastRun
             \/ running' = mTaskQueue[1] /\ lastRun' = mTaskQueue[1].ticket
      BY <1>2, <2>2, <3>1 DEF Dequeue
    <3>3. \A i \in 1 .. Len(mTaskQueue') :
            /\ i + 1 \in 1 .. Len(mTaskQueue) /\ 1 < i + 1
            /\ mTaskQueue'[i].ticket = mTaskQueue[i + 1].ticket
      BY <1>0, <3>1
    <3>4. \A i \in 1 .. Len(mTaskQueue') : lastRun' < mTaskQueue'[i].ticket
      BY <1>0, <3>1, <3>2, <3>3 DEF FifoInv, FirstInFirstRun, Task
    <3>5. \A i, j \in 1 .. Len(mTaskQueue') :
            i < j => mTaskQueue'[i].ticket < mTaskQueue'[j].ticket
      <4> SUFFICES ASSUME NEW i \in 1 .. Len(mTaskQueue'),
                          NEW j \in 1 .. Len(mTaskQueue'), i < j
                   PROVE  mTaskQueue'[i].ticket < mTaskQueue'[j].ticket
        OBVIOUS
      <4>1. /\ i + 1 \in 1 .. Len(mTaskQueue) /\ j + 1 \in 1 .. Len(mTaskQueue)
            /\ i + 1 < j + 1
        BY <3>3
      <4>2. mTaskQueue[i + 1].ticket < mTaskQueue[j + 1].ticket
        BY <4>1 DEF FifoInv, FirstInFirstRun
      <4> QED BY <3>3, <4>2
    <3> QED
      BY <1>0, <3>1, <3>2, <3>3, <3>4, <3>5 DEF FifoInv, FirstInFirstRun
  <2> QED BY <2>1, <2>2
<1>3. CASE FinishTask
  BY <1>3 DEF FinishTask, queueVars, FifoInv, FirstInFirstRun
<1>4. CASE RemoveAllTasks
  BY <1>4, EmptySeq DEF RemoveAllTasks, AppVarsRest, FifoInv, FirstInFirstRun
<1>5. ASSUME NEW c \in Callers, ScheduleTask(c), Accepts
      PROVE  FifoInv'
  <2> DEFINE q == WithoutStale(mTaskQueue, caller[c])
             t == [id |-> mNextTaskId, name |-> caller[c], ticket |-> issued + 1]
  <2>1. q \in Seq(Task) /\ Edited(mTaskQueue, q)
    BY <1>0, WithoutStaleCases, RemoveAtProperties, RemoveAtEdits, SameEdits
  <2>2. TicketsInOrder(q)
    BY <2>1, EditKeepsOrder, FifoIsTickets
  <2>3. t \in Task
    BY <1>5, NewTask DEF ScheduleTask, TypeOK
  <2>4. /\ mTaskQueue' = Append(q, t)
        /\ issued' = issued + 1 /\ lastRun' = lastRun /\ running' = running
    BY <1>5 DEF ScheduleTask, Enqueued
  <2>5. t.ticket = issued + 1
    OBVIOUS
  <2> HIDE DEF q, t
  <2>6. /\ Len(mTaskQueue') = Len(q) + 1 /\ Len(q) \in Nat
        /\ \A i \in 1 .. Len(q) : mTaskQueue'[i] = q[i] /\ q[i] \in Task
        /\ mTaskQueue'[Len(q) + 1] = t
    BY <2>1, <2>3, <2>4, AppendProperties, ElementOfSeq, LenProperties
  <2>7. \A i \in 1 .. Len(q) + 1 : i \in 1 .. Len(q) \/ i = Len(q) + 1
    BY <2>6
  <2>8. \A i \in 1 .. Len(mTaskQueue') :
          lastRun' < mTaskQueue'[i].ticket /\ mTaskQueue'[i].ticket <= issued'
    BY <1>0, <2>2, <2>4, <2>5, <2>6, <2>7 DEF TicketsInOrder, FifoInv, Task
  <2>9. \A i, j \in 1 .. Len(mTaskQueue') :
          i < j => mTaskQueue'[i].ticket < mTaskQueue'[j].ticket
    <3> SUFFICES ASSUME NEW i \in 1 .. Len(mTaskQueue'),
                        NEW j \in 1 .. Len(mTaskQueue'), i < j
                 PROVE  mTaskQueue'[i].ticket < mTaskQueue'[j].ticket
      OBVIOUS
    <3>1. i \in 1 .. Len(q) /\ (j \in 1 .. Len(q) \/ j = Len(q) + 1)
      BY <2>6
    <3>2. q[i].ticket <= issued /\ q[i].ticket \in Nat
      BY <2>2, <2>6, <3>1 DEF TicketsInOrder, Task
    <3>3. j \in 1 .. Len(q) => q[i].ticket < q[j].ticket
      BY <2>2, <3>1 DEF TicketsInOrder
    <3> QED BY <1>0, <2>5, <2>6, <3>1, <3>2, <3>3
  <2>10. lastRun' <= issued' /\ (running' # NoTask => running'.ticket = lastRun')
    BY <1>0, <2>4 DEF FifoInv
  <2> QED
    BY <2>8, <2>9, <2>10 DEF FifoInv, FirstInFirstRun
<1>6. ASSUME NEW i \in 1 .. MaxTaskId, RemoveTask(i)
      PROVE  FifoInv'
  <2>1. Edited(mTaskQueue, mTaskQueue')
    BY <1>0, <1>6, RemoveTaskCases, RemoveAtEdits, SameEdits DEF RemoveTask
  <2>2. TicketsInOrder(mTaskQueue')
    BY <2>1, EditKeepsOrder, FifoIsTickets
  <2>3. UNCHANGED <<issued, lastRun, running>>
    BY <1>6 DEF RemoveTask
  <2> QED BY <2>2, <2>3 DEF FifoInv, FirstInFirstRun, TicketsInOrder
<1> QED
  <2>1. ASSUME NEW c \in Callers, ScheduleTask(c), ~Accepts
        PROVE  FifoInv'
    BY <1>1, <2>1 DEF ScheduleTask, queueVars
  <2>2. CASE \/ StartScheduler \/ WorkerLoop \/ SpuriousWakeup
             \/ TakeExecutionLock \/ UNCHANGED vars
    BY <1>1, <2>2 DEF StartScheduler, WorkerLoop, SpuriousWakeup,
                      TakeExecutionLock, vars, queueVars
  <2>3. CASE \/ \E o \in {"stop", "detach", "destroy", "stopScheduler"} : AppCall(o)
             \/ SuspendLockEx \/ SuspendLockOut \/ StopRunning
             \/ ResumeUnlockEx \/ ResumeLockOut \/ StopNotify \/ Join
    BY <1>1, <2>3 DEF AppCall, SuspendLockEx, SuspendLockOut, StopRunning,
                      ResumeUnlockEx, ResumeLockOut, StopNotify, Join,
                      queueVars, AppVarsRest
  <2>4. CASE \/ \E c \in Callers, n \in Names : ScheduleTaskAdmit(c, n)
             \/ \E s \in States : SetState(s)
    BY <1>1, <2>4 DEF ScheduleTaskAdmit, SetState, queueVars
  <2> QED
    BY <1>2, <1>3, <1>4, <1>5, <1>6, <2>1, <2>2, <2>3, <2>4
    DEF Next, WorkerStep, AppStep, CallerStep

(* Tasks run in the order in which ScheduleTask queued them, through every *)
(* RemoveTask, RemoveAllTasks, replaced SetRate and wrap of the ids.  The  *)
(* invariant needed is FifoInv: no ticket in the queue is newer than the   *)
(* last one issued, so the one appended is the newest.                     *)
THEOREM TasksRunInOrder == Spec => []FirstInFirstRun
<1>1. Init => FifoInv
  BY EmptySeq, SchedulerAssumption DEF Init, FifoInv, FirstInFirstRun
<1>2. FifoInv => FirstInFirstRun
  BY DEF FifoInv
<1> QED
  BY <1>1, <1>2, TypeInit, TypeStep, FifoStep, PTL DEF Spec

------------------------------------------------------------------------------
(* The tickets of the tasks that an edit r of the queue q takes out.       *)
Gone(q, r) == {t.ticket : t \in ToSet(q) \ ToSet(r)}

(* A SetRate that is about to be queued finds no other in the queue: all   *)
(* that wait carry the newest ticket, and no two tasks share a ticket.     *)
LEMMA NoStaleSetRate ==
  ASSUME TypeOK, FifoInv, LatestSetRateWins
  PROVE  LET q == WithoutStale(mTaskQueue, "SetRate") IN
         \A i \in 1 .. Len(q) : ~IsSetRate(q[i])
<1> DEFINE q == WithoutStale(mTaskQueue, "SetRate")
<1>0. /\ mTaskQueue \in Seq(Task) /\ Len(mTaskQueue) \in Nat
      /\ \A a \in 1 .. Len(mTaskQueue) : mTaskQueue[a].ticket \in Nat
  <2>1. mTaskQueue \in Seq(Task) /\ Len(mTaskQueue) \in Nat
        /\ \A a \in 1 .. Len(mTaskQueue) : mTaskQueue[a] \in Task
    BY ElementOfSeq, LenProperties DEF TypeOK
  <2> QED BY <2>1, SchedulerAssumption DEF Task
<1>1. CASE \E k \in 1 .. Len(mTaskQueue) :
             q = RemoveAt(mTaskQueue, k) /\ IsSetRate(mTaskQueue[k])
  <2>1. PICK k \in 1 .. Len(mTaskQueue) :
          q = RemoveAt(mTaskQueue, k) /\ IsSetRate(mTaskQueue[k])
    BY <1>1
  <2> SUFFICES ASSUME NEW i \in 1 .. Len(q), IsSetRate(q[i]) PROVE FALSE
    OBVIOUS
  <2> HIDE DEF q
  <2>2. /\ Len(q) = Len(mTaskQueue) - 1
        /\ \A j \in 1 .. Len(mTaskQueue) - 1 :
             q[j] = IF j < k THEN mTaskQueue[j] ELSE mTaskQueue[j + 1]
    BY <1>0, <2>1, RemoveAtProperties
  <2>3. PICK j \in 1 .. Len(mTaskQueue) : j # k /\ q[i] = mTaskQueue[j]
    BY <1>0, <2>2
  <2>4. mTaskQueue[j].ticket = mTaskQueue[k].ticket
    BY <2>1, <2>3 DEF LatestSetRateWins
  <2>5. j < k \/ k < j
    BY <1>0, <2>3
  <2> QED BY <1>0, <2>4, <2>5 DEF FifoInv, FirstInFirstRun
<1>2. CASE q = mTaskQueue /\ \A i \in 1 .. Len(mTaskQueue) : ~IsSetRate(mTaskQueue[i])
  BY <1>2
<1> QED BY <1>0, <1>1, <1>2, WithoutStaleCases

(* Taking tasks out of the queue leaves the newest SetRate where it waits, *)
(* or records that it was taken out.                                       *)
LEMMA EditKeepsRate ==
  ASSUME TypeOK, LatestSetRateWins, mTaskQueue' \in Seq(Task),
         Edited(mTaskQueue, mTaskQueue'),
         removed' = removed \cup Gone(mTaskQueue, mTaskQueue'),
         newestRate' = newestRate, lastRun' = lastRun
  PROVE  LatestSetRateWins'
<1>1. \A i \in 1 .. Len(mTaskQueue') :
        IsSetRate(mTaskQueue'[i]) => mTaskQueue'[i].ticket = newestRate
  BY DEF Edited, LatestSetRateWins
<1>2. ASSUME NEW i \in 1 .. Len(mTaskQueue), mTaskQueue[i].ticket = newestRate
      PROVE  \/ \E j \in 1 .. Len(mTaskQueue') : mTaskQueue'[j].ticket = newestRate
             \/ newestRate \in removed'
  <2>1. mTaskQueue[i] \in ToSet(mTaskQueue)
    BY ToSetOfSeq DEF TypeOK
  <2>2. CASE mTaskQueue[i] \in ToSet(mTaskQueue')
    <3>1. PICK j \in 1 .. Len(mTaskQueue') : mTaskQueue'[j] = mTaskQueue[i]
      BY <2>2, ToSetOfSeq
    <3> QED BY <1>2, <3>1
  <2>3. CASE mTaskQueue[i] \notin ToSet(mTaskQueue')
    <3>1. mTaskQueue[i].ticket \in Gone(mTaskQueue, mTaskQueue')
      BY <2>1, <2>3 DEF Gone
    <3> QED BY <1>2, <3>1
  <2> QED BY <2>2, <2>3
<1>3. \/ \E j \in 1 .. Len(mTaskQueue') : mTaskQueue'[j].ticket = newestRate
      \/ newestRate <= lastRun
      \/ newestRate \in removed'
  BY <1>2 DEF LatestSetRateWins
<1> QED BY <1>1, <1>3 DEF LatestSetRateWins

LEMMA SetRateStep ==
  TypeOK /\ FifoInv /\ LatestSetRateWins /\ [Next]_vars => LatestSetRateWins'
<1> SUFFICES ASSUME TypeOK, FifoInv, LatestSetRateWins, [Next]_vars
             PROVE  LatestSetRateWins'
  OBVIOUS
<1>0. /\ mTaskQueue \in Seq(Task) /\ Len(mTaskQueue) \in Nat
      /\ \A i \in 1 .. Len(mTaskQueue) : mTaskQueue[i] \in Task
      /\ newestRate \in Nat /\ lastRun \in Nat
  BY ElementOfSeq, LenProperties, SchedulerAssumption DEF TypeOK
<1>1. CASE UNCHANGED <<mTaskQueue, newestRate, lastRun, removed>>
  BY <1>1 DEF LatestSetRateWins
<1>2. CASE Dequeue
  <2>1. CASE mTaskQueue = <<>>
    BY <1>1, <1>2, <2>1 DEF Dequeue
  <2>2. CASE mTaskQueue # <<>>
    <3>1. /\ Len(mTaskQueue') = Len(mTaskQueue) - 1
          /\ \A i \in 1 .. Len(mTaskQueue') : mTaskQueue'[i] = mTaskQueue[i + 1]
          /\ Head(mTaskQueue) = mTaskQueue[1]
          /\ 1 \in 1 .. Len(mTaskQueue)
      BY <1>0, <1>2, <2>2, HeadTailProperties, EmptySeq DEF Dequeue, Popped
    <3>2. \A i \in 1 .. Len(mTaskQueue') : i + 1 \in 1 .. Len(mTaskQueue)
      BY <1>0, <3>1
    <3>3. /\ newestRate' = newestRate
          /\ \/ lastRun' = lastRun /\ removed' = removed \cup {mTaskQueue[1].ticket}
             \/ lastRun' = mTaskQueue[1].ticket /\ removed' = removed
      BY <1>2, <2>2, <3>1 DEF Dequeue
    <3>4. mTaskQueue[1].ticket \in Nat /\ lastRun < mTaskQueue[1].ticket
      BY <1>0, <3>1, SchedulerAssumption DEF FifoInv, FirstInFirstRun, Task
    <3>5. \A i \in 1 .. Len(mTaskQueue) : i # 1 =>
            i - 1 \in 1 .. Len(mTaskQueue') /\ mTaskQueue'[i - 1] = mTaskQueue[i]
      BY <1>0, <3>1
    <3>6. \/ \E j \in 1 .. Len(mTaskQueue') : mTaskQueue'[j].ticket = newestRate
          \/ newestRate <= lastRun'
          \/ newestRate \in removed'
      <4>1. CASE newestRate <= lastRun
        BY <1>0, <3>3, <3>4, <4>1
      <4>2. CASE newestRate \in removed
        BY <3>3, <4>2
      <4>3. ASSUME NEW i \in 1 .. Len(mTaskQueue), mTaskQueue[i].ticket = newestRate,
                   i # 1
            PROVE  \E j \in 1 .. Len(mTaskQueue') : mTaskQueue'[j].ticket = newestRate
        BY <3>5, <4>3
      <4>4. CASE mTaskQueue[1].ticket = newestRate
        BY <1>0, <3>3, <4>4
      <4> QED BY <4>1, <4>2, <4>3, <4>4 DEF LatestSetRateWins
    <3>7. \A i \in 1 .. Len(mTaskQueue') :
            IsSetRate(mTaskQueue'[i]) => mTaskQueue'[i].ticket = newestRate
      BY <3>1, <3>2 DEF LatestSetRateWins
    <3> QED BY <3>3, <3>6, <3>7 DEF LatestSetRateWins
  <2> QED BY <2>1, <2>2
<1>3. CASE RemoveAllTasks
  <2>1. <<>> \in Seq(Task) /\ Edited(mTaskQueue, <<>>)
    BY EmptySeq DEF Edited
  <2>2. ToSet(<<>>) = {}
    BY DEF ToSet
  <2>3. removed' = removed \cup Gone(mTaskQueue, <<>>)
    BY <1>3, <2>2 DEF RemoveAllTasks, Gone
  <2> QED BY <1>3, <2>1, <2>3, EditKeepsRate DEF RemoveAllTasks, AppVarsRest
<1>4. ASSUME NEW c \in Callers, ScheduleTask(c), Accepts
      PROVE  LatestSetRateWins'
  <2> DEFINE q == WithoutStale(mTaskQueue, caller[c])
             t == [id |-> mNextTaskId, name |-> caller[c], ticket |-> issued + 1]
  <2>1. q \in Seq(Task)
    BY <1>0, WithoutStaleCases, RemoveAtProperties
  <2>2. t \in Task
    BY <1>4, NewTask DEF ScheduleTask, TypeOK
  <2>3. /\ mTaskQueue' = Append(q, t) /\ lastRun' = lastRun
        /\ newestRate' = IF caller[c] = "SetRate" THEN issued + 1 ELSE newestRate
        /\ removed \subseteq removed'
    BY <1>4 DEF ScheduleTask, Enqueued
  <2>4. t.ticket = issued + 1 /\ (IsSetRate(t) <=> caller[c] = "SetRate")
    BY DEF IsSetRate
  <2>5. caller[c] = "SetRate" => \A i \in 1 .. Len(q) : ~IsSetRate(q[i])
    BY NoStaleSetRate
  <2>6. caller[c] # "SetRate" => q = mTaskQueue
    BY DEF WithoutStale
  <2> HIDE DEF q, t
  <2>7. /\ Len(mTaskQueue') = Len(q) + 1 /\ Len(q) \in Nat
        /\ \A i \in 1 .. Len(q) : mTaskQueue'[i] = q[i]
        /\ mTaskQueue'[Len(q) + 1] = t
    BY <2>1, <2>2, <2>3, AppendProperties, LenProperties
  <2>8. \A i \in 1 .. Len(q) + 1 : i \in 1 .. Len(q) \/ i = Len(q) + 1
    BY <2>7
  <2>9. Len(q) + 1 \in 1 .. Len(mTaskQueue') /\ 1 .. Len(q) \subseteq 1 .. Len(mTaskQueue')
    BY <2>7
  <2>10. CASE caller[c] = "SetRate"
    BY <2>3, <2>4, <2>5, <2>7, <2>8, <2>9, <2>10 DEF LatestSetRateWins
  <2>11. CASE caller[c] # "SetRate"
    <3>1. \A i \in 1 .. Len(mTaskQueue') :
            IsSetRate(mTaskQueue'[i]) => mTaskQueue'[i].ticket = newestRate'
      BY <2>3, <2>4, <2>6, <2>7, <2>8, <2>11 DEF LatestSetRateWins
    <3>2. \/ \E j \in 1 .. Len(mTaskQueue') : mTaskQueue'[j].ticket = newestRate'
          \/ newestRate' <= lastRun'
          \/ newestRate' \in removed'
      BY <2>3, <2>6, <2>7, <2>9, <2>11 DEF LatestSetRateWins
    <3> QED BY <3>1, <3>2 DEF LatestSetRateWins
  <2> QED BY <2>10, <2>11
<1>5. ASSUME NEW i \in 1 .. MaxTaskId, RemoveTask(i)
      PROVE  LatestSetRateWins'
  <2>1. mTaskQueue' \in Seq(Task) /\ Edited(mTaskQueue, mTaskQueue')
    BY <1>0, <1>5, RemoveTaskCases, RemoveAtProperties, RemoveAtEdits, SameEdits DEF RemoveTask
  <2>2. /\ removed' = removed \cup Gone(mTaskQueue, mTaskQueue')
        /\ UNCHANGED <<newestRate, lastRun>>
    BY <1>5 DEF RemoveTask, Gone
  <2> QED BY <2>1, <2>2, EditKeepsRate
<1> QED
  <2>1. ASSUME NEW c \in Callers, ScheduleTask(c), ~Accepts
        PROVE  LatestSetRateWins'
    BY <1>1, <2>1 DEF ScheduleTask, queueVars
  <2>2. CASE \/ StartScheduler \/ WorkerLoop \/ SpuriousWakeup \/ FinishTask
             \/ TakeExecutionLock \/ UNCHANGED vars
    BY <1>1, <2>2 DEF StartScheduler, WorkerLoop, SpuriousWakeup, FinishTask,
                      TakeExecutionLock, vars, queueVars
  <2>3. CASE \/ \E o \in {"stop", "detach", "destroy", "stopScheduler"} : AppCall(o)
             \/ SuspendLockEx \/ SuspendLockOut \/ StopRunning
             \/ ResumeUnlockEx \/ ResumeLockOut \/ StopNotify \/ Join
    BY <1>1, <2>3 DEF AppCall, SuspendLockEx, SuspendLockOut, StopRunning,
                      ResumeUnlockEx, ResumeLockOut, StopNotify, Join,
                      queueVars, AppVarsRest
  <2>4. CASE \/ \E c \in Callers, n \in Names : ScheduleTaskAdmit(c, n)
             \/ \E s \in States : SetState(s)
    BY <1>1, <2>4 DEF ScheduleTaskAdmit, SetState, queueVars
  <2> QED
    BY <1>2, <1>3, <1>4, <1>5, <2>1, <2>2, <2>3, <2>4
    DEF Next, WorkerStep, AppStep, CallerStep

(* The SetRate that waits is the newest accepted, and the newest is not    *)
(* lost, for any number of callers: WithoutStale takes out the older one   *)
(* in the same step in which the new one is appended.  FifoInv is needed,  *)
(* as it says that no two tasks carry the same ticket: of several that     *)
(* waited WithoutStale would take out the first only.                      *)
THEOREM NewestSetRateWaits == Spec => []LatestSetRateWins
<1>1. Init => LatestSetRateWins
  BY EmptySeq DEF Init, LatestSetRateWins
<1>2. Init => FifoInv
  BY EmptySeq, SchedulerAssumption DEF Init, FifoInv, FirstInFirstRun
<1> QED
  BY <1>1, <1>2, TypeInit, TypeStep, FifoStep, SetRateStep, PTL DEF Spec

------------------------------------------------------------------------------
(* What was taken out of the queue lies outside it and is not executing.   *)
RemovedInv ==
  /\ RemovedNeverRuns
  /\ \A i \in 1 .. Len(mTaskQueue) : mTaskQueue[i].ticket \notin removed
  /\ \A k \in removed : k <= issued

(* No ticket is both taken out and left, and none taken out is older than  *)
(* the last executed.                                                      *)
LEMMA GoneIsGone ==
  ASSUME TypeOK, FifoInv, NEW r \in Seq(Task), Edited(mTaskQueue, r)
  PROVE  /\ \A i \in 1 .. Len(r) : r[i].ticket \notin Gone(mTaskQueue, r)
         /\ \A k \in Gone(mTaskQueue, r) : lastRun < k /\ k <= issued
<1>0. /\ mTaskQueue \in Seq(Task) /\ Len(mTaskQueue) \in Nat
      /\ \A a \in 1 .. Len(mTaskQueue) : mTaskQueue[a].ticket \in Nat
  <2>1. mTaskQueue \in Seq(Task) /\ Len(mTaskQueue) \in Nat
        /\ \A a \in 1 .. Len(mTaskQueue) : mTaskQueue[a] \in Task
    BY ElementOfSeq, LenProperties DEF TypeOK
  <2> QED BY <2>1, SchedulerAssumption DEF Task
<1>1. \A k \in Gone(mTaskQueue, r) : \E a \in 1 .. Len(mTaskQueue) :
        mTaskQueue[a].ticket = k /\ mTaskQueue[a] \notin ToSet(r)
  BY <1>0, ToSetOfSeq DEF Gone
<1>2. \A a, b \in 1 .. Len(mTaskQueue) :
        mTaskQueue[a].ticket = mTaskQueue[b].ticket => a = b
  BY <1>0 DEF FifoInv, FirstInFirstRun
<1>3. ASSUME NEW i \in 1 .. Len(r), r[i].ticket \in Gone(mTaskQueue, r)
      PROVE  FALSE
  <2>1. PICK a \in 1 .. Len(mTaskQueue) :
          mTaskQueue[a].ticket = r[i].ticket /\ mTaskQueue[a] \notin ToSet(r)
    BY <1>1, <1>3
  <2>2. PICK b \in 1 .. Len(mTaskQueue) : r[i] = mTaskQueue[b]
    BY DEF Edited
  <2>3. r[i] \in ToSet(r)
    BY ToSetOfSeq
  <2> QED BY <1>2, <2>1, <2>2, <2>3
<1> QED BY <1>1, <1>3 DEF FifoInv, FirstInFirstRun

LEMMA RemovedStep == TypeOK /\ FifoInv /\ RemovedInv /\ [Next]_vars => RemovedInv'
<1> SUFFICES ASSUME TypeOK, FifoInv, RemovedInv, [Next]_vars PROVE RemovedInv' OBVIOUS
<1> USE SchedulerAssumption
<1>0. /\ mTaskQueue \in Seq(Task) /\ Len(mTaskQueue) \in Nat
      /\ \A i \in 1 .. Len(mTaskQueue) : mTaskQueue[i] \in Task
      /\ issued \in Nat /\ lastRun \in Nat /\ removed \subseteq Nat
  BY ElementOfSeq, LenProperties DEF TypeOK
<1>1. CASE UNCHANGED <<mTaskQueue, issued, removed, running>>
  BY <1>1 DEF RemovedInv, RemovedNeverRuns
<1>2. CASE Dequeue
  <2>1. CASE mTaskQueue = <<>>
    BY <1>2, <2>1 DEF Dequeue, RemovedInv, RemovedNeverRuns
  <2>2. CASE mTaskQueue # <<>>
    <3>1. /\ Len(mTaskQueue') = Len(mTaskQueue) - 1
          /\ \A i \in 1 .. Len(mTaskQueue') :
               mTaskQueue'[i] = mTaskQueue[i + 1] /\ i + 1 \in 2 .. Len(mTaskQueue)
          /\ Head(mTaskQueue) = mTaskQueue[1]
          /\ 1 \in 1 .. Len(mTaskQueue)
      BY <1>0, <1>2, <2>2, HeadTailProperties, EmptySeq DEF Dequeue, Popped
    <3>2. /\ issued' = issued
          /\ \/ running' = running /\ removed' = removed \cup {mTaskQueue[1].ticket}
             \/ running' = mTaskQueue[1] /\ removed' = removed
      BY <1>2, <2>2, <3>1 DEF Dequeue
    <3>3. \A j \in 2 .. Len(mTaskQueue) :
            j \in 1 .. Len(mTaskQueue) /\ mTaskQueue[j].ticket # mTaskQueue[1].ticket
      <4>1. ASSUME NEW j \in 2 .. Len(mTaskQueue)
            PROVE  j \in 1 .. Len(mTaskQueue) /\ 1 < j
        BY <1>0
      <4>2. \A j \in 1 .. Len(mTaskQueue) : mTaskQueue[j].ticket \in Nat
        BY <1>0 DEF Task
      <4> QED BY <3>1, <4>1, <4>2 DEF FifoInv, FirstInFirstRun
    <3>4. running # NoTask => running.ticket # mTaskQueue[1].ticket
      BY <1>0, <3>1 DEF FifoInv, FirstInFirstRun, Task
    <3>5. mTaskQueue[1].ticket <= issued
      BY <3>1 DEF FifoInv
    <3> QED BY <3>1, <3>2, <3>3, <3>4, <3>5 DEF RemovedInv, RemovedNeverRuns
  <2> QED BY <2>1, <2>2
<1>3. CASE FinishTask
  BY <1>3 DEF FinishTask, queueVars, RemovedInv, RemovedNeverRuns
(* An edit of the queue takes nothing out that runs or ran.                *)
<1>4. ASSUME NEW r \in Seq(Task), Edited(mTaskQueue, r)
      PROVE  /\ running # NoTask => running.ticket \notin removed \cup Gone(mTaskQueue, r)
             /\ \A i \in 1 .. Len(r) : r[i].ticket \notin removed \cup Gone(mTaskQueue, r)
             /\ \A k \in removed \cup Gone(mTaskQueue, r) : k <= issued
  <2>1. /\ \A i \in 1 .. Len(r) : r[i].ticket \notin Gone(mTaskQueue, r)
        /\ \A k \in Gone(mTaskQueue, r) : lastRun < k /\ k <= issued
    BY <1>4, GoneIsGone
  <2>2. \A i \in 1 .. Len(r) : r[i].ticket \notin removed
    BY <1>4 DEF Edited, RemovedInv
  <2>3. running # NoTask => running.ticket = lastRun /\ running.ticket \notin removed
    BY DEF FifoInv, RemovedInv, RemovedNeverRuns
  <2>4. ~(lastRun < lastRun)
    BY <1>0
  <2> QED BY <2>1, <2>2, <2>3, <2>4 DEF RemovedInv
<1>5. CASE RemoveAllTasks
  <2>1. <<>> \in Seq(Task) /\ Edited(mTaskQueue, <<>>) /\ Len(<<>>) = 0
    BY EmptySeq DEF Edited
  <2>2. /\ removed' = removed \cup Gone(mTaskQueue, <<>>) /\ mTaskQueue' = <<>>
        /\ UNCHANGED <<issued, running>>
    <3>1. ToSet(<<>>) = {}
      BY DEF ToSet
    <3> QED BY <1>5, <3>1 DEF RemoveAllTasks, AppVarsRest, Gone
  <2> QED BY <1>4, <2>1, <2>2 DEF RemovedInv, RemovedNeverRuns
<1>6. ASSUME NEW c \in Callers, ScheduleTask(c), Accepts PROVE RemovedInv'
  <2> DEFINE q == WithoutStale(mTaskQueue, caller[c])
             t == [id |-> mNextTaskId, name |-> caller[c], ticket |-> issued + 1]
  <2>1. q \in Seq(Task) /\ Edited(mTaskQueue, q)
    BY <1>0, WithoutStaleCases, RemoveAtProperties, RemoveAtEdits, SameEdits
  <2>2. t \in Task /\ t.ticket = issued + 1
    BY <1>6, NewTask DEF ScheduleTask, TypeOK
  <2>3. /\ mTaskQueue' = Append(q, t) /\ removed' = removed \cup Gone(mTaskQueue, q)
        /\ issued' = issued + 1 /\ running' = running
    BY <1>6 DEF ScheduleTask, Enqueued, Gone
  <2> HIDE DEF q, t
  <2>4. /\ Len(q) \in Nat /\ Len(mTaskQueue') = Len(q) + 1
        /\ \A i \in 1 .. Len(q) : mTaskQueue'[i] = q[i]
        /\ mTaskQueue'[Len(q) + 1] = t
    BY <2>1, <2>2, <2>3, AppendProperties, LenProperties
  <2>5. \A i \in 1 .. Len(q) + 1 : i \in 1 .. Len(q) \/ i = Len(q) + 1
    BY <2>4
  <2>6. /\ running' # NoTask => running'.ticket \notin removed'
        /\ \A i \in 1 .. Len(q) : q[i].ticket \notin removed'
        /\ \A k \in removed' : k <= issued
    BY <1>4, <2>1, <2>3
  <2>7. removed' \subseteq Nat
    BY <1>6, TypeStep DEF TypeOK
  <2>8. issued + 1 \notin removed' /\ \A k \in removed' : k <= issued'
    BY <1>0, <2>3, <2>6, <2>7
  <2> QED BY <2>2, <2>4, <2>5, <2>6, <2>8 DEF RemovedInv, RemovedNeverRuns
<1>7. ASSUME NEW i \in 1 .. MaxTaskId, RemoveTask(i) PROVE RemovedInv'
  <2>1. mTaskQueue' \in Seq(Task) /\ Edited(mTaskQueue, mTaskQueue')
    BY <1>0, <1>7, RemoveTaskCases, RemoveAtProperties, RemoveAtEdits, SameEdits DEF RemoveTask
  <2>2. /\ removed' = removed \cup Gone(mTaskQueue, mTaskQueue')
        /\ UNCHANGED <<issued, running>>
    BY <1>7 DEF RemoveTask, Gone
  <2> QED BY <1>4, <2>1, <2>2 DEF RemovedInv, RemovedNeverRuns
<1> QED
  <2>1. ASSUME NEW c \in Callers, ScheduleTask(c), ~Accepts PROVE RemovedInv'
    BY <1>1, <2>1 DEF ScheduleTask, queueVars
  <2>2. CASE \/ StartScheduler \/ WorkerLoop \/ SpuriousWakeup
             \/ TakeExecutionLock \/ UNCHANGED vars
    BY <1>1, <2>2 DEF StartScheduler, WorkerLoop, SpuriousWakeup,
                      TakeExecutionLock, vars, queueVars
  <2>3. CASE \/ \E o \in {"stop", "detach", "destroy", "stopScheduler"} : AppCall(o)
             \/ SuspendLockEx \/ SuspendLockOut \/ StopRunning
             \/ ResumeUnlockEx \/ ResumeLockOut \/ StopNotify \/ Join
    BY <1>1, <2>3 DEF AppCall, SuspendLockEx, SuspendLockOut, StopRunning,
                      ResumeUnlockEx, ResumeLockOut, StopNotify, Join,
                      queueVars, AppVarsRest
  <2>4. CASE \/ \E c \in Callers, n \in Names : ScheduleTaskAdmit(c, n)
             \/ \E st \in States : SetState(st)
    BY <1>1, <2>4 DEF ScheduleTaskAdmit, SetState, queueVars
  <2> QED
    BY <1>2, <1>3, <1>5, <1>6, <1>7, <2>1, <2>2, <2>3, <2>4
    DEF Next, WorkerStep, AppStep, CallerStep

(* A task that RemoveTask, RemoveAllTasks or a newer SetRate took out of   *)
(* the queue is not executing, although the worker gives up mQMutex        *)
(* between seeing a task and taking it: the comment of ExecuteAsyncTask on *)
(* a task "that cannot be deleted by RemoveAllTasks()" holds of the code.  *)
THEOREM RemovedStaysRemoved == Spec => []RemovedNeverRuns
<1>1. Init => FifoInv
  BY EmptySeq, SchedulerAssumption DEF Init, FifoInv, FirstInFirstRun
<1>2. Init => RemovedInv
  BY EmptySeq DEF Init, RemovedInv, RemovedNeverRuns
<1>3. RemovedInv => RemovedNeverRuns
  BY DEF RemovedInv
<1> QED
  BY <1>1, <1>2, <1>3, TypeInit, TypeStep, FifoStep, RemovedStep, PTL DEF Spec

------------------------------------------------------------------------------
(* Nobody sleeps through what he waits for.                                *)
WakeInv ==
  /\ worker = "waiting" => mTaskQueue = <<>>
  /\ app = "new" => op = None
  /\ op = "stopScheduler" /\ app # "stopRunning" => ~mSchedulerRunning
  /\ app \in {"notify", "join", "gone"} => op = "stopScheduler"
  /\ app \in {"join", "gone"} => worker # "waiting"

LEMMA WakeStep == TypeOK /\ WakeInv /\ [Next]_vars => WakeInv'
<1> SUFFICES ASSUME TypeOK, WakeInv, [Next]_vars PROVE WakeInv' OBVIOUS
<1> USE DEF WakeInv, None
<1>1. CASE StartScheduler
  BY <1>1 DEF StartScheduler, queueVars
<1>2. CASE WorkerLoop \/ SpuriousWakeup \/ TakeExecutionLock \/ FinishTask
  BY <1>2 DEF WorkerLoop, SpuriousWakeup, TakeExecutionLock, FinishTask, queueVars, appVars
<1>3. CASE Dequeue
  BY <1>3 DEF Dequeue, appVars
<1>4. ASSUME NEW o \in {"stop", "detach", "destroy", "stopScheduler"}, AppCall(o)
      PROVE  WakeInv'
  BY <1>4 DEF AppCall, queueVars, AppVarsRest
<1>5. CASE SuspendLockEx \/ SuspendLockOut \/ RemoveAllTasks
  BY <1>5 DEF SuspendLockEx, SuspendLockOut, RemoveAllTasks, queueVars, AppVarsRest
<1>6. CASE StopRunning \/ ResumeUnlockEx \/ ResumeLockOut
  BY <1>6 DEF StopRunning, ResumeUnlockEx, ResumeLockOut, queueVars, AppVarsRest
<1>7. CASE StopNotify \/ Join
  BY <1>7 DEF StopNotify, Join, NotifyWorker, queueVars, AppVarsRest
<1>8. ASSUME NEW c \in Callers, ScheduleTask(c) PROVE WakeInv'
  BY <1>8 DEF ScheduleTask, NotifyWorker, queueVars, appVars
<1>9. ASSUME NEW i \in 1 .. MaxTaskId, RemoveTask(i) PROVE WakeInv'
  <2>1. mTaskQueue # <<>>
    <3>1. mTaskQueue \in Seq(Task) /\ mTaskQueue' = WithoutId(mTaskQueue, i)
          /\ mTaskQueue' # mTaskQueue
      BY <1>9 DEF RemoveTask, TypeOK
    <3>2. \E k \in 1 .. Len(mTaskQueue) : TRUE
      BY <3>1, RemoveTaskCases
    <3> QED BY <3>2
  <2> QED BY <1>9, <2>1 DEF RemoveTask, appVars
<1>10. CASE \/ \E c \in Callers, n \in Names : ScheduleTaskAdmit(c, n)
            \/ UNCHANGED vars \/ \E s \in States : SetState(s)
  BY <1>10 DEF ScheduleTaskAdmit, SetState, queueVars, appVars, vars
<1> QED
  BY <1>1, <1>2, <1>3, <1>4, <1>5, <1>6, <1>7, <1>8, <1>9, <1>10
  DEF Next, WorkerStep, AppStep, CallerStep

(* Whoever waits waits for a thread that goes on: the worker sleeps only   *)
(* while nothing is queued and nobody joins it, the application waits for  *)
(* mExMutex only while the worker is between taking and releasing it, the  *)
(* worker only while a suspending call is past its wait, and join only for *)
(* a worker that will find mSchedulerRunning cleared.                      *)
NobodyStuck ==
  /\ worker = "waiting" => mTaskQueue = <<>> /\ app # "join"
  /\ worker = "wantEx" /\ exOwner # None => AppHoldsEx
  /\ app = "lockEx" /\ exOwner # None => worker \in {"haveEx", "executing"}
  /\ app = "join" => ~mSchedulerRunning /\ worker # "notStarted"

(* No notification of mQCond is lost and the two mutexes close no circle,  *)
(* although the wait has no predicate and StopScheduler clears its flag    *)
(* without mQMutex: the part of QueueDrains and StopReturns that does not  *)
(* depend on fairness.                                                     *)
THEOREM NoWaitIsForever == Spec => []NobodyStuck
<1>1. Init => LockInv /\ WakeInv
  BY DEF Init, LockInv, WakeInv, AppHoldsEx, AppLockedOut, Quiescing, None
<1>2. TypeOK /\ LockInv /\ WakeInv => NobodyStuck
  BY DEF TypeOK, LockInv, WakeInv, NobodyStuck, AppHoldsEx, None
<1> QED
  BY <1>1, <1>2, TypeInit, TypeStep, LockStep, WakeStep, PTL DEF Spec
=============================================================================
