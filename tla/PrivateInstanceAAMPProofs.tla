--------------------- MODULE PrivateInstanceAAMPProofs ---------------------
(***************************************************************************)
(* Proofs about PrivateInstanceAAMP, for the player whose callbacks come   *)
(* on the thread that calls the API (a JavaScript application) and whose   *)
(* collector reports none of the errors that only the sink reports.        *)
(***************************************************************************)
EXTENDS PrivateInstanceAAMP, Integers, SequenceTheorems, WellFoundedInduction,
        TLAPS

OneLoop == Loop = App
SinkOnly == CollectorErrors \cap {"VIDEO_BUFFERING", "PIPELINE_INTERNAL"} = {}

(* Where a thread can be.                                                  *)
TeardownSteps == {"teardown", "waitDisco", "discoDone", "stopStream", "join", "stopSink"}
BuiltSteps    == {"init", "start", "started", "prepared", "unlock"}
StopSteps     == {"stopping", "stopRetune", "waitRetune", "retuneDone", "stopDownloads",
                  "stopIdle"} \union TeardownSteps
TuneSteps     == {"lockStream", "create", "speed", "retuned"}
                   \union TeardownSteps \union BuiltSteps
DiscoSteps    == {"disco", "seenInAll", "claim", "claimed", "gate", "report", "reported",
                  "reconfigure", "release", "processed", "interrupted"}
ReportSteps   == {"srDisco", "srRetune", "srTrick"}
TaskOps       == {"Tune", "Seek", "SetRate", "Retune", "ProcessDiscontinuity"}

(* What a thread can be in the middle of.                                  *)
InOperation(c) ==
  \/ c = Idle
  \/ c.tune = None /\ c.at = "entry" /\ c.op \in TaskOps
  \/ c.tune = None /\ c.at \in StopSteps /\ c.op \in {"Stop", "Tune"}
  \/ c.tune = None /\ c.at \in {"suspend", "resume"} /\ c.op = "Stop"
  \/ c.tune = None /\ c.at \in DiscoSteps /\ c.op \in {"ProcessDiscontinuity", "NotifyEOSReached"}
  \/ c.tune = None /\ c.at = "firstFrame" /\ c.op = "NotifyFirstFrameReceived"
  \/ c.tune = None /\ c.at \in ReportSteps /\ c.op = "ScheduleRetune"
  \/ c.tune = "NEW" /\ c.at \in TuneSteps /\ c.op = "Tune"
  \/ c.tune = "RETUNE" /\ c.at \in TuneSteps /\ c.op = "Retune"
  \/ c.tune \in {"SEEK", "SEEKTOLIVE"} /\ c.at \in TuneSteps
       /\ c.op \in {"Seek", "SetRate", "NotifyEOSReached"}

Ops   == TaskOps \union {"none", "Stop", "NotifyEOSReached", "NotifyFirstFrameReceived",
                         "ScheduleRetune"}
Steps == {"idle", "entry", "suspend", "resume", "firstFrame"}
           \union StopSteps \union TuneSteps \union DiscoSteps \union ReportSteps
Args  == {"none", "stop", "skip", "pause", "normal", "trick"} \union ErrorTypes
Calls == [op : Ops, at : Steps, tune : TuneTypes \union {None}, arg : Args]

(* ... and which thread may be in the middle of what: of the API only the  *)
(* synchronous one runs on App, except for Stop and the Seek of a player   *)
(* that is idle.                                                           *)
ApiOps   == {"Tune", "Seek", "SetRate"}
AppOps   == {"none", "Stop", "Seek", "NotifyEOSReached", "NotifyFirstFrameReceived",
             "ScheduleRetune"} \union (IF mAsyncTuneEnabled THEN {} ELSE ApiOps)
SchedOps == {"Retune", "ProcessDiscontinuity"} \union
            (IF mAsyncTuneEnabled THEN ApiOps ELSE {})
QueueOf(ops) == Seq([op : ops, arg : Args, id : Nat])

ThreadInv ==
  /\ thread \in [Threads -> Calls]
  /\ \A t \in Threads : InOperation(thread[t])
  /\ thread[App].op \in AppOps
  /\ thread[Sched].op \in SchedOps \union {"none"}
  /\ thread[Collector].op \in {"none", "ScheduleRetune"}
  /\ tasks \in QueueOf(SchedOps)
  /\ lastTask \in Nat

(* PlayerInstanceAAMP::Stop between SuspendScheduler and ResumeScheduler.  *)
StopRuns == thread[App].op = "Stop" /\ ~At(App, "suspend")

SuspendInv ==
  /\ suspended <=> StopRuns
  /\ suspended => IsIdle(Sched) /\ tasks = <<>>

(* The thread that has mStreamLock.                                        *)
InStream(t) ==
  \/ At(t, "join")
  \/ thread[t].tune # None /\ thread[t].at \in TeardownSteps \union BuiltSteps \union {"create"}

LockInv == \A t \in Threads : InStream(t) <=> mStreamLock = t

(* A stream there is while its sink, its collector or its TuneHelper runs. *)
StreamInv ==
  /\ pipeline # "stopped" => mpStreamAbstractionAAMP
  /\ ~IsIdle(Collector) => mpStreamAbstractionAAMP
  /\ \A t \in Threads :
       thread[t].tune # None /\ thread[t].at \in BuiltSteps => mpStreamAbstractionAAMP

(* The tail of an operation is its own.                                    *)
TailInv == \A t \in Threads :
  /\ At(t, "retuned") => thread[t].op = "Retune"
  /\ At(t, "speed") => thread[t].op # "Retune"
  /\ At(t, "prepared") => thread[t].tune = "NEW"

(* A retune runs on the scheduler's thread only.  A Tune that has waited   *)
(* for it finds nothing that could start another one.                      *)
Rebuilt(t) == thread[t].at \in BuiltSteps \union {"stopSink", "create", "retuned"}

RetuneInv ==
  /\ mIsRetuneInProgress <=> thread[Sched].tune = "RETUNE"
  /\ \A t \in Threads : At(t, "waitRetune") \/ At(t, "retuneDone") => t = App
  /\ At(App, "waitRetune") => mIsRetuneInProgress
  /\ At(App, "stopRetune") \/ At(App, "waitRetune") \/ At(App, "retuneDone") =>
       mState \in {"STOPPING", "ERROR"}
  /\ mIsRetuneInProgress /\ Rebuilt(Sched) => IsIdle(Collector)
  /\ At(App, "retuneDone") => ~reTune /\ IsIdle(Collector)
  /\ mIsRetuneInProgress => reTune
  /\ ~At(Collector, "srTrick")

(* An idle player has no stream and nothing that will give it one, unless  *)
(* a Tune is about to create its own.                                      *)
NewPending == \E t \in Threads :
  thread[t].tune = "NEW" /\ thread[t].at \in TeardownSteps \union {"lockStream", "create"}

Calm ==
  /\ ~mpStreamAbstractionAAMP
  /\ ~mSeekOperationInProgress
  /\ \A t \in Threads :
       /\ thread[t].tune = None
       /\ \/ thread[t].at \in {"idle", "suspend", "resume"}
          \/ At(t, "entry") /\ thread[t].op \in ApiOps
          \/ t = App /\ thread[t].op = "Stop"
  /\ tasks \in QueueOf(ApiOps)

IdleInv ==
  /\ mState = "IDLE" => NewPending \/ Calm
  /\ suspended /\ thread[App].at \in {"stopSink", "stopIdle"} =>
       ~mpStreamAbstractionAAMP

------------------------------------------------------------------------------
(* The queue of the scheduler.                                             *)

(* A non-empty set of indices has a least one, so Min is well defined.     *)
LEMMA MinOfIndices ==
  ASSUME NEW I \in SUBSET Nat, I # {}
  PROVE  Min(I) \in I
<1> DEFINE R == {ss \in Nat \X Nat : ss[1] < ss[2]}
<1>1. IsWellFoundedOn(R, Nat)
  BY NatLessThanWellFounded, Zenon DEF OpToRel
<1> HIDE DEF R
<1>2. PICK x \in I : \A y \in I : ~ (<<y, x>> \in R)
  BY <1>1, WFMin
<1>3. \A y \in I : x =< y
  <2>1. \A y \in I : x \in Nat /\ y \in Nat /\ ~(y < x)
    BY <1>2 DEF R
  <2> QED BY <2>1
<1> QED BY <1>3 DEF Min

(* Erasing one element of a sequence leaves a sequence.                    *)
LEMMA RemoveAtType ==
  ASSUME NEW S, NEW s \in Seq(S), NEW k \in 1 .. Len(s)
  PROVE  RemoveAt(s, k) \in Seq(S)
<1>1. SubSeq(s, 1, k - 1) \in Seq(S) /\ SubSeq(s, k + 1, Len(s)) \in Seq(S)
  OBVIOUS
<1> QED BY <1>1, ConcatProperties DEF RemoveAt

LEMMA ErasedQueue ==
  ASSUME NEW S, tasks \in Seq(S), NEW id
  PROVE  /\ RemoveFirstMatch(tasks, IsSetRate) \in Seq(S)
         /\ RemoveTask(id) \in Seq(S)
<1>1. RemoveFirstMatch(tasks, IsSetRate) \in Seq(S)
  <2> DEFINE I == {i \in 1 .. Len(tasks) : IsSetRate(tasks[i])}
  <2>1. CASE I # {}
    <3>0. I \in SUBSET Nat
      OBVIOUS
    <3>1. Min(I) \in I
      BY <2>1, <3>0, MinOfIndices
    <3>2. RemoveFirstMatch(tasks, IsSetRate) = RemoveAt(tasks, Min(I))
      BY <2>1 DEF RemoveFirstMatch, SelectInSeq
    <3> QED BY <3>1, <3>2, RemoveAtType
  <2>2. CASE I = {}
    BY <2>2 DEF RemoveFirstMatch
  <2> QED BY <2>1, <2>2
<1>2. RemoveTask(id) \in Seq(S)
  <2> DEFINE I == {i \in 1 .. Len(tasks) : tasks[i].id = id}
  <2>1. CASE I # {}
    <3>0. I \in SUBSET Nat
      OBVIOUS
    <3>1. Min(I) \in I
      BY <2>1, <3>0, MinOfIndices
    <3>2. RemoveTask(id) = RemoveAt(tasks, Min(I))
      BY <2>1 DEF RemoveTask, RemoveFirstMatch, SelectInSeq
    <3> QED BY <3>1, <3>2, RemoveAtType
  <2>2. CASE I = {}
    BY <2>2 DEF RemoveTask, RemoveFirstMatch
  <2> QED BY <2>1, <2>2
<1> QED BY <1>1, <1>2

LEMMA PoppedQueue ==
  ASSUME NEW ops, tasks \in QueueOf(ops), tasks # <<>>
  PROVE  /\ Head(tasks).op \in ops /\ Head(tasks).arg \in Args
         /\ Tail(tasks) \in QueueOf(ops)
<1> DEFINE S == [op : ops, arg : Args, id : Nat]
<1>1. tasks \in Seq(S)
  BY DEF QueueOf
<1>2. Head(tasks) \in S /\ Tail(tasks) \in Seq(S)
  <2> HIDE DEF S
  <2> QED BY <1>1
<1> QED BY <1>2 DEF QueueOf

(* A task is queued as what it is, or refused.                             *)
LEMMA ScheduledQueue ==
  ASSUME NEW ops, tasks \in QueueOf(ops), NEW op \in ops, NEW arg \in Args,
         lastTask \in Nat, ScheduleTask(op, arg)
  PROVE  /\ tasks' \in QueueOf(ops) /\ lastTask' \in Nat
         /\ UNCHANGED suspended /\ suspended => UNCHANGED tasks
<1> DEFINE id == IF op = "ProcessDiscontinuity" THEN lastTask + 1 ELSE 0
           q  == IF op = "SetRate" THEN RemoveFirstMatch(tasks, IsSetRate) ELSE tasks
           new == [op |-> op, arg |-> arg, id |-> id]
<1>1. CASE Refuses
  BY <1>1 DEF ScheduleTask, schedVars
<1>2. CASE ~Refuses
  <2>1. q \in QueueOf(ops)
    BY ErasedQueue DEF QueueOf
  <2>2. new \in [op : ops, arg : Args, id : Nat]
    OBVIOUS
  <2>3. tasks' = Append(q, new) /\ lastTask' \in Nat /\ UNCHANGED suspended
    BY <1>2 DEF ScheduleTask
  <2> HIDE DEF q, new
  <2> QED BY <1>2, <2>1, <2>2, <2>3 DEF QueueOf, Refuses
<1> QED BY <1>1, <1>2

------------------------------------------------------------------------------
(* Where the threads are.                                                  *)
LEMMA ThreadFrame ==
  ASSUME ThreadInv, UNCHANGED <<schedVars, mAsyncTuneEnabled>>,
         NEW t \in Threads, NEW c \in Calls, thread' = [thread EXCEPT ![t] = c],
         InOperation(c), c.op \in {thread[t].op, "none"}
  PROVE  ThreadInv'
<1>1. \A u \in Threads : thread'[u] = IF u = t THEN c ELSE thread[u]
  BY DEF ThreadInv
<1>2. thread' \in [Threads -> Calls] /\ \A u \in Threads : InOperation(thread'[u])
  BY <1>1 DEF ThreadInv
<1>3. AppOps' = AppOps /\ SchedOps' = SchedOps
  BY DEF AppOps, SchedOps
<1>4. {App, Sched, Collector} \subseteq Threads
  BY DEF Threads
<1> QED BY <1>1, <1>2, <1>3, <1>4 DEF ThreadInv, AppOps, schedVars

(* The three ways in which a thread goes on.                               *)
LEMMA GotoFrame ==
  ASSUME ThreadInv, UNCHANGED <<schedVars, mAsyncTuneEnabled>>,
         NEW t \in Threads, NEW label \in Steps, Goto(t, label),
         InOperation([thread[t] EXCEPT !.at = label])
  PROVE  ThreadInv'
<1> DEFINE c == [thread[t] EXCEPT !.at = label]
<1>1. thread[t] \in Calls
  BY DEF ThreadInv
<1>2. c \in Calls /\ c.op = thread[t].op
  BY <1>1 DEF Calls
<1>3. thread' = [thread EXCEPT ![t] = c]
  BY DEF Goto
<1> HIDE DEF c
<1> QED BY <1>2, <1>3, ThreadFrame DEF c

LEMMA IdleCall == Idle \in Calls /\ Idle.op = "none" /\ Idle.at = "idle" /\ Idle.tune = None
  BY DEF Idle, Calls, Ops, Steps, Args

LEMMA ReturnFrame ==
  ASSUME ThreadInv, UNCHANGED <<schedVars, mAsyncTuneEnabled>>,
         NEW t \in Threads, Return(t)
  PROVE  ThreadInv'
<1>1. InOperation(Idle)
  BY DEF InOperation
<1> QED BY <1>1, IdleCall, ThreadFrame DEF Return

LEMMA TuneFrame ==
  ASSUME ThreadInv, UNCHANGED <<schedVars, mAsyncTuneEnabled>>,
         NEW t \in Threads, NEW type \in TuneTypes, TuneHelper(t, type),
         \/ type = "NEW" /\ thread[t].op = "Tune"
         \/ type = "RETUNE" /\ thread[t].op = "Retune"
         \/ type = "SEEK" /\ thread[t].op \in {"Seek", "SetRate"}
  PROVE  ThreadInv'
<1> DEFINE c == [thread[t] EXCEPT !.tune = type, !.at = "lockStream"]
<1>1. thread[t] \in Calls
  BY DEF ThreadInv
<1>2. c \in Calls /\ c.op = thread[t].op /\ c.tune = type /\ c.at = "lockStream"
  BY <1>1 DEF Calls, Steps, TuneSteps
<1>3. thread' = [thread EXCEPT ![t] = c]
  BY DEF TuneHelper
<1> HIDE DEF c
<1>4. InOperation(c)
  BY <1>2 DEF InOperation, TuneSteps
<1> QED BY <1>2, <1>3, <1>4, ThreadFrame

LEMMA WakeFrame ==
  ASSUME ThreadInv, UNCHANGED <<schedVars, mAsyncTuneEnabled>>,
         NEW t \in Threads, NEW w \in Threads, NEW label \in Steps, t # w,
         Wake(t, Idle, w, label), InOperation([thread[w] EXCEPT !.at = label])
  PROVE  ThreadInv'
<1> DEFINE c == [thread[w] EXCEPT !.at = label]
<1>1. thread[w] \in Calls
  BY DEF ThreadInv
<1>2. c \in Calls /\ c.op = thread[w].op
  BY <1>1 DEF Calls
<1>3. \A u \in Threads : thread'[u] = IF u = t THEN Idle ELSE IF u = w THEN c ELSE thread[u]
  BY DEF Wake, ThreadInv
<1>4. InOperation(Idle)
  BY DEF InOperation
<1>5. thread' \in [Threads -> Calls]
  BY <1>2, IdleCall DEF Wake, ThreadInv
<1>6. AppOps' = AppOps /\ SchedOps' = SchedOps /\ {App, Sched, Collector} \subseteq Threads
  BY DEF AppOps, SchedOps, Threads
<1> HIDE DEF c
<1>7. \A u \in Threads : InOperation(thread'[u])
  BY <1>3, <1>4 DEF ThreadInv, c
<1> QED BY <1>2, <1>3, <1>5, <1>6, <1>7, IdleCall DEF ThreadInv, AppOps, schedVars

(* A thread stays within its operation.                                    *)
LEMMA WithinOperation ==
  ASSUME NEW c \in Calls, InOperation(c), NEW label \in Steps,
         \/ c.at \in StopSteps \ TeardownSteps /\ label \in StopSteps
         \/ c.at \in TeardownSteps /\ label \in TeardownSteps
         \/ c.at \in TeardownSteps /\ c.tune = None /\ label \in StopSteps
         \/ c.at \in TeardownSteps /\ c.tune # None /\ label \in TuneSteps
         \/ c.at \in TuneSteps \ TeardownSteps /\ label \in TuneSteps
         \/ c.at \in DiscoSteps /\ label \in DiscoSteps
         \/ c.at = "entry" /\ c.op = "ProcessDiscontinuity" /\ label \in DiscoSteps
         \/ c.at \in ReportSteps /\ label \in ReportSteps
         \/ c.at = "entry" /\ c.op = "Tune" /\ label \in StopSteps
         \/ c.at = "suspend" /\ label \in StopSteps \union {"resume"}
  PROVE  InOperation([c EXCEPT !.at = label])
<1> USE DEF InOperation, Idle, Calls, StopSteps, TuneSteps, TeardownSteps, BuiltSteps,
       DiscoSteps, ReportSteps
<1> DEFINE d == [c EXCEPT !.at = label]
<1>1. d.at = label /\ d.op = c.op /\ d.tune = c.tune
  OBVIOUS
<1>2. d.at # "idle" /\ c # Idle
  OBVIOUS
<1> HIDE DEF d
<1>3. InOperation(d)
  BY <1>1, <1>2, PlayerAssumption DEF TuneTypes
<1> QED BY <1>3 DEF d

(* What a step says of the operation it belongs to ...                     *)
LEMMA OperationOf ==
  ASSUME NEW c \in Calls, InOperation(c)
  PROVE  /\ c.op = "none" <=> c = Idle
         /\ c.at = "idle" <=> c = Idle
         /\ c.at = "entry" => c.tune = None /\ c.op \in TaskOps
         /\ c.at \in StopSteps \ TeardownSteps => c.tune = None
         /\ c.at \in StopSteps /\ c.tune = None => c.op \in {"Stop", "Tune"}
         /\ c.at \in {"suspend", "resume"} => c.tune = None /\ c.op = "Stop"
         /\ c.op = "Stop" => c.at \in StopSteps \union {"suspend", "resume"}
         /\ c.at \in DiscoSteps => /\ c.tune = None
                                   /\ c.op \in {"ProcessDiscontinuity", "NotifyEOSReached"}
         /\ c.at = "firstFrame" => c.tune = None /\ c.op = "NotifyFirstFrameReceived"
         /\ c.at \in ReportSteps => c.tune = None
         /\ c.op = "ScheduleRetune" <=> c.at \in ReportSteps
         /\ c.at \in TuneSteps \ TeardownSteps => c.tune # None
<1> USE DEF InOperation, Idle, StopSteps, TuneSteps, TeardownSteps, BuiltSteps,
       DiscoSteps, ReportSteps, TaskOps
<1>1. CASE c = Idle
  BY <1>1
<1>2. CASE c # Idle
  BY <1>2, PlayerAssumption DEF TuneTypes
<1> QED BY <1>1, <1>2

LEMMA TuneOf ==
  ASSUME NEW c \in Calls, InOperation(c)
  PROVE  /\ c.tune # None => c.at \in TuneSteps
         /\ c.tune = "NEW" => c.op = "Tune"
         /\ c.tune = "RETUNE" => c.op = "Retune"
         /\ c.tune \in {"SEEK", "SEEKTOLIVE"} => c.op \in {"Seek", "SetRate", "NotifyEOSReached"}
         /\ c.op = "Retune" /\ c.at # "entry" => c.tune = "RETUNE"
         /\ c.op \in {"Stop", "ScheduleRetune", "ProcessDiscontinuity"} => c.tune = None
  BY PlayerAssumption DEF InOperation, Idle, StopSteps, TeardownSteps, DiscoSteps,
     ReportSteps, TaskOps, TuneTypes

(* ... and of the thread.                                                  *)
LEMMA ThreadOf ==
  ASSUME OneLoop, ThreadInv, NEW t \in Threads
  PROVE  /\ thread[t] \in Calls /\ InOperation(thread[t])
         /\ t \in {App, Sched, Collector}
         /\ thread[t].op \in {"Stop", "NotifyEOSReached", "NotifyFirstFrameReceived"} => t = App
         /\ thread[t].op \in {"Retune", "ProcessDiscontinuity"} => t = Sched
         /\ t = Collector => IsIdle(t) \/ thread[t].at \in ReportSteps
         /\ t = App => thread[t].op \in AppOps
         /\ t = Sched /\ ~IsIdle(t) => thread[t].op \in SchedOps
         /\ t # Collector /\ thread[t].op = "ScheduleRetune" => t = App
         /\ thread[t].op \in {"Tune", "SetRate"} => t = IF mAsyncTuneEnabled THEN Sched ELSE App
<1>1. thread[t] \in Calls /\ InOperation(thread[t])
  BY DEF ThreadInv
<1>2. t \in {App, Sched, Collector}
  BY DEF Threads, OneLoop
<1>3. /\ thread[t].op = "none" <=> thread[t] = Idle
      /\ thread[t].op = "ScheduleRetune" <=> thread[t].at \in ReportSteps
  BY <1>1, OperationOf
<1> QED BY <1>1, <1>2, <1>3, PlayerAssumption
        DEF ThreadInv, AppOps, SchedOps, ApiOps, IsIdle

(* A thread enters an operation that is its own.                           *)
LEMMA EnterFrame ==
  ASSUME ThreadInv, UNCHANGED mAsyncTuneEnabled, tasks' \in QueueOf(SchedOps),
         lastTask' \in Nat, NEW t \in Threads, NEW c \in Calls,
         thread' = [thread EXCEPT ![t] = c], InOperation(c),
         \/ t = App /\ c.op \in AppOps
         \/ t = Sched /\ c.op \in SchedOps
         \/ t = Collector /\ c.op = "ScheduleRetune"
  PROVE  ThreadInv'
<1>1. \A u \in Threads : thread'[u] = IF u = t THEN c ELSE thread[u]
  BY DEF ThreadInv
<1>2. thread' \in [Threads -> Calls] /\ \A u \in Threads : InOperation(thread'[u])
  BY <1>1 DEF ThreadInv
<1>3. AppOps' = AppOps /\ SchedOps' = SchedOps
  BY DEF AppOps, SchedOps
<1>4. {App, Sched, Collector} \subseteq Threads
  BY DEF Threads
<1> QED BY <1>1, <1>2, <1>3, <1>4, PlayerAssumption DEF ThreadInv

LEMMA QueueFrame ==
  ASSUME ThreadInv, UNCHANGED <<thread, mAsyncTuneEnabled>>, tasks' \in QueueOf(SchedOps),
         lastTask' \in Nat
  PROVE  ThreadInv'
  BY DEF ThreadInv, AppOps, SchedOps

LEMMA ThreadStep ==
  ASSUME OneLoop PROVE ThreadInv /\ SuspendInv /\ [Next]_vars => ThreadInv'
<1> SUFFICES ASSUME ThreadInv, SuspendInv, [Next]_vars PROVE ThreadInv' OBVIOUS
<1> USE DEF At, Entering
<1>0. \A t \in Threads : thread[t] \in Calls /\ InOperation(thread[t])
  BY DEF ThreadInv
<1>l. \A l \in StopSteps \union TuneSteps \union DiscoSteps \union ReportSteps : l \in Steps
  BY DEF Steps
<1>1. ASSUME NEW t \in Threads, Stopping(t) PROVE ThreadInv'
  <2>1. UNCHANGED <<schedVars, mAsyncTuneEnabled>>
    BY <1>1 DEF Stopping, StopState, StopRetune, StopDownloadsAgain, StopIdle, envVars
  <2>2. CASE thread[t].op = "Tune" /\ TuneHelper(t, "NEW")
    BY <2>1, <2>2, TuneFrame DEF TuneTypes
  <2>3. ASSUME NEW label \in {"stopRetune", "waitRetune", "stopDownloads", "teardown"},
               Goto(t, label),
               thread[t].at \in {"stopping", "stopRetune", "retuneDone", "stopDownloads"}
        PROVE  ThreadInv'
    <3>1. InOperation([thread[t] EXCEPT !.at = label])
      BY <1>0, <1>l, <2>3, WithinOperation DEF StopSteps, TeardownSteps
    <3> QED BY <1>l, <2>1, <2>3, <3>1, GotoFrame DEF StopSteps, TeardownSteps
  <2>4. CASE StopIdle(t) /\ thread[t].op # "Tune"
    <3>1. Goto(t, "resume") /\ thread[t].at = "stopIdle"
      BY <2>4 DEF StopIdle
    <3>2. thread[t].op = "Stop" /\ thread[t].tune = None
      BY <1>0, <2>4, <3>1, OperationOf DEF StopSteps, TeardownSteps
    <3>3. InOperation([thread[t] EXCEPT !.at = "resume"])
      BY <1>0, <3>2 DEF InOperation, Calls
    <3> QED BY <2>1, <3>1, <3>3, GotoFrame DEF Steps
  <2> QED BY <1>1, <2>2, <2>3, <2>4
          DEF Stopping, StopState, StopRetune, StopDownloadsAgain, StopIdle
<1>2. ASSUME NEW t \in Threads, Tearing(t) PROVE ThreadInv'
  <2>1. UNCHANGED <<lastTask, mAsyncTuneEnabled>>
    BY <1>2 DEF Tearing, TeardownStream, AfterDiscontinuity, StopStream, JoinStream, StopSink,
                envVars, schedVars
  <2>2. thread[t].at \in TeardownSteps
    BY <1>2 DEF Tearing, TeardownStream, AfterDiscontinuity, StopStream, JoinStream, StopSink,
                TeardownSteps
  <2>3. PICK label \in Steps :
          /\ Goto(t, label)
          /\ \/ label \in TeardownSteps
             \/ thread[t].tune = None /\ label = "stopIdle"
             \/ thread[t].tune # None /\ label = "create"
    BY <1>2, <1>l DEF Tearing, TeardownStream, AfterDiscontinuity, StopStream, JoinStream,
                      StopSink, TeardownSteps, StopSteps, TuneSteps
  <2>4. InOperation([thread[t] EXCEPT !.at = label])
    BY <1>0, <2>2, <2>3, WithinOperation DEF StopSteps, TuneSteps
  <2>5. CASE UNCHANGED schedVars
    BY <2>1, <2>3, <2>4, <2>5, GotoFrame
  <2>6. CASE ~ UNCHANGED schedVars
    <3> DEFINE c == [thread[t] EXCEPT !.at = label]
    <3>1. \E id : tasks' = RemoveTask(id)
      BY <1>2, <2>6 DEF Tearing, TeardownStream, AfterDiscontinuity, StopStream, JoinStream,
                        StopSink, schedVars
    <3>2. tasks' \in QueueOf(SchedOps) /\ lastTask' \in Nat
      BY <2>1, <3>1, ErasedQueue DEF ThreadInv, QueueOf
    <3>3. c \in Calls /\ c.op = thread[t].op /\ thread' = [thread EXCEPT ![t] = c]
      BY <1>0, <2>3 DEF Calls, Goto
    <3>4. \/ t = App /\ c.op \in AppOps
          \/ t = Sched /\ c.op \in SchedOps
      <4>1. t # Collector /\ ~IsIdle(t)
        BY <1>0, <2>2, ThreadOf, OperationOf DEF TeardownSteps, ReportSteps, IsIdle
      <4> QED BY <3>3, <4>1, ThreadOf
    <3> HIDE DEF c
    <3> QED BY <2>1, <2>4, <3>2, <3>3, <3>4, EnterFrame DEF c
  <2> QED BY <2>5, <2>6
<1>3. ASSUME NEW t \in Threads, Tuning(t) PROVE ThreadInv'
  <2> USE DEF Tuning
  <2>1. UNCHANGED <<schedVars, mAsyncTuneEnabled>>
    BY <1>3 DEF TuneInternal, SeekInternal, AtLivePoint, SetRateInternal, IgnoreTrickPlay, Retune, LockStream,
       CreateStream, InitStream, InitFails, SeekRangeError, StartStream, StreamStarted,
       StreamPrepared, UnlockStream, NotifySpeedChanged, RetuneDone, envVars
  <2>2. CASE TuneInternal(t)
    <3>1. CASE TuneHelper(t, "NEW")
      BY <2>1, <2>2, <3>1, TuneFrame DEF TuneInternal, TuneTypes
    <3>2. CASE Goto(t, "stopping")
      <4>1. InOperation([thread[t] EXCEPT !.at = "stopping"])
        BY <1>0, <1>l, <2>2, WithinOperation DEF TuneInternal, StopSteps
      <4> QED BY <1>l, <2>1, <3>2, <4>1, GotoFrame DEF StopSteps
    <3> QED BY <2>2, <3>1, <3>2 DEF TuneInternal
  <2>3. CASE SeekInternal(t) \/ AtLivePoint(t) \/ SetRateInternal(t) \/ IgnoreTrickPlay(t)
    <3>1. \/ Return(t)
          \/ TuneHelper(t, "SEEK") /\ thread[t].op \in {"Seek", "SetRate"}
      BY <2>3 DEF SeekInternal, AtLivePoint, SetRateInternal, IgnoreTrickPlay
    <3> QED BY <2>1, <3>1, ReturnFrame, TuneFrame DEF TuneTypes
  <2>4. CASE Retune(t)
    <3>1. \/ Return(t)
          \/ TuneHelper(t, "RETUNE") /\ thread[t].op = "Retune"
      BY <2>4 DEF Retune
    <3> QED BY <2>1, <3>1, ReturnFrame, TuneFrame DEF TuneTypes
  <2>5. ASSUME NEW label \in TuneSteps, Goto(t, label), thread[t].at \in TuneSteps \ TeardownSteps
        PROVE  ThreadInv'
    <3>1. InOperation([thread[t] EXCEPT !.at = label])
      BY <1>0, <1>l, <2>5, WithinOperation
    <3> QED BY <1>l, <2>1, <2>5, <3>1, GotoFrame
  <2>6. CASE \/ LockStream(t) \/ CreateStream(t) \/ InitStream(t) \/ InitFails(t)
             \/ StartStream(t) \/ StreamStarted(t) \/ StreamPrepared(t)
    BY <2>5, <2>6 DEF LockStream, CreateStream, InitStream, InitFails, StartStream, StreamStarted,
                      StreamPrepared, TuneSteps, TeardownSteps, BuiltSteps
  <2>7. CASE UnlockStream(t) \/ NotifySpeedChanged(t)
    BY <2>1, <2>5, <2>7, ReturnFrame
    DEF UnlockStream, NotifySpeedChanged, TuneSteps, TeardownSteps, BuiltSteps
  <2>8. CASE SeekRangeError(t)
    <3>1. CASE Goto(t, "unlock")
      BY <2>5, <2>8, <3>1 DEF SeekRangeError, TuneSteps, TeardownSteps, BuiltSteps
    <3>2. CASE thread' = [thread EXCEPT ![t].tune = "SEEKTOLIVE", ![t].at = "teardown"]
      <4> DEFINE c == [thread[t] EXCEPT !.tune = "SEEKTOLIVE", !.at = "teardown"]
      <4>1. c \in Calls /\ c.op = thread[t].op /\ c.tune = "SEEKTOLIVE" /\ c.at = "teardown"
        BY <1>0 DEF Calls, Steps, TuneSteps, TeardownSteps, TuneTypes
      <4>2. thread' = [thread EXCEPT ![t] = c]
        BY <3>2
      <4> HIDE DEF c
      <4>3. InOperation(c)
        BY <1>0, <2>8, <4>1, TuneOf DEF SeekRangeError, IsSeek, InOperation, TuneSteps, TeardownSteps
      <4> QED BY <2>1, <4>1, <4>2, <4>3, ThreadFrame
    <3> QED BY <2>8, <3>1, <3>2 DEF SeekRangeError
  <2>9. CASE RetuneDone(t)
    <3>1. CASE Return(t)
      BY <2>1, <3>1, ReturnFrame
    <3>2. ASSUME NEW w \in Waiting("waitRetune"), Wake(t, Idle, w, "retuneDone")
          PROVE  ThreadInv'
      <4>1. w \in Threads /\ w # t
        BY <2>9 DEF Waiting, RetuneDone
      <4>2. InOperation([thread[w] EXCEPT !.at = "retuneDone"])
        BY <1>0, <1>l, <4>1, WithinOperation DEF Waiting, StopSteps, TeardownSteps
      <4> QED BY <1>l, <2>1, <3>2, <4>1, <4>2, WakeFrame DEF StopSteps
    <3> QED BY <2>9, <3>1, <3>2 DEF RetuneDone
  <2> QED BY <1>3, <2>2, <2>3, <2>4, <2>6, <2>7, <2>8, <2>9
<1>4. ASSUME NEW t \in Threads, Processing(t) PROVE ThreadInv'
  <2>1. UNCHANGED <<schedVars, mAsyncTuneEnabled>>
    BY <1>4 DEF Processing, CheckInProgress, CheckSeenInAll, ClaimDiscontinuity, BeginDiscontinuity,
       MonitorProgress, AfterReport, Reconfigure, ReleaseDiscontinuity, DiscontinuityDone, envVars
  <2>2. CASE DiscontinuityDone(t)
    <3>1. CASE Return(t)
      BY <2>1, <3>1, ReturnFrame
    <3>2. ASSUME NEW w \in Waiting("waitDisco"), Wake(t, Idle, w, "discoDone")
          PROVE  ThreadInv'
      <4>1. w \in Threads /\ w # t
        BY <2>2 DEF Waiting, DiscontinuityDone
      <4>2. InOperation([thread[w] EXCEPT !.at = "discoDone"])
        BY <1>0, <1>l, <4>1, WithinOperation DEF Waiting, StopSteps, TeardownSteps
      <4> QED BY <1>l, <2>1, <3>2, <4>1, <4>2, WakeFrame DEF StopSteps, TeardownSteps
    <3> QED BY <2>2, <3>1, <3>2 DEF DiscontinuityDone
  <2>3. CASE ~DiscontinuityDone(t)
    <3>1. PICK label \in DiscoSteps : Goto(t, label)
      BY <1>4, <2>3 DEF Processing, CheckInProgress, CheckSeenInAll, ClaimDiscontinuity,
         BeginDiscontinuity, MonitorProgress, AfterReport, Reconfigure, ReleaseDiscontinuity,
         DiscoSteps
    <3>2. \/ thread[t].at \in DiscoSteps
          \/ thread[t].at = "entry" /\ thread[t].op = "ProcessDiscontinuity"
      BY <1>4, <2>3 DEF Processing, CheckInProgress, CheckSeenInAll, ClaimDiscontinuity,
         BeginDiscontinuity, MonitorProgress, AfterReport, Reconfigure, ReleaseDiscontinuity,
         DiscoSteps
    <3>3. InOperation([thread[t] EXCEPT !.at = label])
      BY <1>0, <1>l, <3>1, <3>2, WithinOperation
    <3> QED BY <1>l, <2>1, <3>1, <3>3, GotoFrame
  <2> QED BY <2>2, <2>3
<1>5. ASSUME NEW t \in Threads, Reporting(t) PROVE ThreadInv'
  <2>1. UNCHANGED mAsyncTuneEnabled
    BY <1>5 DEF Reporting, ScheduleDiscontinuity, RequestRetune, RequestTrickRetune, envVars
  <2>2. CASE Return(t)
    <3>1. \/ UNCHANGED schedVars
          \/ \E op \in {"Retune", "ProcessDiscontinuity"} : ScheduleTask(op, "none")
      BY <1>5 DEF Reporting, ScheduleDiscontinuity, RequestRetune, RequestTrickRetune
    <3>2. tasks' \in QueueOf(SchedOps) /\ lastTask' \in Nat
      BY <3>1, ScheduledQueue DEF ThreadInv, schedVars, SchedOps, Args
    <3>3. Idle \in Calls /\ InOperation(Idle)
      BY IdleCall DEF InOperation
    <3>4. AppOps' = AppOps /\ SchedOps' = SchedOps /\ "none" \in AppOps
      BY <2>1 DEF AppOps, SchedOps
    <3>5. \A u \in Threads : thread'[u] = IF u = t THEN Idle ELSE thread[u]
      BY <2>2 DEF Return, ThreadInv
    <3>6. thread' \in [Threads -> Calls]
      BY <2>2, <3>3 DEF Return, ThreadInv
    <3> QED BY <3>2, <3>3, <3>4, <3>5, <3>6, IdleCall DEF ThreadInv, Threads
  <2>3. CASE Goto(t, "srRetune") /\ UNCHANGED schedVars /\ thread[t].at = "srDisco"
    <3>1. InOperation([thread[t] EXCEPT !.at = "srRetune"])
      BY <1>0, <1>l, <2>3, WithinOperation DEF ReportSteps
    <3> QED BY <1>l, <2>1, <2>3, <3>1, GotoFrame DEF ReportSteps
  <2> QED BY <1>5, <2>2, <2>3 DEF Reporting, ScheduleDiscontinuity, RequestRetune, RequestTrickRetune
<1>6. ASSUME NEW op, NEW arg, Call(op, arg), op \in ApiOps, arg \in Args
      PROVE  ThreadInv'
  <2>1. UNCHANGED mAsyncTuneEnabled
    BY <1>6 DEF Call
  <2>2. CASE mAsyncTuneEnabled /\ UNCHANGED thread
    <3>1. ScheduleTask(op, arg) \/ ~(op = "Seek" => mState # "IDLE")
      BY <1>6, <2>2 DEF Call
    <3>2. UNCHANGED schedVars \/ ScheduleTask(op, arg)
      BY <1>6, <2>2 DEF Call
    <3>3. tasks' \in QueueOf(SchedOps) /\ lastTask' \in Nat
      BY <1>6, <2>2, <3>2, ScheduledQueue DEF ThreadInv, SchedOps, schedVars
    <3> QED BY <2>1, <2>2, <3>3, QueueFrame
  <2>3. CASE Enter(App, op, "entry", arg) /\ UNCHANGED schedVars /\ (mAsyncTuneEnabled => op = "Seek")
    <3> DEFINE c == [op |-> op, at |-> "entry", tune |-> None, arg |-> arg]
    <3>1. c \in Calls /\ InOperation(c) /\ c.op = op
      BY <1>6 DEF Calls, InOperation, Ops, Steps, TaskOps, ApiOps
    <3>2. thread' = [thread EXCEPT ![App] = c] /\ op \in AppOps
      BY <1>6, <2>3 DEF Enter, AppOps
    <3> HIDE DEF c
    <3> QED BY <2>1, <2>3, <3>1, <3>2, EnterFrame DEF Threads, ThreadInv, schedVars
  <2> QED BY <1>6, <2>2, <2>3 DEF Call
<1>7. CASE Stop \/ SuspendScheduler \/ ResumeScheduler \/ RunTask
  <2>0. UNCHANGED mAsyncTuneEnabled /\ {App, Sched} \subseteq Threads
    BY <1>7 DEF Stop, SuspendScheduler, ResumeScheduler, RunTask, envVars, Threads
  <2>1. CASE Stop
    <3> DEFINE arg == IF mState = "IDLE" THEN "skip" ELSE "stop"
               c == [op |-> "Stop", at |-> "suspend", tune |-> None, arg |-> arg]
    <3>1. c \in Calls /\ InOperation(c) /\ c.op = "Stop"
      BY DEF Calls, InOperation, Ops, Steps, Args
    <3>2. thread' = [thread EXCEPT ![App] = c] /\ "Stop" \in AppOps
      BY <2>1 DEF Stop, Enter, AppOps
    <3>3. UNCHANGED schedVars
      BY <2>1 DEF Stop
    <3> HIDE DEF c
    <3> QED BY <2>0, <3>1, <3>2, <3>3, EnterFrame DEF ThreadInv, schedVars
  <2>2. CASE SuspendScheduler
    <3>1. PICK label \in {"stopping", "resume"} :
            thread' = [thread EXCEPT ![App] = [thread[App] EXCEPT !.at = label]]
      BY <2>2 DEF SuspendScheduler, Goto
    <3> DEFINE c == [thread[App] EXCEPT !.at = label]
    <3>2. label \in Steps
      BY DEF Steps, StopSteps
    <3>3. c \in Calls /\ c.op = thread[App].op
      BY <1>0, <2>0, <3>2 DEF Calls
    <3>4. InOperation(c)
      BY <1>0, <2>0, <2>2, <3>2, WithinOperation DEF SuspendScheduler, StopSteps
    <3>5. c.op \in AppOps /\ tasks' \in QueueOf(SchedOps) /\ lastTask' \in Nat
      BY <2>2, <3>3 DEF SuspendScheduler, ThreadInv, QueueOf
    <3> HIDE DEF c
    <3> QED BY <2>0, <3>1, <3>3, <3>4, <3>5, EnterFrame DEF c
  <2>3. CASE ResumeScheduler
    <3>1. Idle \in Calls /\ InOperation(Idle) /\ Idle.op \in AppOps
      BY IdleCall DEF InOperation, AppOps
    <3>2. thread' = [thread EXCEPT ![App] = Idle] /\ UNCHANGED <<tasks, lastTask>>
      BY <2>3 DEF ResumeScheduler, Return
    <3> QED BY <2>0, <3>1, <3>2, EnterFrame DEF ThreadInv
  <2>4. CASE RunTask
    <3> DEFINE c == [op |-> Head(tasks).op, at |-> "entry", tune |-> None, arg |-> Head(tasks).arg]
    <3>1. /\ Head(tasks).op \in SchedOps /\ Head(tasks).arg \in Args
          /\ tasks' \in QueueOf(SchedOps)
      BY <2>4, PoppedQueue DEF RunTask, ThreadInv
    <3>2. c \in Calls /\ InOperation(c) /\ c.op \in SchedOps
      BY <3>1 DEF Calls, InOperation, Ops, Steps, TaskOps, SchedOps, ApiOps
    <3>3. CASE UNCHANGED thread
      BY <2>0, <2>4, <3>1, <3>3, QueueFrame DEF RunTask, ThreadInv
    <3>4. CASE thread' = [thread EXCEPT ![Sched] = c]
      <4>1. UNCHANGED lastTask
        BY <2>4 DEF RunTask
      <4> HIDE DEF c
      <4> QED BY <2>0, <3>1, <3>2, <3>4, <4>1, EnterFrame DEF ThreadInv
    <3> QED BY <2>4, <3>3, <3>4 DEF RunTask, Enter
  <2> QED BY <1>7, <2>1, <2>2, <2>3, <2>4
<1>8. CASE \/ CollectorFails \/ UNCHANGED vars
           \/ \E track \in Tracks : Discontinuity(track)
  <2>1. UNCHANGED <<thread, mAsyncTuneEnabled, schedVars>>
    BY <1>8 DEF CollectorFails, Discontinuity, vars, envVars
  <2> QED BY <2>1, QueueFrame DEF ThreadInv, schedVars
<1>9. ASSUME NEW t \in {App, Collector}, NEW e \in ErrorTypes, ScheduleRetune(t, e)
      PROVE  ThreadInv'
  <2>1. UNCHANGED <<schedVars, mAsyncTuneEnabled>> /\ t \in Threads
    BY <1>9 DEF ScheduleRetune, Threads
  <2>2. PICK label \in {"srDisco", "srTrick"} : Enter(t, "ScheduleRetune", label, e)
    BY <1>9 DEF ScheduleRetune
  <2> DEFINE c == [op |-> "ScheduleRetune", at |-> label, tune |-> None, arg |-> e]
  <2>3. c \in Calls /\ InOperation(c) /\ c.op = "ScheduleRetune"
    BY DEF Calls, InOperation, Ops, Steps, Args, ReportSteps
  <2>4. thread' = [thread EXCEPT ![t] = c] /\ "ScheduleRetune" \in AppOps
    BY <2>2 DEF Enter, AppOps
  <2> HIDE DEF c
  <2> QED BY <2>1, <2>3, <2>4, EnterFrame DEF ThreadInv, schedVars
<1>10. CASE NotifyEOSReached \/ NotifyFirstFrameReceived
  <2>0. UNCHANGED <<schedVars, mAsyncTuneEnabled>> /\ App \in Threads
    BY <1>10 DEF NotifyEOSReached, NotifyFirstFrameReceived, envVars, Threads
  <2>1. ASSUME NEW c \in Calls, InOperation(c), thread' = [thread EXCEPT ![App] = c],
               c.op \in {"none", "NotifyEOSReached", "NotifyFirstFrameReceived"}
        PROVE  ThreadInv'
    BY <2>0, <2>1, EnterFrame DEF ThreadInv, AppOps, schedVars
  <2>2. CASE UNCHANGED thread
    BY <2>0, <2>2, QueueFrame DEF ThreadInv, schedVars
  <2>3. ASSUME NEW op, NEW at, NEW tune, thread' = [thread EXCEPT ![App] =
                  [op |-> op, at |-> at, tune |-> tune, arg |-> "none"]],
               \/ op = "NotifyEOSReached" /\ at = "disco" /\ tune = None
               \/ op = "NotifyEOSReached" /\ at = "lockStream" /\ tune = "SEEKTOLIVE"
               \/ op = "NotifyFirstFrameReceived" /\ at = "firstFrame" /\ tune = None
        PROVE  ThreadInv'
    <3> DEFINE c == [op |-> op, at |-> at, tune |-> tune, arg |-> "none"]
    <3>1. c \in Calls /\ InOperation(c) /\ c.op \in {"NotifyEOSReached", "NotifyFirstFrameReceived"}
      BY <2>3 DEF Calls, InOperation, Ops, Steps, Args, TuneTypes, DiscoSteps, TuneSteps
    <3> HIDE DEF c
    <3> QED BY <2>1, <2>3, <3>1 DEF c
  <2>4. CASE thread' = [thread EXCEPT ![App] = Idle]
    BY <2>1, <2>4, IdleCall DEF InOperation
  <2> QED BY <1>10, <2>2, <2>3, <2>4
          DEF NotifyEOSReached, NotifyFirstFrameReceived, OneLoop, Enter, Return
<1>11. {"none", "pause", "normal", "trick"} \subseteq Args
  BY DEF Args
<1> QED
  BY <1>1, <1>2, <1>3, <1>4, <1>5, <1>6, <1>7, <1>8, <1>9, <1>10, <1>11, PlayerAssumption
  DEF Next, API, Environment, Scheduler, Step, OneLoop, ApiOps

------------------------------------------------------------------------------
(* A step of a thread moves that thread, within its operation or out of    *)
(* it, and wakes at most one other.                                        *)
Woken(t, u) ==
  /\ thread'[u].op = thread[u].op /\ thread'[u].tune = thread[u].tune
  /\ \/ At(u, "waitRetune") /\ At(u, "retuneDone")' /\ At(t, "retuned")
     \/ At(u, "waitDisco") /\ At(u, "discoDone")' /\ thread[t].at \in {"processed", "interrupted"}

Moves(t) ==
  /\ ~IsIdle(t) /\ ~At(t, "suspend")
  /\ \A u \in Threads \ {t} : thread'[u] = thread[u] \/ Woken(t, u)
  /\ \/ thread'[t] = Idle /\ thread[t].op # "Stop"
     \/ thread'[t].op = thread[t].op /\ thread'[t].at \notin {"entry", "suspend"}
  /\ UNCHANGED suspended
  /\ suspended /\ tasks = <<>> => tasks' = <<>>

LEMMA EmptyQueue == tasks = <<>> => \A id : RemoveTask(id) = <<>>
  BY DEF RemoveTask, RemoveFirstMatch

LEMMA StepMoves ==
  ASSUME OneLoop, ThreadInv, NEW t \in Threads, Step(t)
  PROVE  Moves(t)
<1> USE DEF At, Entering
<1>0. /\ thread[t] \in Calls /\ InOperation(thread[t]) /\ thread \in [Threads -> Calls]
      /\ \A u \in Threads : thread[u] \in Calls
  BY DEF ThreadInv
<1>i. thread[t].at \notin {"idle", "suspend"} => ~IsIdle(t) /\ ~At(t, "suspend")
  BY DEF IsIdle, Idle
<1>q. ASSUME UNCHANGED schedVars PROVE UNCHANGED suspended /\ (suspended /\ tasks = <<>> => tasks' = <<>>)
  BY <1>q DEF schedVars
<1>g. ASSUME NEW label \in Steps \ {"entry", "suspend"}, Goto(t, label), thread[t].at \notin {"idle", "suspend"},
             UNCHANGED suspended, suspended /\ tasks = <<>> => tasks' = <<>>
      PROVE  Moves(t)
  BY <1>0, <1>i, <1>g DEF Moves, Goto, Calls
<1>r. ASSUME Return(t), thread[t].at \notin {"idle", "suspend"}, thread[t].op # "Stop",
             UNCHANGED suspended, suspended /\ tasks = <<>> => tasks' = <<>>
      PROVE  Moves(t)
  BY <1>0, <1>i, <1>r DEF Moves, Return
<1>h. ASSUME NEW type, TuneHelper(t, type), thread[t].at \notin {"idle", "suspend"}, UNCHANGED schedVars
      PROVE  Moves(t)
  BY <1>0, <1>i, <1>q, <1>h DEF Moves, TuneHelper, Calls
<1>1. CASE Stopping(t)
  BY <1>1, <1>q, <1>g, <1>h DEF Stopping, StopState, StopRetune, StopDownloadsAgain, StopIdle, Steps,
     StopSteps, TeardownSteps
<1>2. CASE Tearing(t)
  <2>1. UNCHANGED suspended /\ (suspended /\ tasks = <<>> => tasks' = <<>>)
    BY <1>2, <1>q, EmptyQueue DEF Tearing, TeardownStream, AfterDiscontinuity, StopStream, JoinStream,
       StopSink
  <2> QED BY <1>2, <1>g, <2>1 DEF Tearing, TeardownStream, AfterDiscontinuity, StopStream, JoinStream,
          StopSink, Steps, StopSteps, TeardownSteps, TuneSteps
<1>3. CASE Tuning(t) /\ ~RetuneDone(t) /\ ~SeekRangeError(t)
  <2>1. UNCHANGED schedVars
    BY <1>3 DEF Tuning, TuneInternal, SeekInternal, AtLivePoint, SetRateInternal, IgnoreTrickPlay, Retune, LockStream,
       CreateStream, InitStream, InitFails, SeekRangeError, StartStream, StreamStarted,
       StreamPrepared, UnlockStream, NotifySpeedChanged, RetuneDone, envVars
  <2>2. CASE \/ TuneInternal(t) \/ SeekInternal(t) \/ AtLivePoint(t) \/ SetRateInternal(t) \/ IgnoreTrickPlay(t)
             \/ Retune(t)
    BY <2>1, <2>2, <1>q, <1>g, <1>r, <1>h
    DEF TuneInternal, SeekInternal, AtLivePoint, SetRateInternal, IgnoreTrickPlay, Retune, Steps, StopSteps
  <2>3. CASE \/ LockStream(t) \/ CreateStream(t) \/ InitStream(t) \/ InitFails(t)
             \/ StartStream(t) \/ StreamStarted(t) \/ StreamPrepared(t)
    BY <2>1, <2>3, <1>q, <1>g
    DEF LockStream, CreateStream, InitStream, InitFails, StartStream, StreamStarted, StreamPrepared,
        Steps, TuneSteps, TeardownSteps, BuiltSteps
  <2>4. CASE UnlockStream(t) \/ NotifySpeedChanged(t)
    <3>1. thread[t].at \in TuneSteps \ TeardownSteps
      BY <2>4 DEF UnlockStream, NotifySpeedChanged, TuneSteps, BuiltSteps, TeardownSteps
    <3>2. thread[t].op # "Stop"
      BY <1>0, <3>1, OperationOf, TuneOf
    <3> QED BY <2>1, <2>4, <3>2, <1>q, <1>g, <1>r
            DEF UnlockStream, NotifySpeedChanged, Steps, TuneSteps
  <2> QED BY <1>3, <2>2, <2>3, <2>4 DEF Tuning
<1>4. CASE SeekRangeError(t)
  <2>1. UNCHANGED schedVars
    BY <1>4 DEF SeekRangeError
  <2>2. CASE Goto(t, "unlock")
    BY <1>4, <1>q, <1>g, <2>1, <2>2 DEF SeekRangeError, Steps, TuneSteps, BuiltSteps
  <2>3. CASE thread' = [thread EXCEPT ![t].tune = "SEEKTOLIVE", ![t].at = "teardown"]
    BY <1>0, <1>4, <1>i, <1>q, <2>1, <2>3 DEF Moves, Calls, SeekRangeError
  <2> QED BY <1>4, <2>2, <2>3 DEF SeekRangeError
<1>w. ASSUME NEW w \in Threads, NEW from, NEW to, Wake(t, Idle, w, to), thread[w].at = from, w # t,
             thread[t].at \notin {"idle", "suspend"}, thread[t].op # "Stop", UNCHANGED schedVars,
             \/ from = "waitRetune" /\ to = "retuneDone" /\ At(t, "retuned")
             \/ from = "waitDisco" /\ to = "discoDone" /\ thread[t].at \in {"processed", "interrupted"}
      PROVE  Moves(t)
  <2>1. \A u \in Threads :
          thread'[u] = IF u = t THEN Idle ELSE IF u = w THEN [thread[w] EXCEPT !.at = to] ELSE thread[u]
    BY <1>0, <1>w DEF Wake
  <2>2. thread'[w].op = thread[w].op /\ thread'[w].tune = thread[w].tune /\ thread'[w].at = to
    BY <1>0, <1>w, <2>1 DEF Calls
  <2>3. Woken(t, w)
    BY <1>w, <2>2 DEF Woken
  <2> QED BY <1>i, <1>q, <1>w, <2>1, <2>3 DEF Moves
<1>5. CASE RetuneDone(t)
  <2>1. UNCHANGED schedVars /\ At(t, "retuned")
    BY <1>5 DEF RetuneDone
  <2>2. thread[t].op # "Stop"
    BY <1>0, <2>1, OperationOf, TuneOf DEF TuneSteps, TeardownSteps
  <2> QED BY <1>5, <1>q, <1>r, <1>w, <2>1, <2>2 DEF RetuneDone, Waiting
<1>6. CASE Processing(t)
  <2>1. UNCHANGED schedVars
    BY <1>6 DEF Processing, CheckInProgress, CheckSeenInAll, ClaimDiscontinuity, BeginDiscontinuity,
       MonitorProgress, AfterReport, Reconfigure, ReleaseDiscontinuity, DiscontinuityDone, envVars
  <2>2. CASE DiscontinuityDone(t)
    <3>1. thread[t].at \in {"processed", "interrupted"}
      BY <2>2 DEF DiscontinuityDone
    <3>2. thread[t].op # "Stop"
      BY <1>0, <3>1, OperationOf DEF DiscoSteps
    <3> QED BY <2>1, <2>2, <3>1, <3>2, <1>q, <1>r, <1>w DEF DiscontinuityDone, Waiting
  <2>3. CASE ~DiscontinuityDone(t)
    BY <1>6, <2>1, <2>3, <1>q, <1>g DEF Processing, CheckInProgress, CheckSeenInAll,
       ClaimDiscontinuity, BeginDiscontinuity, MonitorProgress, AfterReport, Reconfigure,
       ReleaseDiscontinuity, Steps, DiscoSteps
  <2> QED BY <2>2, <2>3
<1>7. CASE Reporting(t)
  <2>1. \A op, arg : ScheduleTask(op, arg) =>
           UNCHANGED suspended /\ (suspended /\ tasks = <<>> => tasks' = <<>>)
    BY <1>q DEF ScheduleTask, Refuses
  <2>2. thread[t].at \in ReportSteps
    BY <1>7 DEF Reporting, ScheduleDiscontinuity, RequestRetune, RequestTrickRetune, ReportSteps
  <2>3. thread[t].op # "Stop"
    BY <1>0, <2>2, OperationOf
  <2>4. UNCHANGED suspended /\ (suspended /\ tasks = <<>> => tasks' = <<>>)
    BY <1>7, <1>q, <2>1 DEF Reporting, ScheduleDiscontinuity, RequestRetune, RequestTrickRetune
  <2> QED BY <1>7, <2>2, <2>3, <2>4, <1>g, <1>r DEF Reporting, ScheduleDiscontinuity, RequestRetune,
          RequestTrickRetune, Steps, ReportSteps
<1> QED BY <1>1, <1>2, <1>3, <1>4, <1>5, <1>6, <1>7 DEF Step, Tuning

(* What the steps leave alone.                                             *)
LEMMA StepFrames ==
  ASSUME NEW t \in Threads, Step(t)
  PROVE  /\ LockStream(t) \/ StopStream(t) \/ JoinStream(t) \/ UnlockStream(t)
              \/ UNCHANGED mStreamLock
         /\ CreateStream(t) \/ JoinStream(t) \/ UNCHANGED mpStreamAbstractionAAMP
         /\ StartStream(t) \/ JoinStream(t) \/ Reconfigure(t) \/ UNCHANGED pipeline
         /\ Retune(t) \/ RetuneDone(t) \/ UNCHANGED mIsRetuneInProgress
         /\ StopRetune(t) \/ RetuneDone(t) \/ Reporting(t) \/ UNCHANGED reTune
         /\ StopIdle(t) \/ LockStream(t) \/ StreamStarted(t) \/ UNCHANGED mSeekOperationInProgress
         /\ Stopping(t) \/ Tuning(t) \/ UNCHANGED mState
         /\ Tearing(t) \/ Reporting(t) \/ UNCHANGED tasks
<1> USE DEF streamVars, seekVars, retuneVars, schedVars
<1>1. CASE Stopping(t)
  BY <1>1 DEF Stopping, StopState, StopRetune, StopDownloadsAgain, StopIdle
<1>2. CASE Tearing(t)
  BY <1>2 DEF Tearing, TeardownStream, AfterDiscontinuity, StopStream, JoinStream, StopSink
<1>3. CASE Tuning(t)
  BY <1>3 DEF Tuning, TuneInternal, SeekInternal, AtLivePoint, SetRateInternal, IgnoreTrickPlay, Retune, LockStream,
     CreateStream, InitStream, InitFails, SeekRangeError, StartStream, StreamStarted,
     StreamPrepared, UnlockStream, NotifySpeedChanged, RetuneDone
<1>4. CASE Processing(t)
  BY <1>4 DEF Processing, CheckInProgress, CheckSeenInAll, ClaimDiscontinuity, BeginDiscontinuity,
     MonitorProgress, AfterReport, Reconfigure, ReleaseDiscontinuity, DiscontinuityDone
<1>5. CASE Reporting(t)
  BY <1>5 DEF Reporting, ScheduleDiscontinuity, RequestRetune, RequestTrickRetune
<1> QED BY <1>1, <1>2, <1>3, <1>4, <1>5 DEF Step

LEMMA SuspendStep ==
  ASSUME OneLoop PROVE ThreadInv /\ SuspendInv /\ [Next]_vars => SuspendInv'
<1> SUFFICES ASSUME ThreadInv, SuspendInv, [Next]_vars PROVE SuspendInv' OBVIOUS
<1> USE DEF At
<1>0. /\ {App, Sched, Collector} \subseteq Threads /\ thread \in [Threads -> Calls]
      /\ Sched # App /\ Collector # App
  BY PlayerAssumption DEF Threads, ThreadInv
<1>1. ASSUME NEW t \in Threads, Step(t) PROVE SuspendInv'
  <2>1. Moves(t)
    BY <1>1, StepMoves
  <2>2. thread[App].op = "Stop" <=> thread'[App].op = "Stop"
    BY <1>0, <2>1, IdleCall DEF Moves, Woken
  <2>3. CASE t = App
    <3>1. StopRuns' <=> StopRuns
      BY <2>1, <2>2, <2>3 DEF Moves, StopRuns, Idle
    <3>2. thread'[Sched] = thread[Sched] \/ thread[Sched] # Idle
      BY <1>0, <2>1, <2>3 DEF Moves, Woken, Idle
    <3> QED BY <2>1, <2>3, <3>1, <3>2 DEF SuspendInv, Moves, IsIdle
  <2>4. CASE t # App
    <3>1. StopRuns' <=> StopRuns
      BY <1>0, <2>1, <2>2, <2>4 DEF Moves, StopRuns, Woken
    <3>2. suspended => t # Sched
      BY <2>1 DEF SuspendInv, Moves
    <3>3. t # Sched => thread'[Sched] = thread[Sched] \/ thread[Sched] # Idle
      BY <1>0, <2>1 DEF Moves, Woken, Idle
    <3> QED BY <2>1, <3>1, <3>2, <3>3 DEF SuspendInv, Moves, IsIdle
  <2> QED BY <2>3, <2>4
<1>2. ASSUME IsIdle(App), UNCHANGED suspended, thread'[App].op # "Stop" \/ At(App, "suspend")'
      PROVE  SuspendInv'
  BY <1>2, IdleCall DEF SuspendInv, StopRuns, IsIdle
<1>3. ASSUME NEW op, NEW arg, Call(op, arg), op \in ApiOps PROVE SuspendInv'
  <2>1. UNCHANGED suspended
    BY <1>3 DEF Call, ScheduleTask, schedVars
  <2>2. thread'[App].op # "Stop"
    BY <1>0, <1>3, IdleCall DEF Call, Enter, ApiOps, IsIdle
  <2> QED BY <1>2, <1>3, <2>1, <2>2 DEF Call
<1>4. CASE Stop
  BY <1>0, <1>2, <1>4 DEF Stop, Enter, schedVars
<1>5. CASE SuspendScheduler
  <2>1. thread'[App].op = "Stop" /\ thread'[App].at \in {"stopping", "resume"}
    <3>1. thread[App].op = "Stop"
      BY <1>0, <1>5, OperationOf DEF SuspendScheduler, ThreadInv
    <3> QED BY <1>0, <1>5, <3>1 DEF SuspendScheduler, Goto, Calls
  <2>2. thread'[Sched] = thread[Sched] /\ IsIdle(Sched) /\ suspended' /\ tasks' = <<>>
    BY <1>0, <1>5 DEF SuspendScheduler, Goto
  <2> QED BY <2>1, <2>2 DEF SuspendInv, StopRuns, IsIdle
<1>6. CASE ResumeScheduler
  BY <1>0, <1>6, IdleCall DEF ResumeScheduler, Return, SuspendInv, StopRuns
<1>7. CASE RunTask
  BY <1>0, <1>7 DEF RunTask, Enter, SuspendInv, StopRuns
<1>8. CASE \/ CollectorFails \/ UNCHANGED vars
           \/ \E track \in Tracks : Discontinuity(track)
  <2>1. UNCHANGED <<thread, suspended, tasks>>
    BY <1>8 DEF CollectorFails, Discontinuity, vars, schedVars
  <2> QED BY <2>1 DEF SuspendInv, StopRuns, IsIdle
<1>9. ASSUME NEW e, ScheduleRetune(App, e) PROVE SuspendInv'
  <2>1. IsIdle(App) /\ UNCHANGED suspended /\ thread'[App].op = "ScheduleRetune"
    BY <1>0, <1>9 DEF ScheduleRetune, Enter, schedVars
  <2> QED BY <1>2, <2>1
<1>10. ASSUME NEW e, ScheduleRetune(Collector, e) PROVE SuspendInv'
  <2>1. UNCHANGED <<suspended, tasks>> /\ thread'[App] = thread[App] /\ thread'[Sched] = thread[Sched]
    BY <1>0, <1>10, PlayerAssumption DEF ScheduleRetune, Enter, schedVars
  <2> QED BY <2>1 DEF SuspendInv, StopRuns, IsIdle
<1>11. CASE NotifyEOSReached \/ (NotifyFirstFrameReceived /\ IsIdle(App))
  <2>1. UNCHANGED suspended /\ IsIdle(App)
    BY <1>11 DEF NotifyEOSReached, NotifyFirstFrameReceived, schedVars, OneLoop
  <2>2. thread'[App].op # "Stop"
    BY <1>0, <1>11, <2>1, IdleCall DEF NotifyEOSReached, NotifyFirstFrameReceived, Enter, Return, OneLoop,
                                       IsIdle
  <2> QED BY <1>2, <2>1, <2>2
<1>12. CASE NotifyFirstFrameReceived /\ ~IsIdle(App)
  <2>1. /\ UNCHANGED <<suspended, tasks>> /\ At(App, "firstFrame")
        /\ thread' = [thread EXCEPT ![App] = Idle]
    BY <1>12 DEF NotifyFirstFrameReceived, schedVars, OneLoop, Return
  <2>2. thread[App].op # "Stop"
    BY <1>0, <2>1, OperationOf DEF ThreadInv
  <2> QED BY <1>0, <2>1, <2>2, IdleCall DEF SuspendInv, StopRuns, IsIdle
<1> QED
  BY <1>1, <1>3, <1>4, <1>5, <1>6, <1>7, <1>8, <1>9, <1>10, <1>11, <1>12
  DEF Next, API, Environment, Scheduler, OneLoop, ApiOps

------------------------------------------------------------------------------
(* What is not a step of an operation begins one, or ends one that is      *)
(* outside of the stream.                                                  *)
Outside == {"idle", "entry", "suspend", "resume", "stopping", "disco", "lockStream", "firstFrame",
            "srDisco", "srTrick"}
Others == API \/ Environment \/ Scheduler \/ UNCHANGED vars

LEMMA OthersMove ==
  ASSUME OneLoop, ThreadInv, Others
  PROVE  /\ UNCHANGED <<mStreamLock, mpStreamAbstractionAAMP, mSeekOperationInProgress,
                        reTune, mIsRetuneInProgress>>
         /\ \A u \in Threads :
              \/ thread'[u] = thread[u]
              \/ /\ thread[u].at \in Outside /\ thread'[u].at \in Outside
                 /\ thread[u].tune = None
                 /\ \/ thread'[u].tune = None
                    \/ thread'[u].tune = "SEEKTOLIVE" /\ u = App /\ IsIdle(App) /\ pipeline # "stopped"
                 /\ u = Sched => ~suspended /\ tasks # <<>> /\ thread'[u].op = Head(tasks).op
                 /\ u = Collector => pipeline # "stopped"
         /\ UNCHANGED pipeline \/ pipeline = "streaming"
<1> USE DEF At
<1>0. /\ {App, Sched, Collector} \subseteq Threads /\ thread \in [Threads -> Calls]
      /\ Sched # App /\ Collector # App /\ Collector # Sched
  BY PlayerAssumption DEF Threads, ThreadInv
<1>u. \A u \in Threads : thread[u] \in Calls /\ InOperation(thread[u])
  BY DEF ThreadInv
<1>1. UNCHANGED <<mStreamLock, mpStreamAbstractionAAMP, mSeekOperationInProgress,
                  reTune, mIsRetuneInProgress>>
      /\ (UNCHANGED pipeline \/ pipeline = "streaming")
  <2> USE DEF streamVars, seekVars, retuneVars
  <2>1. CASE API
    BY <2>1 DEF API, Stop, Call
  <2>2. CASE Scheduler
    BY <2>2 DEF Scheduler, SuspendScheduler, ResumeScheduler, RunTask
  <2>3. CASE Environment
    BY <2>3 DEF Environment, NotifyEOSReached, CollectorFails, Discontinuity, ScheduleRetune,
       NotifyFirstFrameReceived
  <2> QED BY <2>1, <2>2, <2>3 DEF Others, vars
<1> DEFINE P(u) == \/ thread'[u] = thread[u]
                   \/ /\ thread[u].at \in Outside /\ thread'[u].at \in Outside
                      /\ thread[u].tune = None
                      /\ \/ thread'[u].tune = None
                         \/ thread'[u].tune = "SEEKTOLIVE" /\ u = App /\ IsIdle(App) /\ pipeline # "stopped"
                      /\ u = Sched => ~suspended /\ tasks # <<>> /\ thread'[u].op = Head(tasks).op
                      /\ u = Collector => pipeline # "stopped"
<1> SUFFICES \A u \in Threads : P(u)
  BY <1>1
<1> HIDE DEF P
<1>2. ASSUME UNCHANGED thread PROVE \A u \in Threads : P(u)
  BY <1>2 DEF P
<1>3. ASSUME NEW t \in {App, Sched, Collector}, NEW op, NEW label \in Outside, NEW arg,
             Enter(t, op, label, arg), IsIdle(t),
             t = Sched => ~suspended /\ tasks # <<>> /\ op = Head(tasks).op,
             t = Collector => pipeline # "stopped"
      PROVE  \A u \in Threads : P(u)
  <2> DEFINE c == [op |-> op, at |-> label, tune |-> None, arg |-> arg]
  <2>1. \A u \in Threads : thread'[u] = IF u = t THEN c ELSE thread[u]
    BY <1>0, <1>3 DEF Enter
  <2>2. c.at = label /\ c.tune = None /\ c.op = op
    OBVIOUS
  <2>3. thread[t].at \in Outside /\ thread[t].tune = None
    BY <1>3, IdleCall DEF IsIdle, Outside
  <2> HIDE DEF c
  <2> QED BY <1>3, <2>1, <2>2, <2>3 DEF P
<1>4. CASE API
  <2>1. \/ UNCHANGED thread
        \/ \E op, arg : \E label \in {"entry", "suspend"} : Enter(App, op, label, arg) /\ IsIdle(App)
    BY <1>4 DEF API, Stop, Call
  <2> QED BY <1>0, <1>2, <1>3, <2>1 DEF Outside
<1>5. CASE CollectorFails \/ (\E track \in Tracks : Discontinuity(track)) \/ UNCHANGED vars
  BY <1>2, <1>5 DEF CollectorFails, Discontinuity, vars
<1>6. ASSUME NEW t \in {App, Collector}, NEW e, ScheduleRetune(t, e) PROVE \A u \in Threads : P(u)
  BY <1>0, <1>3, <1>6 DEF ScheduleRetune, Outside
<1>7. CASE RunTask
  <2>1. "entry" \in Outside
    BY DEF Outside
  <2>2. CASE UNCHANGED thread
    BY <1>2, <2>2
  <2>3. CASE Enter(Sched, Head(tasks).op, "entry", Head(tasks).arg)
    BY <1>0, <1>3, <1>7, <2>1, <2>3 DEF RunTask
  <2> QED BY <1>7, <2>2, <2>3 DEF RunTask
<1>8. CASE SuspendScheduler \/ ResumeScheduler
  <2>1. \A u \in Threads : u # App => thread'[u] = thread[u]
    BY <1>0, <1>8 DEF SuspendScheduler, ResumeScheduler, Goto, Return
  <2>2. thread[App].at \in {"suspend", "resume"} /\ thread'[App].at \in {"stopping", "resume", "idle"}
        /\ thread'[App].tune \in {None, thread[App].tune}
    BY <1>0, <1>u, <1>8, IdleCall DEF SuspendScheduler, ResumeScheduler, Goto, Return, Calls
  <2>3. thread[App].tune = None
    BY <1>0, <1>u, <2>2, OperationOf
  <2> QED BY <1>0, <2>1, <2>2, <2>3 DEF Outside, P
<1>9. CASE NotifyEOSReached
  <2>1. CASE UNCHANGED thread \/ Enter(App, "NotifyEOSReached", "disco", "none")
    BY <1>0, <1>2, <1>3, <1>9, <2>1 DEF NotifyEOSReached, OneLoop, Outside
  <2>2. CASE thread' = [thread EXCEPT ![App] = [op |-> "NotifyEOSReached", at |-> "lockStream",
                                                tune |-> "SEEKTOLIVE", arg |-> "none"]]
    BY <1>0, <1>9, <2>2, IdleCall DEF NotifyEOSReached, OneLoop, Outside, IsIdle, P
  <2> QED BY <1>9, <2>1, <2>2 DEF NotifyEOSReached, OneLoop
<1>10. CASE NotifyFirstFrameReceived
  <2>1. CASE UNCHANGED thread \/ (Enter(App, "NotifyFirstFrameReceived", "firstFrame", "none") /\ IsIdle(App))
    BY <1>0, <1>2, <1>3, <2>1 DEF Outside
  <2>2. CASE thread' = [thread EXCEPT ![App] = Idle] /\ At(App, "firstFrame")
    <3>1. thread[App].tune = None
      BY <1>0, <1>u, <2>2, OperationOf
    <3> QED BY <1>0, <2>2, <3>1, IdleCall DEF Outside, P
  <2> QED BY <1>10, <2>1, <2>2 DEF NotifyFirstFrameReceived, OneLoop, Return
<1> QED BY <1>4, <1>5, <1>6, <1>7, <1>8, <1>9, <1>10 DEF Others, Environment, Scheduler, OneLoop

------------------------------------------------------------------------------
(* mStreamLock.                                                            *)
LEMMA LockStep ==
  ASSUME OneLoop PROVE ThreadInv /\ LockInv /\ [Next]_vars => LockInv'
<1> SUFFICES ASSUME ThreadInv, LockInv, [Next]_vars PROVE LockInv' OBVIOUS
<1> USE DEF At, InStream
<1>n. None \notin Threads
  BY PlayerAssumption DEF Threads
<1>1. CASE Others
  <2>1. \A u \in Threads : InStream(u)' <=> InStream(u)
    BY <1>1, OthersMove DEF Outside, TeardownSteps, BuiltSteps
  <2>2. UNCHANGED mStreamLock
    BY <1>1, OthersMove
  <2> QED BY <2>1, <2>2 DEF LockInv
<1>2. ASSUME NEW t \in Threads, Step(t) PROVE LockInv'
  <2>0. thread \in [Threads -> Calls] /\ thread[t] \in Calls /\ InOperation(thread[t])
    BY DEF ThreadInv
  <2>1. Moves(t)
    BY <1>2, StepMoves
  <2>2. \A u \in Threads \ {t} : InStream(u)' <=> InStream(u)
    BY <2>1 DEF Moves, Woken, TeardownSteps, BuiltSteps
  <2>3. ASSUME UNCHANGED mStreamLock, InStream(t)' <=> InStream(t) PROVE LockInv'
    BY <2>2, <2>3 DEF LockInv
  <2>4. CASE LockStream(t)
    <3>1. mStreamLock = None /\ mStreamLock' = t /\ InStream(t)'
      BY <2>0, <2>4, OperationOf DEF LockStream, Goto, Calls, TeardownSteps, TuneSteps, BuiltSteps
    <3> QED BY <1>n, <2>2, <3>1 DEF LockInv
  <2>5. CASE StopStream(t)
    <3>1. mStreamLock \in {None, t} /\ mStreamLock' = t /\ InStream(t)'
      BY <2>0, <2>5 DEF StopStream, Goto, Calls
    <3> QED BY <1>n, <2>2, <3>1 DEF LockInv
  <2>6. CASE JoinStream(t)
    <3>1. mStreamLock = t
      BY <2>6 DEF JoinStream, LockInv
    <3>2. thread'[t].at = "stopSink" /\ thread'[t].tune = thread[t].tune
      BY <2>0, <2>6 DEF JoinStream, Goto, Calls
    <3>3. InStream(t)' <=> mStreamLock' = t
      BY <1>n, <2>6, <3>2 DEF JoinStream, TeardownSteps
    <3>4. mStreamLock' \in {None, t}
      BY <2>6 DEF JoinStream
    <3> QED BY <1>n, <2>2, <3>1, <3>3, <3>4 DEF LockInv
  <2>7. CASE UnlockStream(t)
    <3>1. InStream(t)
      BY <2>0, <2>7, OperationOf DEF UnlockStream, TuneSteps, BuiltSteps, TeardownSteps
    <3>2. thread'[t].at \in {"speed", "retuned", "idle"} /\ mStreamLock' = None
      BY <2>0, <2>7, IdleCall DEF UnlockStream, Goto, Return, Calls
    <3> QED BY <1>n, <2>2, <3>1, <3>2 DEF LockInv, TeardownSteps, BuiltSteps
  <2>8. CASE ~(LockStream(t) \/ StopStream(t) \/ JoinStream(t) \/ UnlockStream(t))
    <3>1. UNCHANGED mStreamLock
      BY <1>2, <2>8, StepFrames
    <3>2. CASE Stopping(t)
      <4>1. ~InStream(t)
        BY <2>0, <3>2, OperationOf DEF Stopping, StopState, StopRetune, StopDownloadsAgain, StopIdle,
           StopSteps, TeardownSteps
      <4>2. \/ thread'[t].tune = None /\ thread'[t].at # "join"
            \/ thread'[t].at = "lockStream"
        BY <2>0, <3>2, OperationOf DEF Stopping, StopState, StopRetune, StopDownloadsAgain, StopIdle,
           StopSteps, TeardownSteps, Goto, TuneHelper, Calls
      <4> QED BY <2>3, <3>1, <4>1, <4>2 DEF TeardownSteps, BuiltSteps
    <3>3. CASE Tearing(t)
      <4>1. thread'[t].tune = thread[t].tune
        BY <2>0, <3>3 DEF Tearing, TeardownStream, AfterDiscontinuity, StopStream, JoinStream, StopSink,
           Goto, Calls
      <4>2. /\ thread[t].at \in TeardownSteps \ {"join"}
            /\ thread'[t].at \in TeardownSteps \ {"join"}
                \/ thread'[t].at = IF thread[t].tune = None THEN "stopIdle" ELSE "create"
        BY <2>0, <2>8, <3>3 DEF Tearing, TeardownStream, AfterDiscontinuity, StopStream, JoinStream,
           StopSink, Goto, Calls, TeardownSteps
      <4> QED BY <2>3, <3>1, <4>1, <4>2 DEF TeardownSteps, BuiltSteps
    <3>4. CASE \/ CreateStream(t) \/ InitStream(t) \/ InitFails(t) \/ SeekRangeError(t)
               \/ StartStream(t) \/ StreamStarted(t) \/ StreamPrepared(t)
      <4>1. thread[t].at \in BuiltSteps \union {"create"} /\ thread[t].tune # None
        BY <2>0, <3>4, OperationOf DEF CreateStream, InitStream, InitFails, SeekRangeError, StartStream,
           StreamStarted, StreamPrepared, BuiltSteps, TuneSteps, TeardownSteps
      <4>2. /\ thread'[t].at \in BuiltSteps \union {"teardown"}
            /\ thread'[t].tune \in {thread[t].tune, "SEEKTOLIVE"}
        BY <2>0, <3>4 DEF CreateStream, InitStream, InitFails, SeekRangeError, StartStream,
           StreamStarted, StreamPrepared, BuiltSteps, Goto, Calls
      <4>3. "SEEKTOLIVE" # None
        BY PlayerAssumption DEF TuneTypes
      <4> QED BY <2>3, <3>1, <4>1, <4>2, <4>3 DEF TeardownSteps
    <3>5. ASSUME thread[t].at \in {"entry", "speed", "retuned"} \union DiscoSteps \union ReportSteps,
                 thread'[t].at \in {"idle", "lockStream", "stopping"} \union DiscoSteps \union ReportSteps
          PROVE  LockInv'
      BY <2>3, <3>1, <3>5 DEF DiscoSteps, ReportSteps, TeardownSteps, BuiltSteps
    <3>6. CASE \/ TuneInternal(t) \/ SeekInternal(t) \/ AtLivePoint(t) \/ SetRateInternal(t) \/ IgnoreTrickPlay(t)
               \/ Retune(t)
      <4>1. \/ thread' = [thread EXCEPT ![t] = Idle]
            \/ thread' = [thread EXCEPT ![t].at = "stopping"]
            \/ \E type : thread' = [thread EXCEPT ![t].tune = type, ![t].at = "lockStream"]
        BY <3>6 DEF TuneInternal, SeekInternal, AtLivePoint, SetRateInternal, IgnoreTrickPlay, Retune, Goto, Return,
           TuneHelper
      <4>2. thread'[t].at \in {"idle", "lockStream", "stopping"}
        BY <2>0, <4>1, IdleCall DEF Calls
      <4>3. thread[t].at = "entry"
        BY <3>6 DEF TuneInternal, SeekInternal, AtLivePoint, SetRateInternal, IgnoreTrickPlay, Retune, Entering
      <4> QED BY <3>5, <4>2, <4>3
    <3>7. CASE NotifySpeedChanged(t) \/ RetuneDone(t)
      BY <2>0, <3>5, <3>7, IdleCall DEF NotifySpeedChanged, RetuneDone, Return, Wake, Waiting
    <3>8. CASE Processing(t)
      <4>1. thread'[t] = Idle \/ \E label \in DiscoSteps : Goto(t, label)
        BY <2>0, <3>8 DEF Processing, CheckInProgress, CheckSeenInAll, ClaimDiscontinuity,
           BeginDiscontinuity, MonitorProgress, AfterReport, Reconfigure, ReleaseDiscontinuity,
           DiscontinuityDone, DiscoSteps, Return, Wake, Waiting
      <4>2. thread'[t].at \in {"idle"} \union DiscoSteps
        BY <2>0, <4>1, IdleCall DEF Goto, Calls
      <4>3. thread[t].at \in {"entry"} \union DiscoSteps
        BY <3>8 DEF Processing, CheckInProgress, CheckSeenInAll, ClaimDiscontinuity,
           BeginDiscontinuity, MonitorProgress, AfterReport, Reconfigure, ReleaseDiscontinuity,
           DiscontinuityDone, DiscoSteps, Entering
      <4> QED BY <3>5, <4>2, <4>3
    <3>9. CASE Reporting(t)
      <4>1. Return(t) \/ Goto(t, "srRetune")
        BY <3>9 DEF Reporting, ScheduleDiscontinuity, RequestRetune, RequestTrickRetune
      <4>2. thread'[t].at \in {"idle"} \union ReportSteps
        BY <2>0, <4>1, IdleCall DEF Goto, Return, Calls, ReportSteps
      <4>3. thread[t].at \in ReportSteps
        BY <3>9 DEF Reporting, ScheduleDiscontinuity, RequestRetune, RequestTrickRetune, ReportSteps
      <4> QED BY <3>5, <4>2, <4>3
    <3> QED BY <1>2, <2>8, <3>2, <3>3, <3>4, <3>6, <3>7, <3>8, <3>9 DEF Step, Tuning
  <2> QED BY <2>4, <2>5, <2>6, <2>7, <2>8
<1> QED BY <1>1, <1>2 DEF Next, Others

------------------------------------------------------------------------------
(* The stream.                                                             *)
LEMMA BuiltFrom ==
  ASSUME ThreadInv, NEW t \in Threads, Step(t), thread'[t].at \in BuiltSteps
  PROVE  CreateStream(t) \/ (thread[t].at \in BuiltSteps /\ thread[t].tune # None)
<1> USE DEF At
<1>0. thread \in [Threads -> Calls] /\ thread[t] \in Calls /\ InOperation(thread[t])
  BY DEF ThreadInv
<1>g. ASSUME NEW label \in Steps \ BuiltSteps, Goto(t, label) PROVE FALSE
  BY <1>0, <1>g DEF Goto, Calls
<1>r. ~Return(t)
  BY <1>0, IdleCall DEF Return, BuiltSteps
<1>h. \A type : ~TuneHelper(t, type)
  BY <1>0 DEF TuneHelper, Calls, BuiltSteps
<1>1. ASSUME Stopping(t) PROVE FALSE
  BY <1>1, <1>g, <1>h DEF Stopping, StopState, StopRetune, StopDownloadsAgain, StopIdle, Steps, StopSteps,
     TeardownSteps, BuiltSteps
<1>2. ASSUME Tearing(t) PROVE FALSE
  BY <1>2, <1>g DEF Tearing, TeardownStream, AfterDiscontinuity, StopStream, JoinStream, StopSink, Steps,
     StopSteps, TeardownSteps, TuneSteps, BuiltSteps
<1>3. ASSUME \/ TuneInternal(t) \/ SeekInternal(t) \/ AtLivePoint(t) \/ SetRateInternal(t) \/ IgnoreTrickPlay(t)
             \/ Retune(t) \/ LockStream(t) \/ UnlockStream(t) \/ NotifySpeedChanged(t)
      PROVE FALSE
  BY <1>3, <1>g, <1>r, <1>h DEF TuneInternal, SeekInternal, AtLivePoint, SetRateInternal, IgnoreTrickPlay, Retune, LockStream,
     UnlockStream, NotifySpeedChanged, Steps, StopSteps, TuneSteps, TeardownSteps, BuiltSteps
<1>w. ASSUME NEW w \in Threads, NEW label, Wake(t, Idle, w, label), w # t PROVE FALSE
  <2>1. thread'[t] = Idle
    BY <1>0, <1>w DEF Wake
  <2> QED BY <2>1, IdleCall DEF BuiltSteps
<1>4. ASSUME RetuneDone(t) PROVE FALSE
  BY <1>4, <1>r, <1>w DEF RetuneDone, Waiting
<1>5. ASSUME Processing(t) PROVE FALSE
  <2>1. \/ Return(t)
        \/ \E label \in DiscoSteps : Goto(t, label)
        \/ \E w \in Threads \ {t}, label \in {"discoDone"} : Wake(t, Idle, w, label)
    BY <1>5 DEF Processing, CheckInProgress, CheckSeenInAll, ClaimDiscontinuity, BeginDiscontinuity,
       MonitorProgress, AfterReport, Reconfigure, ReleaseDiscontinuity, DiscontinuityDone, DiscoSteps, Waiting
  <2> QED BY <1>g, <1>r, <1>w, <2>1 DEF DiscoSteps, Steps, BuiltSteps
<1>6. ASSUME Reporting(t) PROVE FALSE
  BY <1>6, <1>g, <1>r DEF Reporting, ScheduleDiscontinuity, RequestRetune, RequestTrickRetune, Steps,
     ReportSteps, BuiltSteps
<1>7. CASE \/ InitStream(t) \/ InitFails(t) \/ SeekRangeError(t)
           \/ StartStream(t) \/ StreamStarted(t) \/ StreamPrepared(t)
  <2>1. thread[t].at \in BuiltSteps
    BY <1>7 DEF InitStream, InitFails, SeekRangeError, StartStream, StreamStarted, StreamPrepared, BuiltSteps
  <2> QED BY <1>0, <2>1, OperationOf DEF TuneSteps, BuiltSteps, TeardownSteps
<1> QED BY <1>1, <1>2, <1>3, <1>4, <1>5, <1>6, <1>7 DEF Step, Tuning

LEMMA StreamStep ==
  ASSUME OneLoop PROVE ThreadInv /\ LockInv /\ StreamInv /\ [Next]_vars => StreamInv'
<1> SUFFICES ASSUME ThreadInv, LockInv, StreamInv, [Next]_vars PROVE StreamInv' OBVIOUS
<1> USE DEF At
<1>c. Collector \in Threads
  BY DEF Threads
<1>1. CASE Others
  <2>1. UNCHANGED mpStreamAbstractionAAMP /\ (pipeline' # "stopped" => pipeline # "stopped")
    BY <1>1, OthersMove
  <2>2. \A u \in Threads : thread'[u] = thread[u] \/ thread'[u].at \notin BuiltSteps
    BY <1>1, OthersMove DEF Outside, BuiltSteps
  <2>3. thread'[Collector] = thread[Collector] \/ pipeline # "stopped"
    BY <1>1, <1>c, OthersMove
  <2> QED BY <1>c, <2>1, <2>2, <2>3 DEF StreamInv, IsIdle
<1>2. ASSUME NEW t \in Threads, Step(t) PROVE StreamInv'
  <2>0. thread \in [Threads -> Calls] /\ thread[t] \in Calls /\ InOperation(thread[t])
    BY DEF ThreadInv
  <2>1. Moves(t)
    BY <1>2, StepMoves
  <2>2. \A u \in Threads \ {t} :
          /\ thread'[u].tune = thread[u].tune
          /\ thread'[u].at \in BuiltSteps => thread[u].at \in BuiltSteps
          /\ thread[u] = Idle => thread'[u] = Idle
    BY <2>1, IdleCall DEF Moves, Woken, BuiltSteps
  <2>3. CASE CreateStream(t)
    BY <2>3 DEF CreateStream, StreamInv
  <2>4. CASE JoinStream(t)
    <3>1. pipeline' = "stopped" /\ ~mpStreamAbstractionAAMP' /\ IsIdle(Collector)
      BY <2>4 DEF JoinStream, StreamInv
    <3>2. IsIdle(Collector)'
      BY <1>c, <2>1, <2>2, <3>1 DEF IsIdle, Moves
    <3>3. thread'[t].at \notin BuiltSteps
      BY <1>2, <2>4, BuiltFrom DEF JoinStream, CreateStream, BuiltSteps
    <3>4. \A u \in Threads \ {t} : ~InStream(u)
      BY <2>4 DEF LockInv, InStream, JoinStream
    <3> QED BY <2>2, <3>1, <3>2, <3>3, <3>4 DEF StreamInv, InStream
  <2>5. CASE ~CreateStream(t) /\ ~JoinStream(t)
    <3>1. UNCHANGED mpStreamAbstractionAAMP
      BY <1>2, <2>5, StepFrames
    <3>2. pipeline' # "stopped" => mpStreamAbstractionAAMP
      <4>1. CASE StartStream(t)
        <5>1. thread[t].tune # None
          BY <2>0, <4>1, OperationOf DEF StartStream, TuneSteps, BuiltSteps, TeardownSteps
        <5> QED BY <4>1, <5>1 DEF StartStream, StreamInv, BuiltSteps
      <4>2. CASE Reconfigure(t)
        BY <4>2 DEF Reconfigure, StreamInv
      <4>3. CASE UNCHANGED pipeline
        BY <4>3 DEF StreamInv
      <4> QED BY <1>2, <2>5, <4>1, <4>2, <4>3, StepFrames
    <3>3. ~IsIdle(Collector)' => ~IsIdle(Collector)
      BY <1>c, <2>1, <2>2 DEF IsIdle, Moves
    <3>4. \A u \in Threads : thread'[u].tune # None /\ thread'[u].at \in BuiltSteps
                             => thread[u].tune # None /\ thread[u].at \in BuiltSteps
      BY <1>2, <2>2, <2>5, BuiltFrom
    <3> QED BY <3>1, <3>2, <3>3, <3>4 DEF StreamInv
  <2> QED BY <2>3, <2>4, <2>5
<1> QED BY <1>1, <1>2 DEF Next, Others

------------------------------------------------------------------------------
(* The step that takes a thread to a place.                                *)
Arrives(t) ==
  /\ At(t, "retuned")' => UnlockStream(t)
  /\ At(t, "speed")' => UnlockStream(t)
  /\ At(t, "prepared")' => StreamStarted(t)
  /\ At(t, "stopSink")' => JoinStream(t)
  /\ At(t, "create")' => StopSink(t)
  /\ At(t, "stopIdle")' => StopSink(t)
  /\ At(t, "stopRetune")' => StopState(t)
  /\ At(t, "waitRetune")' => StopRetune(t)
  /\ ~At(t, "retuneDone")' /\ ~At(t, "srTrick")'

LEMMA StepArrives ==
  ASSUME ThreadInv, NEW t \in Threads, Step(t)
  PROVE  Arrives(t)
<1> USE DEF At, Arrives
<1>0. thread \in [Threads -> Calls] /\ thread[t] \in Calls
  BY DEF ThreadInv
<1>g. ASSUME NEW label, Goto(t, label) PROVE thread'[t].at = label
  BY <1>0, <1>g DEF Goto, Calls
<1>r. Return(t) => thread'[t].at = "idle"
  BY <1>0, IdleCall DEF Return
<1>h. \A type : TuneHelper(t, type) => thread'[t].at = "lockStream"
  BY <1>0 DEF TuneHelper, Calls
<1>w. ASSUME NEW w \in Threads, NEW label, Wake(t, Idle, w, label), w # t
      PROVE  thread'[t].at = "idle"
  <2>1. thread'[t] = Idle
    BY <1>0, <1>w DEF Wake
  <2> QED BY <2>1, IdleCall
<1>1. CASE Stopping(t)
  BY <1>1, <1>g, <1>h DEF Stopping, StopState, StopRetune, StopDownloadsAgain, StopIdle
<1>2. CASE Tearing(t)
  BY <1>2, <1>g DEF Tearing, TeardownStream, AfterDiscontinuity, StopStream, JoinStream, StopSink
<1>3. CASE \/ TuneInternal(t) \/ SeekInternal(t) \/ AtLivePoint(t) \/ SetRateInternal(t) \/ IgnoreTrickPlay(t)
           \/ Retune(t) \/ LockStream(t) \/ UnlockStream(t) \/ NotifySpeedChanged(t)
  BY <1>3, <1>g, <1>r, <1>h DEF TuneInternal, SeekInternal, AtLivePoint, SetRateInternal, IgnoreTrickPlay, Retune,
     LockStream, UnlockStream, NotifySpeedChanged
<1>4. CASE RetuneDone(t)
  BY <1>4, <1>r, <1>w DEF RetuneDone, Waiting
<1>5. CASE Processing(t)
  <2>1. \/ Return(t)
        \/ \E label \in DiscoSteps : Goto(t, label)
        \/ \E w \in Threads \ {t}, label \in {"discoDone"} : Wake(t, Idle, w, label)
    BY <1>5 DEF Processing, CheckInProgress, CheckSeenInAll, ClaimDiscontinuity, BeginDiscontinuity,
       MonitorProgress, AfterReport, Reconfigure, ReleaseDiscontinuity, DiscontinuityDone, DiscoSteps, Waiting
  <2>2. thread'[t].at \in {"idle"} \union DiscoSteps
    BY <1>g, <1>r, <1>w, <2>1
  <2> QED BY <2>2 DEF DiscoSteps
<1>6. CASE Reporting(t)
  BY <1>6, <1>g, <1>r DEF Reporting, ScheduleDiscontinuity, RequestRetune, RequestTrickRetune
<1>7. CASE \/ CreateStream(t) \/ InitStream(t) \/ InitFails(t)
           \/ StartStream(t) \/ StreamStarted(t) \/ StreamPrepared(t)
  BY <1>7, <1>g DEF CreateStream, InitStream, InitFails, StartStream, StreamStarted, StreamPrepared
<1>8. CASE SeekRangeError(t)
  <2>1. thread'[t].at \in {"unlock", "teardown"}
    BY <1>0, <1>8, <1>g DEF SeekRangeError, Calls
  <2> QED BY <2>1
<1> QED BY <1>1, <1>2, <1>3, <1>4, <1>5, <1>6, <1>7, <1>8 DEF Step, Tuning

LEMMA TailStep ==
  ASSUME OneLoop PROVE ThreadInv /\ TailInv /\ [Next]_vars => TailInv'
<1> SUFFICES ASSUME ThreadInv, TailInv, [Next]_vars PROVE TailInv' OBVIOUS
<1> USE DEF At
<1>1. CASE Others
  <2>1. \A u \in Threads : thread'[u] = thread[u] \/ thread'[u].at \in Outside
    BY <1>1, OthersMove
  <2> QED BY <2>1 DEF TailInv, Outside
<1>2. ASSUME NEW t \in Threads, Step(t) PROVE TailInv'
  <2>0. thread \in [Threads -> Calls] /\ thread[t] \in Calls
    BY DEF ThreadInv
  <2>1. \A u \in Threads \ {t} : thread'[u] = thread[u] \/ thread'[u].at \in {"retuneDone", "discoDone"}
    BY <1>2, StepMoves DEF Moves, Woken
  <2>2. CASE UnlockStream(t)
    <3>1. /\ thread'[t].at = "retuned" => thread'[t].op = "Retune"
          /\ thread'[t].at = "speed" => thread'[t].op # "Retune"
          /\ thread'[t].at # "prepared"
      BY <2>0, <2>2, IdleCall DEF UnlockStream, Goto, Return, Calls
    <3> QED BY <2>1, <3>1 DEF TailInv
  <2>3. CASE StreamStarted(t)
    <3>1. /\ thread'[t].at = "prepared" => thread'[t].tune = "NEW"
          /\ thread'[t].at \notin {"retuned", "speed"}
      BY <2>0, <2>3 DEF StreamStarted, Goto, Calls
    <3> QED BY <2>1, <3>1 DEF TailInv
  <2>4. CASE ~UnlockStream(t) /\ ~StreamStarted(t)
    <3>1. thread'[t].at \notin {"retuned", "speed", "prepared"}
      BY <1>2, <2>4, StepArrives DEF Arrives
    <3> QED BY <2>1, <3>1 DEF TailInv
  <2> QED BY <2>2, <2>3, <2>4
<1> QED BY <1>1, <1>2 DEF Next, Others

------------------------------------------------------------------------------
(* Retunes.                                                                *)
LEMMA RetuneType ==
  ASSUME ThreadInv, TailInv, NEW t \in Threads, Step(t), ~Retune(t), ~RetuneDone(t)
  PROVE  thread'[t].tune = "RETUNE" <=> thread[t].tune = "RETUNE"
<1> USE DEF At, Entering
<1>0. thread \in [Threads -> Calls] /\ thread[t] \in Calls /\ InOperation(thread[t])
  BY DEF ThreadInv
<1>n. None # "RETUNE" /\ Idle.tune = None
  BY PlayerAssumption, IdleCall DEF TuneTypes
<1>g. ASSUME NEW label, Goto(t, label) PROVE thread'[t].tune = thread[t].tune
  BY <1>0, <1>g DEF Goto, Calls
<1>r. Return(t) => thread'[t].tune = None
  BY <1>0, <1>n DEF Return
<1>h. \A type : TuneHelper(t, type) => thread'[t].tune = type
  BY <1>0 DEF TuneHelper, Calls
<1>1. CASE Stopping(t)
  <2>1. thread[t].tune = None
    BY <1>0, <1>1, OperationOf DEF Stopping, StopState, StopRetune, StopDownloadsAgain, StopIdle, StopSteps,
       TeardownSteps
  <2> QED BY <1>1, <1>g, <1>h, <1>n, <2>1 DEF Stopping, StopState, StopRetune, StopDownloadsAgain, StopIdle
<1>2. CASE Tearing(t)
  BY <1>2, <1>g DEF Tearing, TeardownStream, AfterDiscontinuity, StopStream, JoinStream, StopSink
<1>3. CASE TuneInternal(t) \/ SeekInternal(t) \/ AtLivePoint(t) \/ SetRateInternal(t) \/ IgnoreTrickPlay(t)
  <2>1. thread[t].at = "entry"
    BY <1>3 DEF TuneInternal, SeekInternal, AtLivePoint, SetRateInternal, IgnoreTrickPlay
  <2>2. thread[t].tune = None
    BY <1>0, <2>1, OperationOf
  <2> QED BY <1>3, <1>g, <1>h, <1>n, <1>r, <2>2 DEF TuneInternal, SeekInternal, AtLivePoint, SetRateInternal, IgnoreTrickPlay
<1>4. CASE UnlockStream(t) \/ NotifySpeedChanged(t)
  <2>1. CASE Return(t)
    <3>1. thread[t].op # "Retune"
      BY <1>4, <2>1, <1>0, <1>n, <1>r, <1>g DEF UnlockStream, NotifySpeedChanged, TailInv, Return, Goto, Calls,
         Idle
    <3>2. thread[t].tune # "RETUNE"
      BY <1>0, <3>1, TuneOf
    <3> QED BY <1>n, <1>r, <2>1, <3>2
  <2> QED BY <1>4, <1>g, <2>1 DEF UnlockStream, NotifySpeedChanged
<1>5. CASE Processing(t)
  <2>0. thread[t].tune = None
    BY <1>0, <1>5, OperationOf DEF Processing, CheckInProgress, CheckSeenInAll, ClaimDiscontinuity,
       BeginDiscontinuity, MonitorProgress, AfterReport, Reconfigure, ReleaseDiscontinuity, DiscontinuityDone,
       DiscoSteps
  <2>1. \/ Return(t)
        \/ \E label \in DiscoSteps : Goto(t, label)
        \/ \E w \in Threads \ {t}, label \in {"discoDone"} : Wake(t, Idle, w, label)
    BY <1>5 DEF Processing, CheckInProgress, CheckSeenInAll, ClaimDiscontinuity, BeginDiscontinuity,
       MonitorProgress, AfterReport, Reconfigure, ReleaseDiscontinuity, DiscontinuityDone, DiscoSteps, Waiting
  <2>2. \A w \in Threads \ {t}, label \in {"discoDone"} : Wake(t, Idle, w, label) => thread'[t].tune = None
    BY <1>0, <1>n DEF Wake
  <2> QED BY <1>g, <1>n, <1>r, <2>0, <2>1, <2>2
<1>6. CASE Reporting(t)
  <2>1. thread[t].tune = None
    BY <1>0, <1>6, OperationOf DEF Reporting, ScheduleDiscontinuity, RequestRetune, RequestTrickRetune,
       ReportSteps
  <2> QED BY <1>6, <1>g, <1>n, <1>r, <2>1
          DEF Reporting, ScheduleDiscontinuity, RequestRetune, RequestTrickRetune
<1>7. CASE \/ LockStream(t) \/ CreateStream(t) \/ InitStream(t) \/ InitFails(t)
           \/ StartStream(t) \/ StreamStarted(t) \/ StreamPrepared(t)
  BY <1>7, <1>g DEF LockStream, CreateStream, InitStream, InitFails, StartStream, StreamStarted,
     StreamPrepared
<1>8. CASE SeekRangeError(t)
  <2>1. thread[t].tune # "RETUNE"
    BY <1>8 DEF SeekRangeError, IsSeek
  <2>2. thread'[t].tune \in {thread[t].tune, "SEEKTOLIVE"}
    BY <1>0, <1>8, <1>g DEF SeekRangeError, Calls
  <2> QED BY <2>1, <2>2
<1> QED BY <1>1, <1>2, <1>3, <1>4, <1>5, <1>6, <1>7, <1>8 DEF Step, Tuning

(* The scheduler's thread sets the state only with a Tune, a Seek or a     *)
(* SetRate, or to ERROR.                                                   *)
LEMMA StateOfRetune ==
  ASSUME ThreadInv, TailInv, NEW t \in Threads, Step(t),
         thread[t].op \in {"Retune", "ProcessDiscontinuity", "ScheduleRetune"}
  PROVE  UNCHANGED mState \/ mState' = "ERROR"
<1> USE DEF At, Entering
<1>0. thread[t] \in Calls /\ InOperation(thread[t])
  BY DEF ThreadInv
<1>1. thread[t].at \notin StopSteps \/ thread[t].tune # None
  BY <1>0, OperationOf
<1>2. thread[t].tune \in {None, "RETUNE"}
  BY <1>0, TuneOf DEF Calls, TuneTypes
<1>3. None \notin {"NEW", "SEEK", "SEEKTOLIVE"}
  BY PlayerAssumption DEF TuneTypes
<1>4. CASE Stopping(t)
  <2>1. thread[t].at \in StopSteps \ TeardownSteps
    BY <1>4 DEF Stopping, StopState, StopRetune, StopDownloadsAgain, StopIdle, StopSteps, TeardownSteps
  <2> QED BY <1>0, <1>1, <2>1, OperationOf
<1>5. CASE Tuning(t)
  <2>1. ~StreamPrepared(t)
    BY <1>2, <1>3 DEF StreamPrepared, TailInv
  <2>2. ~SeekRangeError(t)
    BY <1>2, <1>3 DEF SeekRangeError, IsSeek
  <2>3. ~NotifySpeedChanged(t)
    <3>1. ~At(t, "speed")
      <4>1. CASE thread[t].op = "Retune"
        BY <4>1 DEF TailInv
      <4>2. CASE thread[t].op # "Retune"
        BY <1>0, <4>2, OperationOf, TuneOf DEF TuneSteps, TeardownSteps
      <4> QED BY <4>1, <4>2
    <3> QED BY <3>1 DEF NotifySpeedChanged
  <2> QED BY <1>2, <1>3, <1>5, <2>1, <2>2, <2>3
          DEF Tuning, TuneInternal, SeekInternal, AtLivePoint, SetRateInternal, IgnoreTrickPlay, Retune, LockStream,
              CreateStream, InitStream, InitFails, StartStream, StreamStarted, UnlockStream, RetuneDone
<1> QED BY <1>4, <1>5, StepFrames

LEMMA OthersState ==
  ASSUME OneLoop, ThreadInv, Others
  PROVE  UNCHANGED mState \/ mState' = "ERROR" \/ IsIdle(App) \/ At(App, "firstFrame")
<1>1. CASE API
  BY <1>1 DEF API, Stop, Call
<1>2. CASE Scheduler
  BY <1>2 DEF Scheduler, SuspendScheduler, ResumeScheduler, RunTask
<1>3. CASE Environment
  BY <1>3 DEF Environment, NotifyEOSReached, CollectorFails, Discontinuity, ScheduleRetune,
     NotifyFirstFrameReceived, OneLoop
<1> QED BY <1>1, <1>2, <1>3 DEF Others, vars

(* The collector reports an error of its own while the player plays.       *)
LEMMA CollectorReports ==
  ASSUME OneLoop, SinkOnly, ThreadInv, Others
  PROVE  \/ thread'[Collector] = thread[Collector]
         \/ ~mIsRetuneInProgress /\ mState = "PLAYING" /\ At(Collector, "srDisco")'
<1>0. /\ {App, Sched, Collector} \subseteq Threads /\ thread \in [Threads -> Calls]
      /\ Sched # App /\ Collector # App /\ Collector # Sched
  BY PlayerAssumption DEF Threads, ThreadInv
<1>1. CASE API
  BY <1>0, <1>1 DEF API, Stop, Call, Enter
<1>2. CASE Scheduler
  BY <1>0, <1>2 DEF Scheduler, SuspendScheduler, ResumeScheduler, RunTask, Enter, Goto, Return
<1>3. ASSUME NEW e \in CollectorErrors, ScheduleRetune(Collector, e)
      PROVE  ~mIsRetuneInProgress /\ mState = "PLAYING" /\ At(Collector, "srDisco")'
  <2>1. e \notin {"VIDEO_BUFFERING", "PIPELINE_INTERNAL"}
    BY <1>3 DEF SinkOnly
  <2>2. ~mIsRetuneInProgress /\ mState = "PLAYING" /\ Enter(Collector, "ScheduleRetune", "srDisco", e)
    BY <1>3, <2>1 DEF ScheduleRetune
  <2> QED BY <1>0, <2>2 DEF Enter, At
<1>4. ASSUME Environment, ~ \E e \in CollectorErrors : ScheduleRetune(Collector, e)
      PROVE  thread'[Collector] = thread[Collector]
  <2>1. CASE \E e \in LoopErrors : ScheduleRetune(App, e)
    BY <1>0, <2>1 DEF ScheduleRetune, Enter
  <2>2. CASE NotifyEOSReached
    BY <1>0, <2>2 DEF NotifyEOSReached, Enter, OneLoop
  <2>3. CASE NotifyFirstFrameReceived
    BY <1>0, <2>3 DEF NotifyFirstFrameReceived, Enter, Return, OneLoop
  <2>4. CASE CollectorFails \/ \E track \in Tracks : Discontinuity(track)
    BY <2>4 DEF CollectorFails, Discontinuity
  <2> QED BY <1>4, <2>1, <2>2, <2>3, <2>4 DEF Environment, OneLoop
<1> QED BY <1>1, <1>2, <1>3, <1>4 DEF Others, vars

LEMMA RetuneStep ==
  ASSUME OneLoop, SinkOnly
  PROVE  /\ ThreadInv /\ SuspendInv /\ StreamInv /\ TailInv /\ RetuneInv
         /\ [Next]_vars
         => RetuneInv'
<1> SUFFICES ASSUME ThreadInv, SuspendInv, StreamInv, TailInv, RetuneInv, [Next]_vars
             PROVE  RetuneInv'
  OBVIOUS
<1> USE DEF At
<1>0. /\ {App, Sched, Collector} \subseteq Threads /\ thread \in [Threads -> Calls]
      /\ Sched # App /\ Collector # App /\ Collector # Sched
  BY PlayerAssumption DEF Threads, ThreadInv
<1>u. \A u \in Threads : thread[u] \in Calls /\ InOperation(thread[u])
  BY DEF ThreadInv
<1>n. None # "RETUNE"
  BY PlayerAssumption DEF TuneTypes
<1>1. CASE Others
  <2>1. UNCHANGED <<reTune, mIsRetuneInProgress>>
    BY <1>1, OthersMove
  <2>2. \A u \in Threads :
          \/ thread'[u] = thread[u]
          \/ /\ thread[u].tune # "RETUNE" /\ thread'[u].at \in Outside
             /\ thread'[u].tune \in {None, "SEEKTOLIVE"}
    BY <1>1, <1>n, OthersMove
  <2>3. \A u \in Threads : thread'[u].tune = "RETUNE" <=> thread[u].tune = "RETUNE"
    BY <1>n, <2>2
  <2>4. \A u \in Threads : thread'[u] = thread[u]
           \/ thread'[u].at \notin {"stopRetune", "waitRetune", "retuneDone", "stopSink", "create", "retuned"}
                                    \union BuiltSteps
    BY <2>2 DEF Outside, BuiltSteps
  <2>5. thread[App].at \in {"stopRetune", "waitRetune", "retuneDone"}
          => mState \in {"STOPPING", "ERROR"} /\ mState' \in {"STOPPING", "ERROR"}
    <3>1. IsIdle(App) => thread[App].at = "idle"
      BY IdleCall DEF IsIdle
    <3> QED BY <1>1, <3>1, OthersState DEF RetuneInv
  <2>6. \/ thread'[Collector] = thread[Collector]
        \/ ~mIsRetuneInProgress /\ mState = "PLAYING" /\ thread'[Collector].at = "srDisco"
    BY <1>1, CollectorReports
  <2> QED BY <1>0, <2>1, <2>3, <2>4, <2>5, <2>6 DEF RetuneInv, Rebuilt, IsIdle
<1>2. ASSUME NEW t \in Threads, Step(t) PROVE RetuneInv'
  <2>1. Moves(t)
    BY <1>2, StepMoves
  <2>2. \A u \in Threads \ {t} :
          \/ thread'[u] = thread[u]
          \/ /\ thread'[u].tune = thread[u].tune
             /\ \/ At(u, "waitRetune") /\ At(u, "retuneDone")' /\ At(t, "retuned")
                \/ At(u, "waitDisco") /\ At(u, "discoDone")'
    BY <2>1 DEF Moves, Woken
  <2>3. Arrives(t)
    BY <1>2, StepArrives
  <2>4. mIsRetuneInProgress' <=> thread'[Sched].tune = "RETUNE"
    <3>1. CASE Retune(t)
      <4>1. t = Sched
        BY <1>u, <3>1, ThreadOf DEF Retune, Entering
      <4>2. thread[Sched].tune = None
        BY <1>0, <1>u, <3>1, <4>1, OperationOf DEF Retune, Entering
      <4> QED BY <1>0, <1>n, <1>u, <3>1, <4>1, <4>2, IdleCall
              DEF RetuneInv, Retune, TuneHelper, Return, Calls
    <3>2. CASE RetuneDone(t)
      <4>1. t = Sched
        BY <3>2, ThreadOf DEF RetuneDone, TailInv
      <4>2. thread'[t] = Idle
        BY <1>0, <3>2 DEF RetuneDone, Return, Wake, Waiting
      <4> QED BY <1>n, <3>2, <4>1, <4>2, IdleCall DEF RetuneDone
    <3>3. CASE ~Retune(t) /\ ~RetuneDone(t)
      <4>1. UNCHANGED mIsRetuneInProgress
        BY <1>2, <3>3, StepFrames
      <4>2. thread'[Sched].tune = "RETUNE" <=> thread[Sched].tune = "RETUNE"
        BY <1>0, <1>2, <2>2, <3>3, RetuneType
      <4> QED BY <4>1, <4>2 DEF RetuneInv
    <3> QED BY <3>1, <3>2, <3>3
  <2>5. StopRetune(t) /\ At(t, "waitRetune")' => t = App /\ mIsRetuneInProgress /\ UNCHANGED mIsRetuneInProgress
    <3>1. SUFFICES ASSUME StopRetune(t), At(t, "waitRetune")'
                   PROVE  t = App /\ mIsRetuneInProgress /\ UNCHANGED mIsRetuneInProgress
      OBVIOUS
    <3>2. thread[t].at \in StopSteps \ TeardownSteps
      BY <3>1 DEF StopRetune, StopSteps, TeardownSteps
    <3>3. thread[t].tune = None /\ t # Collector
      BY <1>u, <3>2, OperationOf, ThreadOf, IdleCall DEF StopSteps, TeardownSteps, ReportSteps, IsIdle
    <3>4. mIsRetuneInProgress /\ UNCHANGED mIsRetuneInProgress
      BY <1>0, <1>u, <3>1 DEF StopRetune, Goto, Calls
    <3>5. t # Sched
      BY <1>n, <3>3, <3>4 DEF RetuneInv
    <3> QED BY <3>3, <3>4, <3>5, ThreadOf
  <2>6. \A u \in Threads : At(u, "waitRetune")' \/ At(u, "retuneDone")' => u = App
    BY <2>2, <2>3, <2>5 DEF RetuneInv, Arrives
  <2>7. At(App, "waitRetune")' => mIsRetuneInProgress'
    <3>1. SUFFICES ASSUME At(App, "waitRetune")' PROVE mIsRetuneInProgress'
      OBVIOUS
    <3>2. CASE StopRetune(t) /\ t = App
      BY <2>5, <3>1, <3>2
    <3>3. CASE At(App, "waitRetune") /\ t # App
      <4>1. ~RetuneDone(t)
        <5>1. ASSUME RetuneDone(t) PROVE FALSE
          <6>1. PICK w \in Waiting("waitRetune") : Wake(t, Idle, w, "retuneDone")
            BY <1>0, <3>3, <5>1 DEF RetuneDone, Waiting
          <6>2. w = App
            BY <6>1 DEF Waiting, RetuneInv
          <6> QED BY <1>0, <1>u, <3>1, <3>3, <6>1, <6>2 DEF Wake, Calls
        <5> QED BY <5>1
      <4> QED BY <1>2, <3>3, <4>1, StepFrames DEF RetuneInv, Retune
    <3> QED BY <1>0, <2>2, <2>3, <3>1, <3>2, <3>3 DEF Arrives
  <2>8. thread'[App].at \in {"stopRetune", "waitRetune", "retuneDone"} => mState' \in {"STOPPING", "ERROR"}
    <3>1. SUFFICES ASSUME thread'[App].at \in {"stopRetune", "waitRetune", "retuneDone"}
                   PROVE  mState' \in {"STOPPING", "ERROR"}
      OBVIOUS
    <3>2. CASE t = App
      <4>1. StopState(App) \/ (StopRetune(App) /\ At(App, "waitRetune")')
        BY <2>3, <3>1, <3>2 DEF Arrives
      <4>2. StopRetune(App) /\ At(App, "waitRetune")' => At(App, "stopRetune") /\ UNCHANGED mState
        BY <1>0, <1>u DEF StopRetune, Goto, Calls
      <4> QED BY <4>1, <4>2 DEF StopState, RetuneInv
    <3>3. CASE t # App
      <4>1. thread[App].at \in {"stopRetune", "waitRetune", "retuneDone"}
        BY <1>0, <2>2, <3>1, <3>3
      <4>2. thread[App].op \in {"Stop", "Tune"}
        BY <1>0, <1>u, <4>1, OperationOf DEF StopSteps, TeardownSteps
      <4>3. thread[t].op \in {"Retune", "ProcessDiscontinuity", "ScheduleRetune"}
        <5>1. ~IsIdle(t) /\ thread[t].op # "none"
          BY <1>u, <2>1, OperationOf DEF Moves, IsIdle
        <5>2. CASE t = Collector
          BY <5>1, <5>2 DEF ThreadInv
        <5>3. CASE t = Sched
          <6>1. ~suspended
            BY <5>1, <5>3 DEF SuspendInv
          <6>2. thread[App].op = "Tune"
            BY <4>1, <4>2, <6>1 DEF SuspendInv, StopRuns
          <6>3. ~mAsyncTuneEnabled
            BY <1>0, <6>2, ThreadOf
          <6> QED BY <5>1, <5>3, <6>3, ThreadOf DEF SchedOps
        <5> QED BY <3>3, <5>2, <5>3, ThreadOf
      <4> QED BY <1>2, <4>1, <4>3, StateOfRetune DEF RetuneInv
    <3> QED BY <3>2, <3>3
  <2>9. IsIdle(Collector) => IsIdle(Collector)' /\ t # Collector
    BY <1>0, <2>1, <2>2, IdleCall DEF Moves, IsIdle
  <2>10. mIsRetuneInProgress' /\ Rebuilt(Sched)' => IsIdle(Collector)'
    <3>1. SUFFICES ASSUME mIsRetuneInProgress', Rebuilt(Sched)' PROVE IsIdle(Collector)'
      OBVIOUS
    <3>2. CASE Rebuilt(Sched) /\ mIsRetuneInProgress
      BY <2>9, <3>2 DEF RetuneInv
    <3>3. CASE JoinStream(t)
      BY <2>9, <3>3 DEF JoinStream, StreamInv
    <3>4. Rebuilt(Sched) \/ JoinStream(t)
      <4>1. CASE t = Sched
        <5>1. At(Sched, "stopSink")' => JoinStream(t)
          BY <2>3, <4>1 DEF Arrives
        <5>2. At(Sched, "create")' => At(Sched, "stopSink")
          BY <2>3, <4>1 DEF Arrives, StopSink
        <5>3. At(Sched, "retuned")' => At(Sched, "unlock")
          BY <2>3, <4>1 DEF Arrives, UnlockStream
        <5>4. thread'[Sched].at \in BuiltSteps => thread[Sched].at \in BuiltSteps \union {"create"}
          BY <1>0, <1>2, <4>1, BuiltFrom DEF CreateStream
        <5> QED BY <3>1, <5>1, <5>2, <5>3, <5>4 DEF Rebuilt, BuiltSteps
      <4>2. CASE t # Sched
        BY <1>0, <2>2, <3>1, <4>2 DEF Rebuilt, BuiltSteps
      <4> QED BY <4>1, <4>2
    <3>5. mIsRetuneInProgress \/ ~Rebuilt(Sched)
      <4>1. CASE Retune(t)
        <5>1. t = Sched
          BY <4>1, ThreadOf DEF Retune, Entering
        <5> QED BY <4>1, <5>1 DEF Retune, Entering, Rebuilt, BuiltSteps
      <4>2. CASE ~Retune(t)
        BY <1>2, <3>1, <4>2, StepFrames DEF RetuneDone
      <4> QED BY <4>1, <4>2
    <3>6. CASE ~Rebuilt(Sched)
      BY <3>3, <3>4, <3>6
    <3> QED BY <3>2, <3>5, <3>6
  <2>11. At(App, "retuneDone")' => ~reTune' /\ IsIdle(Collector)'
    <3>1. SUFFICES ASSUME At(App, "retuneDone")' PROVE ~reTune' /\ IsIdle(Collector)'
      OBVIOUS
    <3>2. t # App
      BY <2>3, <3>1 DEF Arrives
    <3>3. CASE At(App, "waitRetune") /\ At(t, "retuned")
      <4>1. t = Sched
        BY <3>3, ThreadOf DEF TailInv
      <4>2. IsIdle(Collector)
        BY <3>3, <4>1 DEF RetuneInv, Rebuilt
      <4>3. RetuneDone(t)
        BY <1>2, <3>3 DEF Step, Stopping, Tearing, Tuning, Processing, Reporting, Entering,
           StopState, StopRetune, StopDownloadsAgain, StopIdle, TeardownStream, AfterDiscontinuity,
           StopStream, JoinStream, StopSink, TuneInternal, SeekInternal, AtLivePoint, SetRateInternal, IgnoreTrickPlay,
           Retune, LockStream, CreateStream, InitStream, InitFails, SeekRangeError, StartStream,
           StreamStarted, StreamPrepared, UnlockStream, NotifySpeedChanged, CheckInProgress,
           CheckSeenInAll, ClaimDiscontinuity, BeginDiscontinuity, MonitorProgress, AfterReport,
           Reconfigure, ReleaseDiscontinuity, DiscontinuityDone, ScheduleDiscontinuity, RequestRetune,
           RequestTrickRetune
      <4> QED BY <2>9, <4>2, <4>3 DEF RetuneDone
    <3>4. CASE At(App, "retuneDone")
      <4>1. ~reTune /\ IsIdle(Collector)
        BY <3>4 DEF RetuneInv
      <4>2. ~Reporting(t)
        <5>1. Reporting(t) => thread[t].at \in ReportSteps
          BY DEF Reporting, ScheduleDiscontinuity, RequestRetune, RequestTrickRetune, ReportSteps
        <5>2. Reporting(t) => thread[t].op = "ScheduleRetune"
          BY <1>u, <5>1, OperationOf
        <5> QED BY <2>9, <3>2, <4>1, <5>2, ThreadOf
      <4>3. ~reTune'
        BY <1>2, <4>1, <4>2, StepFrames DEF StopRetune, RetuneDone
      <4> QED BY <2>9, <4>1, <4>3
    <3> QED BY <1>0, <2>2, <3>1, <3>2, <3>3, <3>4
  <2>12. mIsRetuneInProgress' => reTune'
    <3>1. CASE Retune(t)
      BY <3>1 DEF Retune, RetuneInv
    <3>2. CASE RetuneDone(t)
      BY <3>2 DEF RetuneDone
    <3>3. CASE StopRetune(t)
      <4>1. At(t, "retuneDone") => ~reTune
        BY DEF RetuneInv
      <4> QED BY <3>3, <4>1 DEF StopRetune, RetuneInv
    <3>4. CASE Reporting(t)
      BY <3>4 DEF Reporting, ScheduleDiscontinuity, RequestRetune, RequestTrickRetune, RetuneInv, retuneVars
    <3> QED BY <1>2, <3>1, <3>2, <3>3, <3>4, StepFrames DEF RetuneInv
  <2>13. ~At(Collector, "srTrick")'
    BY <1>0, <2>2, <2>3 DEF RetuneInv, Arrives
  <2> HIDE DEF At
  <2> QED BY <2>4, <2>6, <2>7, <2>8, <2>10, <2>11, <2>12, <2>13 DEF RetuneInv, At
<1> QED BY <1>1, <1>2 DEF Next, Others

------------------------------------------------------------------------------
(* The idle player.                                                        *)
Pending == TeardownSteps \union {"lockStream", "create"}

LEMMA IdleByStop ==
  ASSUME NEW t \in Threads, Step(t), mState' = "IDLE"
  PROVE  StopIdle(t) \/ mState = "IDLE"
<1>1. CASE Stopping(t)
  BY <1>1 DEF Stopping, StopState, StopRetune, StopDownloadsAgain
<1>2. CASE Tuning(t)
  BY <1>2 DEF Tuning, TuneInternal, SeekInternal, AtLivePoint, SetRateInternal, IgnoreTrickPlay, Retune, LockStream,
     CreateStream, InitStream, InitFails, SeekRangeError, StartStream, StreamStarted,
     StreamPrepared, UnlockStream, NotifySpeedChanged, RetuneDone
<1> QED BY <1>1, <1>2, StepFrames

(* A Tune that has not created its stream is on its way to it.             *)
LEMMA PendingStep ==
  ASSUME ThreadInv, NEW t \in Threads, Step(t), thread[t].tune = "NEW", thread[t].at \in Pending
  PROVE  CreateStream(t) \/ (thread'[t].tune = "NEW" /\ thread'[t].at \in Pending)
<1> USE DEF At
<1>0. thread \in [Threads -> Calls] /\ thread[t] \in Calls /\ InOperation(thread[t])
  BY DEF ThreadInv
<1>n. thread[t].tune # None
  BY PlayerAssumption DEF TuneTypes
<1>1. ~Stopping(t)
  BY DEF Stopping, StopState, StopRetune, StopDownloadsAgain, StopIdle, Pending, TeardownSteps
<1>2. ~Processing(t)
  BY DEF Processing, CheckInProgress, CheckSeenInAll, ClaimDiscontinuity, BeginDiscontinuity,
     MonitorProgress, AfterReport, Reconfigure, ReleaseDiscontinuity, DiscontinuityDone, Entering, Pending,
     TeardownSteps
<1>3. ~Reporting(t)
  BY DEF Reporting, ScheduleDiscontinuity, RequestRetune, RequestTrickRetune, Pending, TeardownSteps
<1>4. CASE Tearing(t)
  <2>1. PICK label \in Pending : Goto(t, label)
    BY <1>4, <1>n DEF Tearing, TeardownStream, AfterDiscontinuity, StopStream, JoinStream, StopSink, Pending,
       TeardownSteps
  <2> QED BY <1>0, <2>1 DEF Goto, Calls
<1>5. CASE LockStream(t)
  BY <1>0, <1>5 DEF LockStream, Goto, Calls, Pending, TeardownSteps
<1>6. CASE Tuning(t) /\ ~LockStream(t)
  BY <1>6 DEF Tuning, TuneInternal, SeekInternal, AtLivePoint, SetRateInternal, IgnoreTrickPlay, Retune,
     InitStream, InitFails, SeekRangeError, StartStream, StreamStarted,
     StreamPrepared, UnlockStream, NotifySpeedChanged, RetuneDone, Entering, Pending, TeardownSteps
<1> QED BY <1>1, <1>2, <1>3, <1>4, <1>5, <1>6 DEF Step

(* The steps of an operation that has just been entered without a stream.  *)
LEMMA EntryStep ==
  ASSUME ThreadInv, NEW t \in Threads, Step(t), At(t, "entry"), thread[t].op \in ApiOps,
         ~mpStreamAbstractionAAMP, mState = "IDLE"
  PROVE  /\ TuneHelper(t, "NEW") \/ Return(t)
         /\ UNCHANGED <<mpStreamAbstractionAAMP, mSeekOperationInProgress, tasks, suspended>>
<1> USE DEF At, Entering, ApiOps
<1>1. ~Stopping(t)
  BY DEF Stopping, StopState, StopRetune, StopDownloadsAgain, StopIdle
<1>2. ~Tearing(t)
  BY DEF Tearing, TeardownStream, AfterDiscontinuity, StopStream, JoinStream, StopSink
<1>3. ~Processing(t)
  BY DEF Processing, CheckInProgress, CheckSeenInAll, ClaimDiscontinuity, BeginDiscontinuity,
     MonitorProgress, AfterReport, Reconfigure, ReleaseDiscontinuity, DiscontinuityDone
<1>4. ~Reporting(t)
  BY DEF Reporting, ScheduleDiscontinuity, RequestRetune, RequestTrickRetune
<1>5. TuneInternal(t) \/ SeekInternal(t) \/ SetRateInternal(t) \/ IgnoreTrickPlay(t)
  BY <1>1, <1>2, <1>3, <1>4 DEF Step, Tuning, AtLivePoint, Retune, LockStream, CreateStream, InitStream,
     InitFails, SeekRangeError, StartStream, StreamStarted, StreamPrepared, UnlockStream,
     NotifySpeedChanged, RetuneDone
<1> QED BY <1>5 DEF TuneInternal, SeekInternal, SetRateInternal, IgnoreTrickPlay, streamVars, seekVars, schedVars

LEMMA IdleStep ==
  ASSUME OneLoop
  PROVE  /\ ThreadInv /\ SuspendInv /\ StreamInv /\ IdleInv
         /\ [Next]_vars /\ ThreadInv' /\ SuspendInv'
         => IdleInv'
<1> SUFFICES ASSUME ThreadInv, SuspendInv, StreamInv, IdleInv, [Next]_vars, ThreadInv', SuspendInv'
             PROVE  IdleInv'
  OBVIOUS
<1> USE DEF At
<1>0. /\ {App, Sched, Collector} \subseteq Threads /\ thread \in [Threads -> Calls]
      /\ Sched # App /\ Collector # App /\ Collector # Sched
  BY PlayerAssumption DEF Threads, ThreadInv
<1>u. \A u \in Threads : thread[u] \in Calls /\ InOperation(thread[u])
  BY DEF ThreadInv
<1>v. \A u \in Threads : thread'[u] \in Calls /\ InOperation(thread'[u])
  BY DEF ThreadInv
<1>n. None # "NEW"
  BY PlayerAssumption DEF TuneTypes
<1>1. CASE Others
  <2>1. UNCHANGED <<mpStreamAbstractionAAMP, mSeekOperationInProgress>>
    BY <1>1, OthersMove
  <2>2. thread'[App].at \in {"stopSink", "stopIdle"} => thread'[App] = thread[App]
    BY <1>0, <1>1, OthersMove DEF Outside
  <2>3. suspended' /\ thread'[App].at \in {"stopSink", "stopIdle"} => ~mpStreamAbstractionAAMP'
    BY <2>1, <2>2 DEF IdleInv, SuspendInv, StopRuns
  <2>4. mState' = "IDLE" => mState = "IDLE"
    <3>1. CASE API
      BY <3>1 DEF API, Stop, Call
    <3>2. CASE Scheduler
      BY <3>2 DEF Scheduler, SuspendScheduler, ResumeScheduler, RunTask
    <3>3. CASE Environment
      BY <3>3 DEF Environment, NotifyEOSReached, CollectorFails, Discontinuity, ScheduleRetune,
         NotifyFirstFrameReceived
    <3> QED BY <1>1, <3>1, <3>2, <3>3 DEF Others, vars
  <2>5. CASE NewPending
    <3>1. NewPending'
      BY <1>1, <1>n, <2>5, OthersMove DEF NewPending
    <3> QED BY <2>3, <3>1 DEF IdleInv
  <2>6. CASE Calm
    <3>0. pipeline = "stopped" /\ thread[App].at # "firstFrame"
      <4>1. App \in Threads
        BY <1>0
      <4>2. thread[App].at = "firstFrame" => thread[App].op # "Stop"
        BY <1>u, <4>1, OperationOf
      <4> QED BY <2>6, <4>1, <4>2 DEF Calm, StreamInv
    <3> SUFFICES Calm'
      BY <2>3 DEF IdleInv
    <3>1. ASSUME NEW t \in {App, Sched}, \A u \in Threads \ {t} : thread'[u] = thread[u],
                 thread'[t].tune = None, tasks' \in QueueOf(ApiOps),
                 \/ thread'[t].at \in {"idle", "suspend", "resume"}
                 \/ thread'[t].at = "entry" /\ thread'[t].op \in ApiOps
                 \/ t = App /\ thread'[t].op = "Stop"
          PROVE  Calm'
      BY <2>1, <2>6, <3>1 DEF Calm
    <3>2. ASSUME UNCHANGED thread, tasks' \in QueueOf(ApiOps) PROVE Calm'
      BY <2>1, <2>6, <3>2 DEF Calm
    <3>3. ASSUME NEW op \in ApiOps, NEW arg \in Args, Call(op, arg) PROVE Calm'
      <4>1. CASE Enter(App, op, "entry", arg) /\ UNCHANGED schedVars
        BY <1>0, <2>6, <3>1, <4>1 DEF Enter, schedVars, Calm
      <4>2. CASE ScheduleTask(op, arg) /\ UNCHANGED thread
        BY <2>6, <3>2, <4>2, ScheduledQueue DEF Calm, ThreadInv
      <4> QED BY <3>3, <4>1, <4>2 DEF Call
    <3>4. CASE Stop
      BY <1>0, <2>6, <3>1, <3>4 DEF Stop, Enter, schedVars, Calm
    <3>5. CASE SuspendScheduler
      <4>1. thread[App].tune = None /\ thread[App].op = "Stop"
        BY <1>0, <1>u, <3>5, OperationOf DEF SuspendScheduler
      <4>2. /\ \A u \in Threads \ {App} : thread'[u] = thread[u]
            /\ thread'[App].tune = None /\ thread'[App].op = "Stop" /\ tasks' = <<>>
        BY <1>0, <1>u, <3>5, <4>1 DEF SuspendScheduler, Goto, Calls
      <4> QED BY <3>1, <4>2 DEF QueueOf
    <3>6. CASE ResumeScheduler
      BY <1>0, <2>6, <3>1, <3>6, IdleCall DEF ResumeScheduler, Return, Calm
    <3>7. CASE RunTask
      <4>1. Head(tasks).op \in ApiOps /\ tasks' \in QueueOf(ApiOps)
        BY <2>6, <3>7, PoppedQueue DEF RunTask, Calm
      <4>2. CASE UNCHANGED thread
        BY <3>2, <4>1, <4>2
      <4>3. CASE Enter(Sched, Head(tasks).op, "entry", Head(tasks).arg)
        BY <1>0, <3>1, <4>1, <4>3 DEF Enter
      <4> QED BY <3>7, <4>2, <4>3 DEF RunTask
    <3>8. CASE Environment
      <4>1. \E track \in Tracks : Discontinuity(track)
        BY <3>0, <3>8 DEF Environment, NotifyEOSReached, CollectorFails, ScheduleRetune,
           NotifyFirstFrameReceived, OneLoop
      <4>2. UNCHANGED <<thread, tasks>>
        BY <4>1 DEF Discontinuity, schedVars
      <4> QED BY <2>6, <3>2, <4>2 DEF Calm
    <3>9. CASE UNCHANGED vars
      BY <2>6, <3>2, <3>9 DEF vars, schedVars, Calm
    <3>10. {"none", "pause", "normal", "trick"} \subseteq Args /\ {"Tune", "Seek", "SetRate"} \subseteq ApiOps
      BY DEF Args, ApiOps
    <3> QED BY <1>1, <3>3, <3>4, <3>5, <3>6, <3>7, <3>8, <3>9, <3>10 DEF Others, API, Scheduler
  <2> QED BY <2>3, <2>4, <2>5, <2>6 DEF IdleInv
<1>2. ASSUME NEW t \in Threads, Step(t) PROVE IdleInv'
  <2>1. Moves(t)
    BY <1>2, StepMoves
  <2>2. Arrives(t)
    BY <1>2, StepArrives
  <2>3. suspended' /\ thread'[App].at \in {"stopSink", "stopIdle"} => ~mpStreamAbstractionAAMP'
    <3>1. SUFFICES ASSUME suspended, thread'[App].at \in {"stopSink", "stopIdle"}
                   PROVE  ~mpStreamAbstractionAAMP'
      BY <2>1 DEF Moves
    <3>2. CASE t = App
      BY <2>2, <3>1, <3>2 DEF Arrives, JoinStream, StopSink, IdleInv
    <3>3. CASE t # App
      <4>1. t = Collector /\ thread[t].at \in ReportSteps
        BY <2>1, <3>1, <3>3, ThreadOf DEF Moves, SuspendInv
      <4>2. UNCHANGED mpStreamAbstractionAAMP
        BY <1>2, <4>1, StepFrames DEF CreateStream, JoinStream, ReportSteps
      <4>3. thread'[App] = thread[App]
        BY <1>0, <2>1, <3>1, <3>3 DEF Moves, Woken
      <4> QED BY <3>1, <4>2, <4>3 DEF IdleInv
    <3> QED BY <3>2, <3>3
  <2>4. CASE StopIdle(t)
    <3>1. CASE thread[t].op = "Tune"
      <4>1. thread'[t].tune = "NEW" /\ thread'[t].at = "lockStream"
        BY <1>0, <1>u, <2>4, <3>1 DEF StopIdle, TuneHelper, Calls
      <4>2. NewPending'
        BY <4>1 DEF NewPending
      <4> QED BY <2>3, <4>2 DEF IdleInv
    <3>2. CASE thread[t].op # "Tune"
      <4>1. thread[t].op = "Stop" /\ thread[t].tune = None /\ t = App
        BY <1>u, <2>4, <3>2, OperationOf, ThreadOf DEF StopIdle, StopSteps, TeardownSteps
      <4>2. suspended
        BY <2>4, <4>1 DEF SuspendInv, StopRuns, StopIdle
      <4>3. ~mpStreamAbstractionAAMP /\ IsIdle(Collector) /\ IsIdle(Sched) /\ tasks = <<>>
        BY <2>4, <4>1, <4>2 DEF SuspendInv, StreamInv, IdleInv, StopIdle
      <4>4. UNCHANGED <<mpStreamAbstractionAAMP, tasks>> /\ ~mSeekOperationInProgress'
        BY <2>4 DEF StopIdle, streamVars, schedVars
      <4>5. /\ thread'[App].at = "resume" /\ thread'[App].tune = None
            /\ thread'[Collector] = Idle /\ thread'[Sched] = Idle
        BY <1>0, <1>u, <2>4, <3>2, <4>1, <4>3 DEF StopIdle, Goto, Calls, IsIdle
      <4>6. Threads = {App, Sched, Collector}
        BY DEF Threads, OneLoop
      <4>7. Calm'
        BY <4>3, <4>4, <4>5, <4>6, IdleCall DEF Calm, QueueOf
      <4> QED BY <2>3, <4>7 DEF IdleInv
    <3> QED BY <3>1, <3>2
  <2>5. CASE mState = "IDLE" /\ ~StopIdle(t) /\ mState' = "IDLE" /\ NewPending
    <3>1. PICK w \in Threads : thread[w].tune = "NEW" /\ thread[w].at \in Pending
      BY <2>5 DEF NewPending, Pending
    <3>2. thread'[w].tune = "NEW" /\ thread'[w].at \in Pending
      <4>1. CASE w = t
        BY <1>2, <2>5, <3>1, <4>1, PendingStep DEF CreateStream
      <4>2. CASE w # t
        BY <2>1, <3>1, <4>2 DEF Moves, Woken, Pending, TeardownSteps
      <4> QED BY <4>1, <4>2
    <3>3. NewPending'
      BY <3>2 DEF NewPending, Pending
    <3> QED BY <2>3, <3>3 DEF IdleInv
  <2>6. CASE mState = "IDLE" /\ ~StopIdle(t) /\ mState' = "IDLE" /\ Calm
    <3>1. \/ At(t, "entry") /\ thread[t].op \in ApiOps
          \/ t = App /\ thread[t].op = "Stop" /\ thread[t].at \in StopSteps
      <4>1. ~At(t, "resume")
        BY <1>2 DEF Step, Stopping, Tearing, Tuning, Processing, Reporting, Entering,
           StopState, StopRetune, StopDownloadsAgain, StopIdle, TeardownStream, AfterDiscontinuity,
           StopStream, JoinStream, StopSink, TuneInternal, SeekInternal, AtLivePoint, SetRateInternal, IgnoreTrickPlay,
           Retune, LockStream, CreateStream, InitStream, InitFails, SeekRangeError, StartStream,
           StreamStarted, StreamPrepared, UnlockStream, NotifySpeedChanged, RetuneDone, CheckInProgress,
           CheckSeenInAll, ClaimDiscontinuity, BeginDiscontinuity, MonitorProgress, AfterReport,
           Reconfigure, ReleaseDiscontinuity, DiscontinuityDone, ScheduleDiscontinuity, RequestRetune,
           RequestTrickRetune
      <4>2. ~At(t, "idle") /\ ~At(t, "suspend")
        BY <1>u, <2>1, OperationOf DEF Moves, IsIdle
      <4> QED BY <1>u, <2>6, <4>1, <4>2, OperationOf DEF Calm
    <3>2. CASE At(t, "entry") /\ thread[t].op \in ApiOps
      <4>1. /\ TuneHelper(t, "NEW") \/ Return(t)
            /\ UNCHANGED <<mpStreamAbstractionAAMP, mSeekOperationInProgress, tasks, suspended>>
        BY <1>2, <2>6, <3>2, EntryStep DEF Calm
      <4>2. CASE TuneHelper(t, "NEW")
        <5>1. thread'[t].tune = "NEW" /\ thread'[t].at = "lockStream"
          BY <1>0, <1>u, <4>2 DEF TuneHelper, Calls
        <5>2. NewPending'
          BY <5>1 DEF NewPending
        <5> QED BY <2>3, <5>2 DEF IdleInv
      <4>3. CASE Return(t)
        <5>1. Calm'
          BY <1>0, <2>6, <4>1, <4>3, IdleCall DEF Return, Calm
        <5> QED BY <2>3, <5>1 DEF IdleInv
      <4> QED BY <4>1, <4>2, <4>3
    <3>3. CASE t = App /\ thread[t].op = "Stop" /\ thread[t].at \in StopSteps
      <4>1. thread'[t].op = "Stop" /\ thread'[t].tune = None
        BY <1>v, <2>1, <3>3, TuneOf DEF Moves
      <4>2. \A u \in Threads \ {t} : thread'[u] = thread[u]
        BY <2>1, <3>3 DEF Moves, Woken, StopSteps, TeardownSteps
      <4>3. thread[t].tune = None
        BY <1>u, <3>3, TuneOf
      <4>4. ~mpStreamAbstractionAAMP'
        <5>1. ~CreateStream(t)
          BY <3>3 DEF CreateStream, StopSteps, TeardownSteps
        <5> QED BY <1>2, <2>6, <5>1, StepFrames DEF JoinStream, Calm
      <4>5. ~mSeekOperationInProgress'
        <5>1. ~LockStream(t) /\ ~StreamStarted(t)
          BY <3>3 DEF LockStream, StreamStarted, StopSteps, TeardownSteps
        <5> QED BY <1>2, <2>6, <5>1, StepFrames DEF Calm
      <4>6. tasks' \in QueueOf(ApiOps)
        <5>1. ~Reporting(t)
          BY <3>3 DEF Reporting, ScheduleDiscontinuity, RequestRetune, RequestTrickRetune, StopSteps,
             TeardownSteps
        <5>2. Tearing(t) => UNCHANGED tasks \/ \E id : tasks' = RemoveTask(id)
          BY DEF Tearing, TeardownStream, AfterDiscontinuity, StopStream, JoinStream, StopSink, schedVars
        <5>3. \A id : RemoveTask(id) \in QueueOf(ApiOps)
          BY <2>6, ErasedQueue DEF Calm, QueueOf
        <5> QED BY <1>2, <2>6, <5>1, <5>2, <5>3, StepFrames DEF Calm
      <4>7. Calm'
        BY <2>6, <3>3, <4>1, <4>2, <4>4, <4>5, <4>6 DEF Calm
      <4> QED BY <2>3, <4>7 DEF IdleInv
    <3> QED BY <3>1, <3>2, <3>3
  <2>7. CASE mState' # "IDLE"
    BY <2>3, <2>7 DEF IdleInv
  <2> QED BY <1>2, <2>4, <2>5, <2>6, <2>7, IdleByStop DEF IdleInv
<1> QED BY <1>1, <1>2 DEF Next, Others

------------------------------------------------------------------------------
LockType == mStreamLock \in Threads \union {None}

PlayerInv == ThreadInv /\ SuspendInv /\ LockInv /\ LockType /\ StreamInv /\ TailInv /\ IdleInv

LEMMA PlayerInit == ASSUME OneLoop PROVE Init => PlayerInv /\ RetuneInv
<1> SUFFICES ASSUME Init PROVE PlayerInv /\ RetuneInv OBVIOUS
<1>1. \A t \in Threads : thread[t] = Idle
  BY DEF Init
<1>2. Threads = {App, Sched, Collector}
  BY DEF Threads, OneLoop
<1>3. InOperation(Idle) /\ Idle \in Calls /\ thread \in [Threads -> Calls]
  BY IdleCall DEF InOperation, Init
<1>4. None # "RETUNE" /\ None \notin Threads
  BY PlayerAssumption DEF TuneTypes, Threads
<1>5. tasks = <<>> /\ lastTask = 0 /\ ~suspended /\ mStreamLock = None /\ pipeline = "stopped"
      /\ ~mIsRetuneInProgress /\ ~reTune /\ ~mpStreamAbstractionAAMP /\ ~mSeekOperationInProgress
  BY DEF Init
<1>6. ThreadInv
  BY <1>1, <1>2, <1>3, <1>5, IdleCall DEF ThreadInv, AppOps, QueueOf
<1>7. SuspendInv
  BY <1>1, <1>2, <1>5, IdleCall DEF SuspendInv, StopRuns
<1>8. LockInv /\ LockType
  BY <1>1, <1>4, <1>5, IdleCall DEF LockInv, LockType, InStream, At
<1>9. StreamInv /\ TailInv
  BY <1>1, <1>2, <1>5, IdleCall DEF StreamInv, TailInv, At, IsIdle
<1>10. IdleInv
  BY <1>1, <1>5, IdleCall DEF IdleInv, Calm, QueueOf
<1>11. RetuneInv
  BY <1>1, <1>2, <1>4, <1>5, IdleCall DEF RetuneInv, At, Rebuilt
<1> QED BY <1>6, <1>7, <1>8, <1>9, <1>10, <1>11 DEF PlayerInv

LEMMA PlayerStep == ASSUME OneLoop PROVE PlayerInv /\ [Next]_vars => PlayerInv'
<1> SUFFICES ASSUME PlayerInv, [Next]_vars PROVE PlayerInv' OBVIOUS
<1>1. ThreadInv' /\ SuspendInv' /\ LockInv' /\ StreamInv' /\ TailInv'
  BY ThreadStep, SuspendStep, LockStep, StreamStep, TailStep DEF PlayerInv
<1>2. LockType'
  <2>1. CASE Others
    BY <2>1, OthersMove DEF PlayerInv, LockType
  <2>2. ASSUME NEW t \in Threads, Step(t) PROVE LockType'
    BY <2>2, StepFrames DEF PlayerInv, LockType, LockStream, StopStream, JoinStream, UnlockStream
  <2> QED BY <2>1, <2>2 DEF Next, Others, LockType, Threads
<1>3. IdleInv'
  BY <1>1, IdleStep DEF PlayerInv
<1> QED BY <1>1, <1>2, <1>3 DEF PlayerInv

(* Who can be in the middle of what, that Stop suspends the scheduler over *)
(* all of its steps, and that mStreamLock is held by exactly the thread    *)
(* that is inside of TuneHelper, or of the part of TeardownStream that     *)
(* deletes the stream: PlayerInv is an invariant of the player.            *)
THEOREM PlayerInvariant == ASSUME OneLoop PROVE Spec => []PlayerInv
<1>1. Init => PlayerInv
  BY PlayerInit
<1>2. PlayerInv /\ [Next]_vars => PlayerInv'
  BY PlayerStep
<1> QED BY <1>1, <1>2, PTL DEF Spec

(* A player that is IDLE, with nothing queued and nothing under way, has   *)
(* no stream, holds no lock and believes in no seek: whatever was queued,  *)
(* interrupted or under way, Stop has won.                                 *)
THEOREM IdlePlayerIsEmpty == ASSUME OneLoop PROVE Spec => []IdleHasNoStream
<1>1. PlayerInv => IdleHasNoStream
  <2> SUFFICES ASSUME PlayerInv, Quiet, mState = "IDLE"
               PROVE  ~mpStreamAbstractionAAMP /\ mStreamLock = None /\ ~mSeekOperationInProgress
    BY DEF IdleHasNoStream
  <2>1. \A t \in Threads : thread[t] = Idle
    BY DEF Quiet, IsIdle
  <2>2. None # "NEW"
    BY PlayerAssumption DEF TuneTypes
  <2>3. Calm
    BY <2>1, <2>2, IdleCall DEF PlayerInv, IdleInv, NewPending
  <2>4. \A t \in Threads : mStreamLock # t
    BY <2>1, IdleCall DEF PlayerInv, LockInv, InStream, At
  <2> QED BY <2>3, <2>4 DEF Calm, PlayerInv, LockType
<1> QED BY <1>1, PlayerInvariant, PTL

(* A retune that runs is never called off: nothing clears reTune between   *)
(* the start and the end of PrivateInstanceAAMP_Retune, and so a Stop that *)
(* comes meanwhile knows that it has to wait.                              *)
THEOREM RunningRetuneStands ==
  ASSUME OneLoop, SinkOnly PROVE Spec => []RetuneStands
<1>1. Init => PlayerInv /\ RetuneInv
  BY PlayerInit
<1>2. PlayerInv /\ RetuneInv /\ [Next]_vars => (PlayerInv /\ RetuneInv)'
  <2> SUFFICES ASSUME PlayerInv, RetuneInv, [Next]_vars PROVE PlayerInv' /\ RetuneInv'
    OBVIOUS
  <2>1. PlayerInv'
    BY PlayerStep
  <2>2. RetuneInv'
    BY RetuneStep DEF PlayerInv
  <2> QED BY <2>1, <2>2
<1>3. RetuneInv => RetuneStands
  BY DEF RetuneInv, RetuneStands
<1> QED BY <1>1, <1>2, <1>3, PTL DEF Spec
=============================================================================
