------------------------ MODULE PrivateInstanceAAMP ------------------------
(***************************************************************************)
(* The life of a player: tune, seek, rate change and stop of               *)
(* PlayerInstanceAAMP (main_aamp.cpp), and the internal operations that    *)
(* run beside them: retune, discontinuity processing and end of stream     *)
(* (priv_aamp.cpp).  Four threads meet here:                               *)
(*   App        calls the API;                                             *)
(*   Loop       runs the GLib main loop, which delivers the callbacks of   *)
(*              the sink; it is App itself in a JavaScript application;    *)
(*   Sched      runs the tasks of AampScheduler: always the retunes and    *)
(*              discontinuities, and, with mAsyncTuneEnabled, the API      *)
(*              calls other than Stop too;                                 *)
(*   Collector  the fragment collector of the current stream.              *)
(* They are kept apart by mStreamLock (held over a whole TuneHelper), by   *)
(* mExMutex of the scheduler (held by Stop), and by two condition          *)
(* variables without a predicate: gCond, on which a Stop waits for a       *)
(* retune, and mCondDiscontinuity, on which TeardownStream waits for       *)
(* discontinuity processing.                                               *)
(*                                                                         *)
(* A region under mLock or gMutex is one atomic step.  Positions, formats, *)
(* bitrates, captions, DRM, telemetry, initial caching (BUFFERING), rewind *)
(* and players in the background are left out; what a stream plays is the  *)
(* business of MediaTrack and the collectors.                              *)
(***************************************************************************)
EXTENDS Naturals, Sequences, SequencesExt, FiniteSets

CONSTANTS
  App,        (* the thread that calls the API                             *)
  Loop,       (* the thread of the main loop                               *)
  Sched,      (* the thread of AampScheduler                               *)
  Collector,  (* the fragment collector                                    *)
  None,
  LoopErrors, (* PlaybackErrorTypes the sink reports                       *)
  CollectorErrors, (* PlaybackErrorTypes the collector reports             *)
  MultiPeriod, (* the content has discontinuities                          *)
  MaxCalls,   (* bound: API calls made                                     *)
  MaxReports  (* bound: errors and discontinuities reported                *)

ErrorTypes == {"PTS", "UNDERFLOW", "VIDEO_BUFFERING", "PIPELINE_INTERNAL",
               "STARTTIME_RESET"}

TuneTypes == {"NEW", "SEEK", "SEEKTOLIVE", "RETUNE"}

ASSUME PlayerAssumption ==
  /\ Sched \notin {App, Loop}
  /\ Collector \notin {App, Loop, Sched}
  /\ None \notin {App, Loop, Sched, Collector} \union TuneTypes
  /\ LoopErrors \subseteq ErrorTypes /\ CollectorErrors \subseteq ErrorTypes
  /\ MultiPeriod \in BOOLEAN
  /\ MaxCalls \in Nat /\ MaxReports \in Nat

VARIABLES
  mState,
  mpStreamAbstractionAAMP, (* TRUE: a stream exists                        *)
  pipeline,                (* what its sink does                           *)
  injecting,               (* the tracks whose inject loop runs            *)
  mVideoFormat,            (* FALSE: FORMAT_INVALID                        *)
  rate,                    (* "normal" or "trick" (fast forward)           *)
  mSinkPaused,
  mDownloadsEnabled,
  mSeekOperationInProgress,
  reTune,                  (* of this player, in gActivePrivAAMPs          *)
  mIsRetuneInProgress,
  mProcessingDiscontinuity, (* the tracks whose flag is set                *)
  mDiscontinuityTuneOperationId,
  mDiscontinuityTuneOperationInProgress,
  mProgressReportFromProcessDiscontinuity,
  mStreamLock,             (* the thread that holds it, or None            *)
  tasks,                   (* queue of the scheduler                       *)
  suspended,               (* mLockOut, with mExMutex held by App          *)
  lastTask,                (* id of the last discontinuity task            *)
  thread,                  (* per thread: what it does                     *)
  mAsyncTuneEnabled,       (* configuration                                *)
  isLive,                  (* kind of content                              *)
  calls, reports           (* for the bounds                               *)

streamVars == <<mpStreamAbstractionAAMP, pipeline, injecting, mVideoFormat>>
playVars   == <<rate, mSinkPaused>>
seekVars   == <<mDownloadsEnabled, mSeekOperationInProgress>>
retuneVars == <<reTune, mIsRetuneInProgress>>
discoVars  == <<mProcessingDiscontinuity, mDiscontinuityTuneOperationId,
                mDiscontinuityTuneOperationInProgress,
                mProgressReportFromProcessDiscontinuity>>
schedVars  == <<tasks, suspended, lastTask>>
envVars    == <<mAsyncTuneEnabled, isLive, calls, reports>>
vars == <<mState, streamVars, playVars, seekVars, retuneVars, discoVars,
          mStreamLock, schedVars, thread, envVars>>

Threads == {App, Loop, Sched, Collector}
Tracks  == {"video", "audio"}
States  == {"IDLE", "INITIALIZING", "PREPARING", "PREPARED", "PAUSED",
            "SEEKING", "PLAYING", "STOPPING", "COMPLETE", "ERROR"}

(* ScheduleAsyncTask's answer when the scheduler refuses a task.           *)
AAMP_TASK_ID_INVALID == 0

(* op: the operation a thread is in; at: the next step of it; tune: the    *)
(* TuneType of its TuneHelper, None in a Stop; arg: the rate of a SetRate  *)
(* or the error of a ScheduleRetune.                                       *)
Idle == [op |-> "none", at |-> "idle", tune |-> None, arg |-> "none"]

(* The constructor leaves the player RELEASED and without a stream; every  *)
(* test of the operations modelled here takes RELEASED like IDLE.          *)
Init ==
  /\ mState = "IDLE"
  /\ mpStreamAbstractionAAMP = FALSE
  /\ pipeline = "stopped"
  /\ injecting = {}
  /\ mVideoFormat = FALSE
  /\ rate = "normal"
  /\ mSinkPaused = FALSE
  /\ mDownloadsEnabled = TRUE
  /\ mSeekOperationInProgress = FALSE
  /\ reTune = FALSE
  /\ mIsRetuneInProgress = FALSE
  /\ mProcessingDiscontinuity = {}
  /\ mDiscontinuityTuneOperationId = 0
  /\ mDiscontinuityTuneOperationInProgress = FALSE
  /\ mProgressReportFromProcessDiscontinuity = FALSE
  /\ mStreamLock = None
  /\ tasks = <<>>
  /\ suspended = FALSE
  /\ lastTask = 0
  /\ thread = [t \in Threads |-> Idle]
  /\ mAsyncTuneEnabled \in BOOLEAN
  /\ isLive \in BOOLEAN
  /\ calls = 0
  /\ reports = 0

At(t, label)   == thread[t].at = label
Goto(t, label) == thread' = [thread EXCEPT ![t].at = label]
Return(t)      == thread' = [thread EXCEPT ![t] = Idle]
IsIdle(t)      == thread[t] = Idle
Enter(t, op, label, arg) ==
  thread' = [thread EXCEPT ![t] =
               [op |-> op, at |-> label, tune |-> None, arg |-> arg]]

------------------------------------------------------------------------------
(* The API and the scheduler.                                              *)

IsSetRate(task) == task.op = "SetRate"

(* ScheduleTask refuses while a Stop has the scheduler locked out and in   *)
(* ERROR.                                                                  *)
Refuses == suspended \/ mState = "ERROR"

(* A new SetRate takes the place of the one that is queued.  Of the ids    *)
(* only those of discontinuity tasks are kept by anybody.                  *)
ScheduleTask(op, arg) ==
  LET id == IF op = "ProcessDiscontinuity" THEN lastTask + 1 ELSE 0 IN
  IF Refuses
  THEN UNCHANGED schedVars
  ELSE /\ lastTask' = IF id = 0 THEN lastTask ELSE id
       /\ tasks' = Append(IF op = "SetRate"
                          THEN RemoveFirstMatch(tasks, IsSetRate) ELSE tasks,
                          [op |-> op, arg |-> arg, id |-> id])
       /\ UNCHANGED suspended

(* What ScheduleAsyncTask returns.                                         *)
TaskId == IF Refuses THEN AAMP_TASK_ID_INVALID ELSE lastTask + 1

(* Tune, Seek and SetRate run on the caller's thread, or as a task.  A     *)
(* Seek of an idle player is not worth a task.                             *)
Call(op, arg) ==
  /\ IsIdle(App)
  /\ calls < MaxCalls
  /\ calls' = calls + 1
  /\ IF mAsyncTuneEnabled /\ (op = "Seek" => mState # "IDLE")
     THEN ScheduleTask(op, arg) /\ UNCHANGED thread
     ELSE Enter(App, op, "entry", arg) /\ UNCHANGED schedVars
  /\ UNCHANGED <<mState, streamVars, playVars, seekVars, retuneVars, discoVars,
                 mStreamLock, mAsyncTuneEnabled, isLive, reports>>

(* ExecuteAsyncTask takes the next task, with mExMutex held to its end; in *)
(* ERROR it drops the task.                                                *)
RunTask ==
  /\ IsIdle(Sched)
  /\ ~suspended
  /\ tasks # <<>>
  /\ IF mState = "ERROR" THEN UNCHANGED thread
     ELSE Enter(Sched, Head(tasks).op, "entry", Head(tasks).arg)
  /\ tasks' = Tail(tasks)
  /\ UNCHANGED <<mState, streamVars, playVars, seekVars, retuneVars, discoVars,
                 mStreamLock, suspended, lastTask, envVars>>

(* PlayerInstanceAAMP::Stop reads the state, waits for the running task    *)
(* (SuspendScheduler), drops the queued ones, and then goes by the state   *)
(* it has read: a StopInternal unless it was IDLE.                         *)
Stop ==
  /\ IsIdle(App)
  /\ calls < MaxCalls
  /\ calls' = calls + 1
  /\ Enter(App, "Stop", "suspend", IF mState = "IDLE" THEN "skip" ELSE "stop")
  /\ UNCHANGED <<mState, streamVars, playVars, seekVars, retuneVars, discoVars,
                 mStreamLock, schedVars, mAsyncTuneEnabled, isLive, reports>>

(* mExMutex has to be free.                                                *)
SuspendScheduler ==
  /\ At(App, "suspend")
  /\ IsIdle(Sched)
  /\ suspended' = TRUE
  /\ tasks' = <<>>
  /\ Goto(App, IF thread[App].arg = "stop" THEN "stopping" ELSE "resume")
  /\ UNCHANGED <<mState, streamVars, playVars, seekVars, retuneVars, discoVars,
                 mStreamLock, lastTask, envVars>>

ResumeScheduler ==
  /\ At(App, "resume")
  /\ suspended' = FALSE
  /\ Return(App)
  /\ UNCHANGED <<mState, streamVars, playVars, seekVars, retuneVars, discoVars,
                 mStreamLock, tasks, lastTask, envVars>>

------------------------------------------------------------------------------
(* The head of each operation: what it tests and sets before TuneHelper.   *)

Entering(t, op) == At(t, "entry") /\ thread[t].op = op
TuneHelper(t, type) ==
  thread' = [thread EXCEPT ![t].tune = type, ![t].at = "lockStream"]

(* A tune of a player that is not idle stops it first.                     *)
TuneInternal(t) ==
  /\ Entering(t, "Tune")
  /\ IF mState = "IDLE" THEN TuneHelper(t, "NEW") ELSE Goto(t, "stopping")
  /\ UNCHANGED <<mState, streamVars, playVars, seekVars, retuneVars, discoVars,
                 mStreamLock, schedVars, envVars>>

(* Live content may already be at its live point, where seeks and faster   *)
(* rates are skipped.                                                      *)
AtLivePoint(t) ==
  /\ \/ Entering(t, "Seek")
     \/ Entering(t, "SetRate") /\ thread[t].arg # "pause" /\ ~mSinkPaused
  /\ isLive /\ mpStreamAbstractionAAMP
  /\ Return(t)
  /\ UNCHANGED <<mState, streamVars, playVars, seekVars, retuneVars, discoVars,
                 mStreamLock, schedVars, envVars>>

SeekInternal(t) ==
  /\ Entering(t, "Seek")
  /\ rate' = "normal"
  /\ mSinkPaused' = FALSE
  /\ IF mpStreamAbstractionAAMP
     THEN mState' = "SEEKING" /\ TuneHelper(t, "SEEK")
     ELSE Return(t) /\ UNCHANGED mState
  /\ UNCHANGED <<streamVars, seekVars, retuneVars, discoVars, mStreamLock,
                 schedVars, envVars>>

(* Trick play of content without an iframe track is turned away, and       *)
(* normal play announced instead.                                          *)
IgnoreTrickPlay(t) ==
  /\ Entering(t, "SetRate") /\ thread[t].arg = "trick"
  /\ mState # "ERROR" /\ mpStreamAbstractionAAMP
  /\ mState' = "PLAYING"
  /\ Return(t)
  /\ UNCHANGED <<streamVars, playVars, seekVars, retuneVars, discoVars,
                 mStreamLock, schedVars, envVars>>

(* A SetRate pauses, resumes, or plays again at the new rate; it does      *)
(* nothing in ERROR, without a stream, or if that is how it plays now.     *)
SetRateInternal(t) ==
  LET new == thread[t].arg
      same == \/ ~mSinkPaused /\ new = rate
              \/ mSinkPaused /\ new = "pause"
  IN
  /\ Entering(t, "SetRate")
  /\ CASE mState = "ERROR" \/ ~mpStreamAbstractionAAMP \/ same ->
            Return(t) /\ UNCHANGED <<mState, playVars, mDownloadsEnabled>>
       [] new = "pause" /\ ~mSinkPaused ->
            /\ mState' = "PAUSED" /\ mSinkPaused' = TRUE
            /\ Return(t) /\ UNCHANGED <<rate, mDownloadsEnabled>>
       [] new = rate /\ mSinkPaused ->
            /\ mState' = IF rate = "normal" THEN "PLAYING" ELSE mState
            /\ mSinkPaused' = FALSE
            /\ Return(t) /\ UNCHANGED <<rate, mDownloadsEnabled>>
       [] OTHER ->
            /\ rate' = new /\ mSinkPaused' = FALSE
            /\ mDownloadsEnabled' = TRUE
            /\ TuneHelper(t, "SEEK") /\ UNCHANGED mState
  /\ UNCHANGED <<streamVars, mSeekOperationInProgress, retuneVars, discoVars,
                 mStreamLock, schedVars, envVars>>

(* PrivateInstanceAAMP_Retune, under gMutex.                               *)
Retune(t) ==
  /\ Entering(t, "Retune")
  /\ IF reTune
     THEN /\ mSinkPaused' = FALSE
          /\ mIsRetuneInProgress' = TRUE
          /\ TuneHelper(t, "RETUNE")
     ELSE Return(t) /\ UNCHANGED <<mSinkPaused, mIsRetuneInProgress>>
  /\ UNCHANGED <<mState, streamVars, rate, seekVars, reTune, discoVars,
                 mStreamLock, schedVars, envVars>>

------------------------------------------------------------------------------
(* PrivateInstanceAAMP::Stop, by API Stop and by a Tune that replaces a    *)
(* stream.                                                                 *)

StopState(t) ==
  /\ At(t, "stopping")
  /\ mState' = "STOPPING"
  /\ Goto(t, "stopRetune")
  /\ UNCHANGED <<streamVars, playVars, seekVars, retuneVars, discoVars,
                 mStreamLock, schedVars, envVars>>

(* Mutant: the running retune is not waited for.                           *)
StopRetuneNow(t) ==
  /\ At(t, "stopRetune")
  /\ reTune' = FALSE
  /\ mDownloadsEnabled' = FALSE
  /\ Goto(t, "stopDownloads")
  /\ UNCHANGED <<mState, streamVars, playVars, mSeekOperationInProgress,
                 mIsRetuneInProgress, discoVars, mStreamLock, schedVars,
                 envVars>>

(* Under gMutex: a retune that runs is waited for on gCond, one that is    *)
(* only queued is called off.                                              *)
StopRetune(t) ==
  /\ \/ /\ At(t, "stopRetune")
        /\ reTune /\ mIsRetuneInProgress
        /\ Goto(t, "waitRetune")
        /\ UNCHANGED <<reTune, mDownloadsEnabled>>
     \/ /\ \/ At(t, "stopRetune") /\ ~(reTune /\ mIsRetuneInProgress)
           \/ At(t, "retuneDone")
        /\ reTune' = FALSE
        /\ mDownloadsEnabled' = FALSE
        /\ Goto(t, "stopDownloads")
  /\ UNCHANGED <<mState, streamVars, playVars, mSeekOperationInProgress,
                 mIsRetuneInProgress, discoVars, mStreamLock, schedVars,
                 envVars>>

(* A TuneHelper that ran meanwhile may have enabled the downloads again.   *)
StopDownloadsAgain(t) ==
  /\ At(t, "stopDownloads")
  /\ mStreamLock \in {None, t}
  /\ mDownloadsEnabled' = (mDownloadsEnabled /\ ~mpStreamAbstractionAAMP)
  /\ Goto(t, "teardown")
  /\ UNCHANGED <<mState, streamVars, playVars, mSeekOperationInProgress,
                 retuneVars, discoVars, mStreamLock, schedVars, envVars>>

(* Mutant: the flag of an interrupted seek outlives the Stop.              *)
StopIdleKeepsSeek(t) ==
  /\ At(t, "stopIdle")
  /\ mState' = "IDLE"
  /\ rate' = "normal"
  /\ mSinkPaused' = FALSE
  /\ mDownloadsEnabled' = TRUE
  /\ IF thread[t].op = "Tune" THEN TuneHelper(t, "NEW") ELSE Goto(t, "resume")
  /\ UNCHANGED <<mSeekOperationInProgress, streamVars, retuneVars, discoVars,
                 mStreamLock, schedVars, envVars>>

StopIdle(t) ==
  /\ At(t, "stopIdle")
  /\ mState' = "IDLE"
  /\ rate' = "normal"
  /\ mSinkPaused' = FALSE
  /\ mSeekOperationInProgress' = FALSE
  /\ mDownloadsEnabled' = TRUE
  /\ IF thread[t].op = "Tune" THEN TuneHelper(t, "NEW") ELSE Goto(t, "resume")
  /\ UNCHANGED <<streamVars, retuneVars, discoVars, mStreamLock, schedVars,
                 envVars>>

------------------------------------------------------------------------------
(* TeardownStream, called by Stop (no lock held) and by TuneHelper (with   *)
(* mStreamLock held).                                                      *)

IsSeek(t) == thread[t].tune \in {"SEEK", "SEEKTOLIVE"}

LockStream(t) ==
  /\ At(t, "lockStream")
  /\ mStreamLock = None
  /\ mStreamLock' = t
  /\ mSeekOperationInProgress' = (mSeekOperationInProgress \/ IsSeek(t))
  /\ Goto(t, "teardown")
  /\ UNCHANGED <<mState, streamVars, playVars, mDownloadsEnabled, retuneVars,
                 discoVars, schedVars, envVars>>

(* The discontinuity part of TeardownStream, under mLock: discontinuity    *)
(* processing that runs is waited for, once; processing that is scheduled  *)
(* is taken off the queue.  With mAsyncTuneEnabled processing that is      *)
(* inside its progress report is told to give up instead.                  *)
RemoveTask(id) == RemoveFirstMatch(tasks, LAMBDA task : task.id = id)

TeardownStream(t) ==
  LET newTune   == ~IsSeek(t)
      scheduled == /\ mDiscontinuityTuneOperationId # 0
                   /\ ~newTune \/ mState = "IDLE"
      giveUp    == /\ scheduled /\ mAsyncTuneEnabled
                   /\ mProgressReportFromProcessDiscontinuity
      wait      == mDiscontinuityTuneOperationInProgress /\ ~giveUp
  IN
  /\ At(t, "teardown")
  /\ IF wait
     THEN Goto(t, "waitDisco") /\ UNCHANGED <<discoVars, tasks>>
     ELSE /\ mDiscontinuityTuneOperationInProgress' = FALSE
          /\ mDiscontinuityTuneOperationId' =
               IF scheduled THEN 0 ELSE mDiscontinuityTuneOperationId
          /\ tasks' = IF scheduled /\ ~giveUp
                      THEN RemoveTask(mDiscontinuityTuneOperationId)
                      ELSE tasks
          /\ mProcessingDiscontinuity' = {}
          /\ Goto(t, "stopStream")
          /\ UNCHANGED mProgressReportFromProcessDiscontinuity
  /\ UNCHANGED <<mState, streamVars, playVars, seekVars, retuneVars,
                 mStreamLock, suspended, lastTask, envVars>>

(* The rest of that region, after the wait on mCondDiscontinuity.          *)
AfterDiscontinuity(t) ==
  /\ At(t, "discoDone")
  /\ mProcessingDiscontinuity' = {}
  /\ Goto(t, "stopStream")
  /\ UNCHANGED <<mState, streamVars, playVars, seekVars, retuneVars,
                 mDiscontinuityTuneOperationId,
                 mDiscontinuityTuneOperationInProgress,
                 mProgressReportFromProcessDiscontinuity, mStreamLock,
                 schedVars, envVars>>

StopStream(t) ==
  /\ At(t, "stopStream")
  /\ mStreamLock \in {None, t}
  /\ mStreamLock' = t
  /\ mDownloadsEnabled' = (mDownloadsEnabled /\ ~mpStreamAbstractionAAMP)
  /\ Goto(t, "join")
  /\ UNCHANGED <<mState, streamVars, playVars, mSeekOperationInProgress,
                 retuneVars, discoVars, schedVars, envVars>>

(* StreamAbstractionAAMP::Stop joins the collector and the injectors and   *)
(* enables downloads; the stream is deleted.                               *)
JoinStream(t) ==
  /\ At(t, "join")
  /\ mpStreamAbstractionAAMP => IsIdle(Collector)
  /\ mDownloadsEnabled' = (mDownloadsEnabled \/ mpStreamAbstractionAAMP)
  /\ mpStreamAbstractionAAMP' = FALSE
  /\ pipeline' = "stopped"
  /\ injecting' = {}
  /\ mStreamLock' = IF thread[t].tune = None THEN None ELSE t
  /\ Goto(t, "stopSink")
  /\ UNCHANGED <<mState, mVideoFormat, playVars, mSeekOperationInProgress,
                 retuneVars, discoVars, schedVars, envVars>>

StopSink(t) ==
  /\ At(t, "stopSink")
  /\ mVideoFormat' = FALSE
  /\ Goto(t, IF thread[t].tune = None THEN "stopIdle" ELSE "create")
  /\ UNCHANGED <<mState, mpStreamAbstractionAAMP, pipeline, injecting,
                 playVars, seekVars, retuneVars, discoVars, mStreamLock,
                 schedVars, envVars>>

------------------------------------------------------------------------------
(* The rest of TuneHelper, and the tail of each operation.                 *)

CreateStream(t) ==
  /\ At(t, "create")
  /\ mpStreamAbstractionAAMP' = TRUE
  /\ IF thread[t].tune = "NEW"
     THEN mState' = "INITIALIZING" /\ rate' = "normal"
     ELSE UNCHANGED <<mState, rate>>
  /\ Goto(t, "init")
  /\ UNCHANGED <<pipeline, injecting, mVideoFormat, mSinkPaused, seekVars,
                 retuneVars, discoVars, mStreamLock, schedVars, envVars>>

InitStream(t) ==
  /\ At(t, "init")
  /\ mState' = IF thread[t].tune = "NEW" THEN "PREPARING" ELSE mState
  /\ mVideoFormat' = TRUE
  /\ Goto(t, "start")
  /\ UNCHANGED <<mpStreamAbstractionAAMP, pipeline, injecting, playVars,
                 seekVars, retuneVars, discoVars, mStreamLock, schedVars,
                 envVars>>

(* Init fails: SendErrorEvent, unless a Stop has disabled the downloads.   *)
(* mSeekOperationInProgress stays as it is.                                *)
InitFails(t) ==
  /\ At(t, "init")
  /\ IF mDownloadsEnabled
     THEN /\ mState' = "ERROR"
          /\ mDownloadsEnabled' = (mState = "ERROR")
     ELSE UNCHANGED <<mState, mDownloadsEnabled>>
  /\ Goto(t, "unlock")
  /\ UNCHANGED <<streamVars, playVars, mSeekOperationInProgress, retuneVars,
                 discoVars, mStreamLock, schedVars, envVars>>

(* The position is out of range: NotifyEOSReached from within TuneHelper,  *)
(* which for a fast forward through live content starts a second one.      *)
SeekRangeError(t) ==
  /\ At(t, "init")
  /\ IsSeek(t)
  /\ \/ /\ ~isLive
        /\ mState' = "COMPLETE"
        /\ Goto(t, "unlock") /\ UNCHANGED rate
     \/ /\ isLive /\ rate = "trick"
        /\ rate' = "normal"
        /\ thread' = [thread EXCEPT ![t].tune = "SEEKTOLIVE",
                                    ![t].at = "teardown"]
        /\ UNCHANGED mState
     \/ /\ isLive => rate = "normal"
        /\ Goto(t, "unlock") /\ UNCHANGED <<mState, rate>>
  /\ UNCHANGED <<streamVars, mSinkPaused, seekVars, retuneVars, discoVars,
                 mStreamLock, schedVars, envVars>>

StartStream(t) ==
  /\ At(t, "start")
  /\ pipeline' = "streaming"
  /\ injecting' = Tracks
  /\ Goto(t, "started")
  /\ UNCHANGED <<mState, mpStreamAbstractionAAMP, mVideoFormat, playVars,
                 seekVars, retuneVars, discoVars, mStreamLock, schedVars,
                 envVars>>

(* A seek is over; a new tune goes on to PREPARED unless the stream has    *)
(* failed since.                                                           *)
StreamStarted(t) ==
  /\ At(t, "started")
  /\ mSeekOperationInProgress' = (mSeekOperationInProgress /\ ~IsSeek(t))
  /\ Goto(t, IF thread[t].tune = "NEW" /\ mState # "ERROR"
             THEN "prepared" ELSE "unlock")
  /\ UNCHANGED <<mState, streamVars, playVars, mDownloadsEnabled, retuneVars,
                 discoVars, mStreamLock, schedVars, envVars>>

StreamPrepared(t) ==
  /\ At(t, "prepared")
  /\ mState' = "PREPARED"
  /\ Goto(t, "unlock")
  /\ UNCHANGED <<streamVars, playVars, seekVars, retuneVars, discoVars,
                 mStreamLock, schedVars, envVars>>

UnlockStream(t) ==
  /\ At(t, "unlock")
  /\ mStreamLock' = None
  /\ CASE thread[t].op \in {"SetRate", "NotifyEOSReached"} -> Goto(t, "speed")
       [] thread[t].op = "Retune" -> Goto(t, "retuned")
       [] OTHER -> Return(t)
  /\ UNCHANGED <<mState, streamVars, playVars, seekVars, retuneVars, discoVars,
                 schedVars, envVars>>

NotifySpeedChanged(t) ==
  /\ At(t, "speed")
  /\ mState' = IF rate = "normal" THEN "PLAYING" ELSE mState
  /\ Return(t)
  /\ UNCHANGED <<streamVars, playVars, seekVars, retuneVars, discoVars,
                 mStreamLock, schedVars, envVars>>

(* notify_one on a condition: what the thread wakes is where it waited.    *)
Wake(t, after, w, label) ==
  thread' = [thread EXCEPT ![t] = after, ![w].at = label]
Waiting(label) == {w \in Threads : At(w, label)}

RetuneDone(t) ==
  /\ At(t, "retuned")
  /\ mIsRetuneInProgress' = FALSE
  /\ reTune' = FALSE
  /\ IF Waiting("waitRetune") = {}
     THEN Return(t)
     ELSE \E w \in Waiting("waitRetune") : Wake(t, Idle, w, "retuneDone")
  /\ UNCHANGED <<mState, streamVars, playVars, seekVars, discoVars,
                 mStreamLock, schedVars, envVars>>

------------------------------------------------------------------------------
(* ProcessPendingDiscontinuity, on the scheduler's thread for an underflow *)
(* and on the main loop for an end of stream.                              *)

IsDiscontinuityProcessPending ==
  \/ mVideoFormat /\ "video" \in mProcessingDiscontinuity
  \/ "audio" \in mProcessingDiscontinuity
DiscontinuitySeenInAllTracks ==
  /\ mVideoFormat => "video" \in mProcessingDiscontinuity
  /\ "audio" \in mProcessingDiscontinuity

(* Two tests, one under mLock and one not, and the claim under mLock.      *)
CheckInProgress(t) ==
  /\ Entering(t, "ProcessDiscontinuity") \/ At(t, "disco")
  /\ Goto(t, IF mDiscontinuityTuneOperationInProgress
             THEN "processed" ELSE "seenInAll")
  /\ UNCHANGED <<mState, streamVars, playVars, seekVars, retuneVars, discoVars,
                 mStreamLock, schedVars, envVars>>

CheckSeenInAll(t) ==
  /\ At(t, "seenInAll")
  /\ Goto(t, IF DiscontinuitySeenInAllTracks THEN "claim" ELSE "processed")
  /\ UNCHANGED <<mState, streamVars, playVars, seekVars, retuneVars, discoVars,
                 mStreamLock, schedVars, envVars>>

ClaimDiscontinuity(t) ==
  /\ At(t, "claim")
  /\ mDiscontinuityTuneOperationInProgress' = TRUE
  /\ Goto(t, "claimed")
  /\ UNCHANGED <<mState, streamVars, playVars, seekVars, retuneVars,
                 mProcessingDiscontinuity, mDiscontinuityTuneOperationId,
                 mProgressReportFromProcessDiscontinuity, mStreamLock,
                 schedVars, envVars>>

(* The flags are tested again and reset.                                   *)
BeginDiscontinuity(t) ==
  /\ At(t, "claimed")
  /\ IF DiscontinuitySeenInAllTracks
     THEN /\ mProcessingDiscontinuity' = {}
          /\ mProgressReportFromProcessDiscontinuity' = TRUE
          /\ Goto(t, "gate")
     ELSE /\ Goto(t, "release")
          /\ UNCHANGED <<mProcessingDiscontinuity,
                         mProgressReportFromProcessDiscontinuity>>
  /\ UNCHANGED <<mState, streamVars, playVars, seekVars, retuneVars,
                 mDiscontinuityTuneOperationId,
                 mDiscontinuityTuneOperationInProgress, mStreamLock,
                 schedVars, envVars>>

(* MonitorProgress: a report takes mStreamLock for a moment.               *)
MonitorProgress(t) ==
  /\ \/ /\ At(t, "gate")
        /\ Goto(t, IF mDownloadsEnabled
                      /\ mState \notin {"IDLE", "COMPLETE", "SEEKING"}
                   THEN "report" ELSE "reported")
     \/ /\ At(t, "report")
        /\ mStreamLock \in {None, t}
        /\ Goto(t, "reported")
  /\ UNCHANGED <<mState, streamVars, playVars, seekVars, retuneVars, discoVars,
                 mStreamLock, schedVars, envVars>>

(* Some other operation may have taken the discontinuity away meanwhile.   *)
AfterReport(t) ==
  /\ At(t, "reported")
  /\ mProgressReportFromProcessDiscontinuity' = FALSE
  /\ Goto(t, IF mDiscontinuityTuneOperationInProgress
             THEN "reconfigure" ELSE "interrupted")
  /\ UNCHANGED <<mState, streamVars, playVars, seekVars, retuneVars,
                 mProcessingDiscontinuity, mDiscontinuityTuneOperationId,
                 mDiscontinuityTuneOperationInProgress, mStreamLock,
                 schedVars, envVars>>

(* StopInjection, Configure and StartInjection.                            *)
Reconfigure(t) ==
  /\ At(t, "reconfigure")
  /\ IF mpStreamAbstractionAAMP
     THEN pipeline' = "streaming" /\ injecting' = Tracks
     ELSE UNCHANGED <<pipeline, injecting>>
  /\ Goto(t, "release")
  /\ UNCHANGED <<mState, mpStreamAbstractionAAMP, mVideoFormat, playVars,
                 seekVars, retuneVars, discoVars, mStreamLock, schedVars,
                 envVars>>

ReleaseDiscontinuity(t) ==
  /\ At(t, "release")
  /\ mDiscontinuityTuneOperationInProgress' = FALSE
  /\ Goto(t, "processed")
  /\ UNCHANGED <<mState, streamVars, playVars, seekVars, retuneVars,
                 mProcessingDiscontinuity, mDiscontinuityTuneOperationId,
                 mProgressReportFromProcessDiscontinuity, mStreamLock,
                 schedVars, envVars>>

(* The task forgets its id unless it was interrupted, and both callers     *)
(* signal mCondDiscontinuity.                                              *)
DiscontinuityDone(t) ==
  /\ At(t, "processed") \/ At(t, "interrupted")
  /\ mDiscontinuityTuneOperationId' =
       IF At(t, "processed") /\ thread[t].op = "ProcessDiscontinuity"
       THEN 0 ELSE mDiscontinuityTuneOperationId
  /\ IF Waiting("waitDisco") = {}
     THEN Return(t)
     ELSE \E w \in Waiting("waitDisco") : Wake(t, Idle, w, "discoDone")
  /\ UNCHANGED <<mState, streamVars, playVars, seekVars, retuneVars,
                 mProcessingDiscontinuity,
                 mDiscontinuityTuneOperationInProgress,
                 mProgressReportFromProcessDiscontinuity, mStreamLock,
                 schedVars, envVars>>

------------------------------------------------------------------------------
(* Callbacks of the sink on the main loop, the injectors, the collector.   *)

(* A bogus end of stream (the stream has not reached it) is discarded if   *)
(* mStreamLock is free to find out.                                        *)
NotifyEOSReached ==
  /\ IsIdle(Loop)
  /\ pipeline # "stopped"
  /\ IF IsDiscontinuityProcessPending
     THEN Enter(Loop, "NotifyEOSReached", "disco", "none")
          /\ UNCHANGED <<mState, rate>>
     ELSE CASE ~isLive ->
                 mState' = "COMPLETE" /\ mState # "COMPLETE"
                 /\ UNCHANGED <<thread, rate>>
            [] isLive /\ rate = "trick" ->
                 /\ rate' = "normal"
                 /\ thread' = [thread EXCEPT ![Loop] =
                      [op |-> "NotifyEOSReached", at |-> "lockStream",
                       tune |-> "SEEKTOLIVE", arg |-> "none"]]
                 /\ UNCHANGED mState
            [] OTHER -> FALSE
  /\ UNCHANGED <<streamVars, mSinkPaused, seekVars, retuneVars, discoVars,
                 mStreamLock, schedVars, envVars>>

(* The state is read, and set to PLAYING in a second step.                 *)
NotifyFirstFrameReceived ==
  /\ \/ /\ IsIdle(Loop)
        /\ pipeline = "streaming"
        /\ pipeline' = "playing"
        /\ IF mState = "IDLE" THEN UNCHANGED thread
           ELSE Enter(Loop, "NotifyFirstFrameReceived", "firstFrame", "none")
        /\ UNCHANGED mState
     \/ /\ At(Loop, "firstFrame")
        /\ mState' = "PLAYING"
        /\ Return(Loop)
        /\ UNCHANGED pipeline
  /\ UNCHANGED <<mpStreamAbstractionAAMP, injecting, mVideoFormat, playVars,
                 seekVars, retuneVars, discoVars, mStreamLock, schedVars,
                 envVars>>

(* An injector meets a discontinuity, sets the flag and ends.              *)
Discontinuity(track) ==
  /\ MultiPeriod
  /\ rate = "normal"
  /\ track \in injecting
  /\ reports < MaxReports
  /\ reports' = reports + 1
  /\ injecting' = injecting \ {track}
  /\ mProcessingDiscontinuity' = mProcessingDiscontinuity \union {track}
  /\ UNCHANGED <<mState, mpStreamAbstractionAAMP, pipeline, mVideoFormat,
                 playVars, seekVars, retuneVars,
                 mDiscontinuityTuneOperationId,
                 mDiscontinuityTuneOperationInProgress,
                 mProgressReportFromProcessDiscontinuity, mStreamLock,
                 schedVars, thread, mAsyncTuneEnabled, isLive, calls>>

(* SendErrorEvent by the collector, which ends.                            *)
CollectorFails ==
  /\ IsIdle(Collector)
  /\ pipeline # "stopped"
  /\ mDownloadsEnabled
  /\ mState # "ERROR"
  /\ mState' = "ERROR"
  /\ mDownloadsEnabled' = FALSE
  /\ UNCHANGED <<streamVars, playVars, mSeekOperationInProgress, retuneVars,
                 discoVars, mStreamLock, schedVars, thread, envVars>>

(* ScheduleRetune: the tests without a lock, and the one under gMutex.     *)
ScheduleRetune(t, errorType) ==
  /\ IsIdle(t)
  /\ pipeline # "stopped"
  /\ reports < MaxReports
  /\ reports' = reports + 1
  /\ \/ /\ rate = "normal"
        /\ mState = "PLAYING" \/ errorType = "VIDEO_BUFFERING"
        /\ ~mSeekOperationInProgress
        /\ ~mIsRetuneInProgress
        /\ Enter(t, "ScheduleRetune", "srDisco", errorType)
     \/ /\ rate = "trick"
        /\ errorType = "PIPELINE_INTERNAL"
        /\ Enter(t, "ScheduleRetune", "srTrick", errorType)
  /\ UNCHANGED <<mState, streamVars, playVars, seekVars, retuneVars, discoVars,
                 mStreamLock, schedVars, mAsyncTuneEnabled, isLive, calls>>

(* Under mLock: an error beside a discontinuity is put down to it, and the *)
(* discontinuity is processed, once.                                       *)
ScheduleDiscontinuity(t) ==
  LET handled == \/ mDiscontinuityTuneOperationId # 0
                 \/ mDiscontinuityTuneOperationInProgress
  IN
  /\ At(t, "srDisco")
  /\ CASE thread[t].arg = "PTS" \/ ~(handled \/ IsDiscontinuityProcessPending) ->
            Goto(t, "srRetune")
            /\ UNCHANGED <<mDiscontinuityTuneOperationId, schedVars>>
       [] handled /\ thread[t].arg # "PTS" ->
            Return(t) /\ UNCHANGED <<mDiscontinuityTuneOperationId, schedVars>>
       [] OTHER ->
            /\ mDiscontinuityTuneOperationId' = TaskId
            /\ ScheduleTask("ProcessDiscontinuity", "none")
            /\ Return(t)
  /\ UNCHANGED <<mState, streamVars, playVars, seekVars, retuneVars,
                 mProcessingDiscontinuity,
                 mDiscontinuityTuneOperationInProgress,
                 mProgressReportFromProcessDiscontinuity, mStreamLock, envVars>>

(* Under mStreamLock and gMutex: one retune is scheduled, unless the error *)
(* is ignored (a stalled streamer, or the first of its kind for a while).  *)
(* An underflow may pause the sink until the buffer has filled.            *)
RequestRetune(t) ==
  /\ At(t, "srRetune")
  /\ mStreamLock = None
  /\ \/ UNCHANGED <<reTune, schedVars>>
     \/ ~reTune /\ reTune' = TRUE /\ ScheduleTask("Retune", "none")
  /\ mSinkPaused' \in {mSinkPaused} \union
       (IF thread[t].arg = "UNDERFLOW" THEN {TRUE} ELSE {})
  /\ Return(t)
  /\ UNCHANGED <<mState, streamVars, rate, seekVars, mIsRetuneInProgress,
                 discoVars, mStreamLock, envVars>>

(* A pipeline error at a trick-play rate schedules one without asking.     *)
RequestTrickRetune(t) ==
  /\ At(t, "srTrick")
  /\ mStreamLock = None
  /\ reTune' = TRUE
  /\ ScheduleTask("Retune", "none")
  /\ Return(t)
  /\ UNCHANGED <<mState, streamVars, playVars, seekVars, mIsRetuneInProgress,
                 discoVars, mStreamLock, envVars>>

------------------------------------------------------------------------------
Stopping(t) ==
  \/ StopState(t) \/ StopRetune(t) \/ StopDownloadsAgain(t) \/ StopIdle(t)
Tearing(t) ==
  \/ TeardownStream(t) \/ AfterDiscontinuity(t)
  \/ StopStream(t) \/ JoinStream(t) \/ StopSink(t)
Tuning(t) ==
  \/ TuneInternal(t) \/ SeekInternal(t) \/ AtLivePoint(t)
  \/ SetRateInternal(t) \/ IgnoreTrickPlay(t) \/ Retune(t)
  \/ LockStream(t) \/ CreateStream(t)
  \/ InitStream(t) \/ InitFails(t) \/ SeekRangeError(t)
  \/ StartStream(t) \/ StreamStarted(t) \/ StreamPrepared(t)
  \/ UnlockStream(t) \/ NotifySpeedChanged(t) \/ RetuneDone(t)
Processing(t) ==
  \/ CheckInProgress(t) \/ CheckSeenInAll(t) \/ ClaimDiscontinuity(t)
  \/ BeginDiscontinuity(t) \/ MonitorProgress(t) \/ AfterReport(t)
  \/ Reconfigure(t) \/ ReleaseDiscontinuity(t) \/ DiscontinuityDone(t)
Reporting(t) ==
  \/ ScheduleDiscontinuity(t) \/ RequestRetune(t) \/ RequestTrickRetune(t)

API ==
  \/ Stop \/ Call("Tune", "none") \/ Call("Seek", "none")
  \/ \E r \in {"pause", "normal", "trick"} : Call("SetRate", r)
Environment ==
  \/ NotifyEOSReached
  \/ CollectorFails
  \/ \E track \in Tracks : Discontinuity(track)
  \/ \E e \in LoopErrors : ScheduleRetune(Loop, e)
  \/ \E e \in CollectorErrors : ScheduleRetune(Collector, e)
  \/ NotifyFirstFrameReceived
Scheduler == SuspendScheduler \/ ResumeScheduler \/ RunTask

Step(t) == Stopping(t) \/ Tearing(t) \/ Tuning(t) \/ Processing(t) \/ Reporting(t)

Next ==
  \/ API \/ Environment \/ Scheduler
  \/ \E t \in Threads : Step(t)

(* Every thread goes on with what it has begun, and the scheduler with     *)
(* what is queued; nobody has to call the API or report anything.          *)
Fairness ==
  /\ \A t \in Threads : WF_vars(Step(t))
  /\ WF_vars(NotifyFirstFrameReceived)
  /\ WF_vars(Scheduler)

Spec == Init /\ [][Next]_vars
FairSpec == Spec /\ Fairness

------------------------------------------------------------------------------
(* Every variable holds a value of its kind, and mStreamLock is held only  *)
(* by a thread that is in the middle of an operation.                      *)
TypeOK ==
  /\ mState \in States
  /\ mpStreamAbstractionAAMP \in BOOLEAN
  /\ pipeline \in {"stopped", "streaming", "playing"}
  /\ injecting \subseteq Tracks
  /\ mVideoFormat \in BOOLEAN
  /\ rate \in {"normal", "trick"}
  /\ mSinkPaused \in BOOLEAN
  /\ mDownloadsEnabled \in BOOLEAN /\ mSeekOperationInProgress \in BOOLEAN
  /\ reTune \in BOOLEAN /\ mIsRetuneInProgress \in BOOLEAN
  /\ mProcessingDiscontinuity \subseteq Tracks
  /\ mDiscontinuityTuneOperationId \in 0..MaxReports
  /\ mDiscontinuityTuneOperationInProgress \in BOOLEAN
  /\ mProgressReportFromProcessDiscontinuity \in BOOLEAN
  /\ mStreamLock \in Threads \union {None}
  /\ suspended \in BOOLEAN
  /\ lastTask \in 0..MaxReports
  /\ \A i \in 1..Len(tasks) : tasks[i].id \in 0..lastTask
  /\ mStreamLock # None => ~IsIdle(mStreamLock)

(* Once a Stop is over and nothing else has begun, nothing is left of what *)
(* it stopped: no stream, no mStreamLock left locked by an early return,   *)
(* no seek that would turn later retunes away.                             *)
(* PrivateInstanceAAMP::Stop has to win against the retunes, seeks and     *)
(* discontinuities that were queued or under way when it began.            *)
Quiet == tasks = <<>> /\ \A t \in Threads : IsIdle(t)

IdleHasNoStream ==
  Quiet /\ mState = "IDLE" =>
    ~mpStreamAbstractionAAMP /\ mStreamLock = None /\ ~mSeekOperationInProgress

(* A retune that runs is never called off: reTune, which a Stop reads to   *)
(* know that it has to wait, stands until PrivateInstanceAAMP_Retune ends. *)
RetuneStands == mIsRetuneInProgress => reTune

(* "Stop playback and release resources" (main_aamp.h): when the API's     *)
(* Stop is done there is no stream.  Does not hold with mAsyncTuneEnabled: *)
(* Stop goes by a state it read before the Tune it waits for.              *)
StopStops == At(App, "resume") => ~mpStreamAbstractionAAMP

(* Every call the application makes, and every task of the scheduler,      *)
(* comes to an end: TeardownStream does not wait for ever for the          *)
(* discontinuity processing it waits for.                                  *)
CallReturns == \A t \in {App, Sched} : ~IsIdle(t) ~> IsIdle(t)
==============================================================================
