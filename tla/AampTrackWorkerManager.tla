----------------------- MODULE AampTrackWorkerManager -----------------------
(***************************************************************************)
(* Parallel DASH downloads: one AampTrackWorker thread per track, the      *)
(* AampTrackWorkerManager they are reached through, and the threads that   *)
(* use them:                                                               *)
(*   - the fetcher (StreamAbstractionAAMP_MPD::FetcherLoop) submits        *)
(*     downloads and end-of-stream jobs, drains the workers between        *)
(*     periods, and resets one worker to switch audio or subtitles;        *)
(*   - a worker, at the end of a download, calls back into the manager     *)
(*     (OnFragmentDownloadComplete);                                       *)
(*   - the controller (StreamAbstractionAAMP_MPD::Stop) stops the workers, *)
(*     joins the fetcher and removes the workers.                          *)
(* A region under one worker's mQueueMutex is one step.  Only ResetWorker  *)
(* keeps the manager's mMutex across steps: see MutexFree.                 *)
(***************************************************************************)
EXTENDS Naturals, Sequences, SequencesExt

CONSTANTS
  TrackOrder,         (* the keys of mWorkers in the order of std::map     *)
  SegmentsPerPeriod,
  MaxPeriods,         (* bound: periods of the presentation                *)
  MaxProfileChanges,  (* bound: ramp-downs and ABR changes                 *)
  MaxInitFailures,    (* bound: init segments that cannot be downloaded    *)
  MaxSwitches,        (* bound: audio and subtitle switches                *)
  MaxTunes            (* bound: how often the stream is started            *)

Tracks == ToSet(TrackOrder)

ASSUME WorkerAssumption ==
  /\ TrackOrder \in Seq({"video", "audio", "subtitle"})
  /\ SegmentsPerPeriod \in Nat \ {0} /\ MaxPeriods \in Nat \ {0}
  /\ MaxProfileChanges \in Nat /\ MaxInitFailures \in Nat
  /\ MaxSwitches \in Nat
  /\ MaxTunes \in Nat \ {0}

VARIABLES
  mJobQueue,        (* per track                                           *)
  mStopped,
  mPaused,
  worker,           (* control state of ProcessJob                         *)
  currentJob,       (* the job ProcessJob is running, or NoJob             *)
  mStopInProgress,
  profileChanged,   (* of each MediaStreamContext                          *)
  fetcher,          (* control state of the fetcher thread                 *)
  todo,             (* tracks its current operation still has to visit     *)
  future,           (* what it knows of the dummy job it waits for         *)
  currentPeriod,
  nextSegment,      (* per track: the segment it will submit next          *)
  eosSubmitted,     (* its flags videoEosSubmitted and audioEosSubmitted   *)
  eosReached,       (* of each MediaTrack                                  *)
  controller,       (* control state of Stop                               *)
  stopping,         (* StopWorkers' copy of the list, what is left of it   *)
  changes, initFailures, switches, tunes,  (* bounded counters             *)
  done,             (* ghost: last segment a track downloaded or gave up;  *)
                    (* a switch takes it back to where the new one starts  *)
  initFor           (* ghost: period of the init segment last downloaded   *)
                    (* or reported missing, 0 if the profile changed since *)

workerVars  == <<mJobQueue, mStopped, mPaused, worker, currentJob>>
fetcherVars == <<fetcher, todo, currentPeriod, nextSegment, eosSubmitted,
                 switches>>
stopVars    == <<mStopInProgress, controller, stopping, tunes>>
vars == <<workerVars, fetcherVars, stopVars, profileChanged, future,
          eosReached, changes, initFailures, done, initFor>>

Job     == [kind : {"segment", "init", "eos", "dummy"}, n : Nat, period : Nat]
NoJob   == [kind |-> "none", n |-> 0, period |-> 0]
Segment(n)  == [kind |-> "segment", n |-> n, period |-> currentPeriod]
InitJob     == [kind |-> "init", n |-> 0, period |-> currentPeriod]
EosJob      == [kind |-> "eos", n |-> 0, period |-> 0]
(* A default AampTrackWorkerJob; n = 1 when its future is waited for.      *)
Dummy(n)    == [kind |-> "dummy", n |-> n, period |-> 0]

(* Only audio and subtitles are ever reset; subtitles have no EOS job and  *)
(* are not waited for ("mediaType > eMEDIATYPE_AUDIO").                    *)
Switchable == Tracks \cap {"audio", "subtitle"}
Critical   == Tracks \ {"subtitle"}

(* mMutex is held across steps only by the fetcher, inside ResetWorker.    *)
MutexFree == fetcher # "resetWait"

LastOf(period) == period * SegmentsPerPeriod

(* The fetcher has submitted all segments of t in this period (eos).       *)
EndOfPeriod(t) == nextSegment[t] > LastOf(currentPeriod)

Init ==
  /\ mJobQueue = [t \in Tracks |-> <<>>]
  /\ mStopped = [t \in Tracks |-> FALSE]
  /\ mPaused = [t \in Tracks |-> FALSE]
  /\ worker = [t \in Tracks |-> "idle"]
  /\ currentJob = [t \in Tracks |-> NoJob]
  /\ mStopInProgress = FALSE
  /\ profileChanged = [t \in Tracks |-> TRUE]
  /\ fetcher = "init"
  /\ todo = TrackOrder
  /\ future = "none"
  /\ currentPeriod = 1
  /\ nextSegment = [t \in Tracks |-> 1]
  /\ eosSubmitted = [t \in Tracks |-> FALSE]
  /\ eosReached = [t \in Tracks |-> FALSE]
  /\ controller = "playing"
  /\ stopping = <<>>
  /\ changes = 0 /\ initFailures = 0 /\ switches = 0 /\ tunes = 1
  /\ done = [t \in Tracks |-> 0]
  /\ initFor = [t \in Tracks |-> 0]

------------------------------------------------------------------------------
(* AampTrackWorker::SubmitJob on a worker that is not stopped.             *)
Pushed(q, job, highPriority) ==
  IF highPriority THEN <<job>> \o q ELSE Append(q, job)

(* Mutant: the manager does not look at mStopInProgress, nor the worker at *)
(* mStopped.                                                               *)
AcceptsAlways(t) == TRUE

(* Both tests of AampTrackWorkerManager::SubmitJob and the worker's own.   *)
Accepts(t) == ~mStopInProgress /\ ~mStopped[t]

(* AampTrackWorkerManager::SubmitJob; a refused job is forgotten.          *)
SubmitJob(t, job, highPriority) ==
  /\ MutexFree
  /\ mJobQueue' = IF Accepts(t)
                  THEN [mJobQueue EXCEPT ![t] = Pushed(@, job, highPriority)]
                  ELSE mJobQueue

------------------------------------------------------------------------------
(* ProcessJob, the worker thread of track t.                               *)

(* The predicate wait, and the head of the queue.                          *)
TakeJob(t) ==
  /\ worker[t] = "idle"
  /\ ~mStopped[t] /\ ~mPaused[t] /\ mJobQueue[t] # <<>>
  /\ currentJob' = [currentJob EXCEPT ![t] = Head(mJobQueue[t])]
  /\ mJobQueue' = [mJobQueue EXCEPT ![t] = Tail(@)]
  /\ worker' = [worker EXCEPT ![t] = "running"]
  /\ UNCHANGED <<mStopped, mPaused, fetcherVars, stopVars, profileChanged,
                 future, eosReached, changes, done, initFor, initFailures>>

WorkerExit(t) ==
  /\ worker[t] = "idle" /\ mStopped[t]
  /\ worker' = [worker EXCEPT ![t] = "exited"]
  /\ UNCHANGED <<mJobQueue, mStopped, mPaused, currentJob, fetcherVars,
                 stopVars, profileChanged, future, eosReached, changes, done,
                 initFor, initFailures>>

Running(t, kinds) == worker[t] = "running" /\ currentJob[t].kind \in kinds

(* Run() has returned: the worker goes back to the predicate wait, or has  *)
(* a callback to make first (OnFragmentDownloadComplete).                  *)
ReturnFromRun(t, callback) ==
  /\ worker' = [worker EXCEPT ![t] = IF callback THEN "callback" ELSE "idle"]
  /\ currentJob' = IF callback THEN currentJob
                   ELSE [currentJob EXCEPT ![t] = NoJob]

(* Run() of a dummy or of an end-of-stream job, then set_value.            *)
RunControlJob(t) ==
  /\ Running(t, {"dummy", "eos"})
  /\ eosReached' = [eosReached EXCEPT ![t] = @ \/ currentJob[t].kind = "eos"]
  /\ future' = IF currentJob[t] = Dummy(1) THEN "value" ELSE future
  /\ ReturnFromRun(t, FALSE)
  /\ UNCHANGED <<mJobQueue, mStopped, mPaused, fetcherVars, stopVars,
                 profileChanged, changes, done, initFor, initFailures>>

(* A media segment was downloaded, or failed and is skipped; either way    *)
(* the init segment is fetched next if the profile changed meanwhile.      *)
DownloadSegment(t) ==
  /\ Running(t, {"segment"})
  /\ done' = [done EXCEPT ![t] = currentJob[t].n]
  /\ ReturnFromRun(t, profileChanged[t])
  /\ UNCHANGED <<mJobQueue, mStopped, mPaused, fetcherVars, stopVars,
                 profileChanged, future, eosReached, changes, initFor,
                 initFailures>>

(* The same, and ABR picks another video profile on this thread.           *)
DownloadSegmentAndChangeProfile(t) ==
  /\ t = "video" /\ changes < MaxProfileChanges
  /\ Running(t, {"segment"})
  /\ changes' = changes + 1
  /\ done' = [done EXCEPT ![t] = currentJob[t].n]
  /\ profileChanged' = [profileChanged EXCEPT ![t] = TRUE]
  /\ initFor' = [initFor EXCEPT ![t] = 0]
  /\ ReturnFromRun(t, TRUE)
  /\ UNCHANGED <<mJobQueue, mStopped, mPaused, fetcherVars, stopVars, future,
                 eosReached, initFailures>>

DownloadInit(t) ==
  /\ Running(t, {"init"})
  /\ initFor' = [initFor EXCEPT ![t] = currentJob[t].period]
  /\ profileChanged' = [profileChanged EXCEPT ![t] = FALSE]
  /\ ReturnFromRun(t, FALSE)
  /\ UNCHANGED <<mJobQueue, mStopped, mPaused, fetcherVars, stopVars, future,
                 eosReached, changes, done, initFailures>>

(* An init segment that cannot be had: an error event is sent, and it is   *)
(* asked for again if profileChanged is still set.                         *)
DownloadInitFails(t) ==
  /\ initFailures < MaxInitFailures
  /\ Running(t, {"init"})
  /\ initFailures' = initFailures + 1
  /\ initFor' = [initFor EXCEPT ![t] = currentJob[t].period]
  /\ ReturnFromRun(t, profileChanged[t])
  /\ UNCHANGED <<mJobQueue, mStopped, mPaused, fetcherVars, stopVars,
                 profileChanged, future, eosReached, changes, done>>

(* A failed video download lowers the profile (CheckForRampDownProfile).   *)
RampDown(t) ==
  /\ t = "video" /\ changes < MaxProfileChanges
  /\ Running(t, {"segment", "init"})
  /\ changes' = changes + 1
  /\ profileChanged' = [profileChanged EXCEPT ![t] = TRUE]
  /\ initFor' = [initFor EXCEPT ![t] = 0]
  /\ worker' = [worker EXCEPT ![t] = "reschedule"]
  /\ UNCHANGED <<mJobQueue, mStopped, mPaused, currentJob, fetcherVars,
                 stopVars, future, eosReached, done, initFailures>>

(* Mutant: mActiveJob is kept, and rescheduled a second time.              *)
RescheduledTwice(q, job) == <<job, job>> \o q

(* push_front of the active job's clone.                                   *)
Rescheduled(q, job) == <<job>> \o q

(* GetWorker (under mMutex) and RescheduleActiveJob.                       *)
RescheduleActiveJob(t) ==
  /\ worker[t] = "reschedule" /\ MutexFree
  /\ mJobQueue' = [mJobQueue EXCEPT ![t] = Rescheduled(@, currentJob[t])]
  /\ ReturnFromRun(t, profileChanged[t])
  /\ UNCHANGED <<mStopped, mPaused, fetcherVars, stopVars, profileChanged,
                 future, eosReached, changes, done, initFor, initFailures>>

(* FetchAndInjectInitialization, called from the worker's own job.  It has *)
(* read profileChanged when it entered, and again as the priority it       *)
(* passes; SubmitJob is the first call in which it may block.              *)
SubmitInitFromJob(t) ==
  /\ worker[t] = "callback"
  /\ SubmitJob(t, InitJob, TRUE)
  /\ profileChanged' = [profileChanged EXCEPT ![t] = FALSE]
  /\ ReturnFromRun(t, FALSE)
  /\ UNCHANGED <<mStopped, mPaused, fetcherVars, stopVars, future,
                 eosReached, changes, done, initFor, initFailures>>

------------------------------------------------------------------------------
(* The fetcher thread.                                                     *)

(* FetchAndInjectInitialization for the next track of todo ...             *)
FetchInit ==
  /\ fetcher = "init" /\ todo # <<>>
  /\ SubmitJob(Head(todo), InitJob, profileChanged[Head(todo)])
  /\ fetcher' = "initDone"
  /\ UNCHANGED <<mStopped, mPaused, worker, currentJob, stopVars,
                 profileChanged, future, eosReached, changes, done, initFor,
                 todo, currentPeriod, nextSegment, eosSubmitted, switches,
                 initFailures>>

(* ... and its last assignment, after SubmitJob has returned.              *)
FetchInitDone ==
  /\ fetcher = "initDone"
  /\ profileChanged' = [profileChanged EXCEPT ![Head(todo)] = FALSE]
  /\ todo' = Tail(todo)
  /\ fetcher' = IF Tail(todo) = <<>> THEN "loop" ELSE "init"
  /\ UNCHANGED <<workerVars, stopVars, future, eosReached, changes, done,
                 initFor, currentPeriod, nextSegment, eosSubmitted, switches,
                 initFailures>>

(* AdvanceTrack: submit the next segment of track t.                       *)
FetchSegment(t) ==
  /\ fetcher = "loop"
  /\ ~EndOfPeriod(t)
  /\ SubmitJob(t, Segment(nextSegment[t]), FALSE)
  /\ nextSegment' = [nextSegment EXCEPT ![t] = @ + 1]
  /\ UNCHANGED <<mStopped, mPaused, worker, currentJob, stopVars,
                 profileChanged, future, eosReached, changes, done, initFor,
                 fetcher, todo, currentPeriod, eosSubmitted, switches,
                 initFailures>>

(* DownloadsAreEnabled() is false: leave FetcherLoop.                      *)
FetcherExit ==
  /\ fetcher = "loop" /\ controller # "playing"
  /\ fetcher' = "exited"
  /\ UNCHANGED <<workerVars, stopVars, profileChanged, future, eosReached,
                 changes, done, initFor, todo, currentPeriod, nextSegment,
                 eosSubmitted, switches, initFailures>>

(* Mutant: the EOS job is pushed with priority.                            *)
SubmitEosInFront(t) ==
  /\ fetcher = "loop"
  /\ t \in Critical /\ currentPeriod = MaxPeriods /\ EndOfPeriod(t)
  /\ ~eosSubmitted[t]
  /\ SubmitJob(t, EosJob, TRUE)
  /\ eosSubmitted' = [eosSubmitted EXCEPT ![t] = TRUE]
  /\ UNCHANGED <<mStopped, mPaused, worker, currentJob, stopVars,
                 profileChanged, future, eosReached, changes, done, initFor,
                 fetcher, todo, currentPeriod, nextSegment, switches,
                 initFailures>>

(* The last segment of the last period was submitted for t: mark EOS from  *)
(* the worker, once per period.                                            *)
SubmitEos(t) ==
  /\ fetcher = "loop"
  /\ t \in Critical /\ currentPeriod = MaxPeriods /\ EndOfPeriod(t)
  /\ ~eosSubmitted[t]
  /\ SubmitJob(t, EosJob, FALSE)
  /\ eosSubmitted' = [eosSubmitted EXCEPT ![t] = TRUE]
  /\ UNCHANGED <<mStopped, mPaused, worker, currentJob, stopVars,
                 profileChanged, future, eosReached, changes, done, initFor,
                 fetcher, todo, currentPeriod, nextSegment, switches,
                 initFailures>>

(* "Exiting from fetcher loop as EOS reached".                             *)
FetcherEnds ==
  /\ fetcher = "loop" /\ currentPeriod = MaxPeriods
  /\ \A t \in Critical : EndOfPeriod(t) /\ eosSubmitted[t]
  /\ fetcher' = "exited"
  /\ UNCHANGED <<workerVars, stopVars, profileChanged, future, eosReached,
                 changes, done, initFor, todo, currentPeriod, nextSegment,
                 eosSubmitted, switches, initFailures>>

(* All tracks are at the end of a period that has a successor: drain the   *)
(* workers with WaitForCompletionWithTimeout.                              *)
WaitForCompletion ==
  /\ fetcher = "loop" /\ currentPeriod < MaxPeriods
  /\ \A t \in Critical : EndOfPeriod(t)
  /\ fetcher' = "complete"
  /\ todo' = TrackOrder
  /\ UNCHANGED <<workerVars, stopVars, profileChanged, future, eosReached,
                 changes, done, initFor, currentPeriod, nextSegment,
                 eosSubmitted, switches, initFailures>>

(* Mutant: the dummy job is queued in front of the downloads.              *)
WithDummyFirst(q, waited) == <<Dummy(waited)>> \o q

(* The dummy job behind everything that is queued.                         *)
WithDummy(q, waited) == Append(q, Dummy(waited))

(* The dummy goes to the worker itself: mStopInProgress is not consulted.  *)
(* A refused dummy, and a subtitle worker, are not waited for.             *)
CompletionSubmit ==
  /\ fetcher = "complete" /\ todo # <<>>
  /\ LET t == Head(todo) waited == t \in Critical IN
     IF mStopped[t]
     THEN /\ todo' = Tail(todo)
          /\ UNCHANGED <<mJobQueue, fetcher, future>>
     ELSE /\ mJobQueue' = [mJobQueue EXCEPT
                             ![t] = WithDummy(@, IF waited THEN 1 ELSE 0)]
          /\ fetcher' = IF waited THEN "completeWait" ELSE fetcher
          /\ todo' = IF waited THEN todo ELSE Tail(todo)
          /\ future' = IF waited THEN "pending" ELSE future
  /\ UNCHANGED <<mStopped, mPaused, worker, currentJob, stopVars,
                 profileChanged, eosReached, changes, done, initFor,
                 currentPeriod, nextSegment, eosSubmitted, switches,
                 initFailures>>

(* wait_for is ready; future.get() may throw "Job cancelled", which is     *)
(* caught here.                                                            *)
CompletionReturns ==
  /\ fetcher = "completeWait" /\ future \in {"value", "cancelled"}
  /\ future' = "none"
  /\ todo' = Tail(todo)
  /\ fetcher' = "complete"
  /\ UNCHANGED <<workerVars, stopVars, profileChanged, eosReached, changes,
                 done, initFor, currentPeriod, nextSegment, eosSubmitted,
                 switches, initFailures>>

(* Next period: StreamSelection sets profileChanged on every track.        *)
NextPeriod ==
  /\ fetcher = "complete" /\ todo = <<>>
  /\ currentPeriod' = currentPeriod + 1
  /\ profileChanged' = [t \in Tracks |-> TRUE]
  /\ nextSegment' = [t \in Tracks |-> LastOf(currentPeriod) + 1]
  /\ todo' = TrackOrder
  /\ fetcher' = "init"
  /\ UNCHANGED <<workerVars, stopVars, future, eosReached, changes, done,
                 initFor, eosSubmitted, switches, initFailures>>

(* Mutant: ResetWorker does not wait for its dummy job.                    *)
ResetWorkerNoWait(t) ==
  /\ fetcher = "loop" /\ switches < MaxSwitches
  /\ switches' = switches + 1
  /\ todo' = <<t>>
  /\ mJobQueue' = [mJobQueue EXCEPT ![t] = <<>>]
  /\ fetcher' = "switch"
  /\ UNCHANGED <<mStopped, mPaused, worker, currentJob, stopVars,
                 profileChanged, future, eosReached, changes, done, initFor,
                 currentPeriod, nextSegment, eosSubmitted, initFailures>>

(* SwitchAudioTrack or SwitchSubtitleTrack, first half: ResetWorker takes  *)
(* mMutex, clears the queue and waits for a dummy job.                     *)
ResetWorker(t) ==
  /\ fetcher = "loop" /\ switches < MaxSwitches
  /\ switches' = switches + 1
  /\ todo' = <<t>>
  /\ IF mStopped[t]
     THEN /\ mJobQueue' = [mJobQueue EXCEPT ![t] = <<>>]
          /\ fetcher' = "switch"
          /\ UNCHANGED future
     ELSE /\ mJobQueue' = [mJobQueue EXCEPT ![t] = WithDummy(<<>>, 1)]
          /\ fetcher' = "resetWait"
          /\ future' = "pending"
  /\ UNCHANGED <<mStopped, mPaused, worker, currentJob, stopVars,
                 profileChanged, eosReached, changes, done, initFor,
                 currentPeriod, nextSegment, eosSubmitted, initFailures>>

(* future.get() is not in a try block: "Job cancelled" leaves ResetWorker, *)
(* SwitchAudioTrack and FetcherLoop, and ends the process.                 *)
ResetReturns ==
  /\ fetcher = "resetWait" /\ future \in {"value", "cancelled"}
  /\ fetcher' = IF future = "value" THEN "switch" ELSE "terminated"
  /\ future' = "none"
  /\ UNCHANGED <<workerVars, stopVars, profileChanged, eosReached, changes,
                 done, initFor, todo, currentPeriod, nextSegment,
                 eosSubmitted, switches, initFailures>>

(* Where the new track may go on: UpdateMediaTrackInfo goes back to the    *)
(* start of the current period and SkipFragments moves on to the play      *)
(* position, which is not past what was downloaded.                        *)
ResumePoints(t) ==
  LET first == LastOf(currentPeriod - 1) + 1
  IN  first .. (IF done[t] < first THEN first ELSE done[t] + 1)

(* Second half: UpdateMediaTrackInfo clears eos and sets profileChanged,   *)
(* and segments from the play position on are fetched again, of the new    *)
(* track.  Neither eosReached nor the fetcher's EOS flag is reset.         *)
SwitchTrack ==
  /\ fetcher = "switch"
  /\ LET t == Head(todo) IN
     /\ profileChanged' = [profileChanged EXCEPT ![t] = TRUE]
     /\ initFor' = [initFor EXCEPT ![t] = 0]
     /\ \E n \in ResumePoints(t) :
          /\ nextSegment' = [nextSegment EXCEPT ![t] = n]
          /\ done' = [done EXCEPT ![t] = n - 1]
  /\ fetcher' = "init"
  /\ UNCHANGED <<workerVars, stopVars, future, eosReached, changes, todo,
                 currentPeriod, eosSubmitted, switches, initFailures>>

------------------------------------------------------------------------------
(* The controller: StreamAbstractionAAMP_MPD::Stop and the next tune.      *)

(* DisableDownloads, then the first statement of StopWorkers.              *)
StopWorkers ==
  /\ controller = "playing"
  /\ mStopInProgress' = TRUE
  /\ controller' = "copy"
  /\ UNCHANGED <<workerVars, fetcherVars, profileChanged, future, eosReached,
                 changes, done, initFor, stopping, tunes, initFailures>>

CopyWorkers ==
  /\ controller = "copy" /\ MutexFree
  /\ stopping' = TrackOrder
  /\ controller' = "pause"
  /\ UNCHANGED <<workerVars, fetcherVars, profileChanged, future, eosReached,
                 changes, done, initFor, mStopInProgress, tunes, initFailures>>

Pause ==
  /\ controller = "pause" /\ stopping # <<>>
  /\ mPaused' = [mPaused EXCEPT ![Head(stopping)] = TRUE]
  /\ controller' = "stop"
  /\ UNCHANGED <<mJobQueue, mStopped, worker, currentJob, fetcherVars,
                 profileChanged, future, eosReached, changes, done, initFor,
                 mStopInProgress, stopping, tunes, initFailures>>

(* Mutant: the flag is set and nobody is notified to see it.               *)
StopWorkerUnseen ==
  /\ controller = "stop"
  /\ controller' = "join"
  /\ UNCHANGED <<workerVars, fetcherVars, profileChanged, future, eosReached,
                 changes, done, initFor, mStopInProgress, stopping, tunes,
                 initFailures>>

StopWorker ==
  /\ controller = "stop"
  /\ mStopped' = [mStopped EXCEPT ![Head(stopping)] = TRUE]
  /\ controller' = "join"
  /\ UNCHANGED <<mJobQueue, mPaused, worker, currentJob, fetcherVars,
                 profileChanged, future, eosReached, changes, done, initFor,
                 mStopInProgress, stopping, tunes, initFailures>>

(* SetCancelled on every queued job: the fetcher's dummy may be among them.*)
Cancelled(q, f) == IF Dummy(1) \in ToSet(q) THEN "cancelled" ELSE f

(* join, then ClearJobs.                                                   *)
JoinWorker ==
  /\ controller = "join"
  /\ LET t == Head(stopping) IN
     /\ worker[t] = "exited"
     /\ future' = Cancelled(mJobQueue[t], future)
     /\ mJobQueue' = [mJobQueue EXCEPT ![t] = <<>>]
  /\ stopping' = Tail(stopping)
  /\ controller' = IF Tail(stopping) = <<>> THEN "joinFetcher" ELSE "pause"
  /\ UNCHANGED <<mStopped, mPaused, worker, currentJob, fetcherVars,
                 profileChanged, eosReached, changes, done, initFor,
                 mStopInProgress, tunes, initFailures>>

(* Mutant: mStopInProgress is not reset for the next tune.                 *)
RemoveWorkersFlagKept ==
  /\ controller = "joinFetcher" /\ fetcher = "exited"
  /\ controller' = "removed"
  /\ UNCHANGED <<workerVars, fetcherVars, profileChanged, future, eosReached,
                 changes, done, initFor, mStopInProgress, stopping, tunes,
                 initFailures>>

(* fragmentCollectorThreadID.join() and ClearWorkers.                      *)
RemoveWorkers ==
  /\ controller = "joinFetcher" /\ fetcher = "exited"
  /\ mStopInProgress' = FALSE
  /\ controller' = "removed"
  /\ UNCHANGED <<workerVars, fetcherVars, profileChanged, future, eosReached,
                 changes, done, initFor, stopping, tunes, initFailures>>

(* The next tune: InitializeWorkers, Init and Start of a new stream.       *)
InitializeWorkers ==
  /\ controller = "removed" /\ tunes < MaxTunes
  /\ tunes' = tunes + 1
  /\ controller' = "playing"
  /\ mJobQueue' = [t \in Tracks |-> <<>>]
  /\ mStopped' = [t \in Tracks |-> FALSE]
  /\ mPaused' = [t \in Tracks |-> FALSE]
  /\ worker' = [t \in Tracks |-> "idle"]
  /\ currentJob' = [t \in Tracks |-> NoJob]
  /\ profileChanged' = [t \in Tracks |-> TRUE]
  /\ fetcher' = "init" /\ todo' = TrackOrder
  /\ currentPeriod' = 1
  /\ nextSegment' = [t \in Tracks |-> 1]
  /\ eosSubmitted' = [t \in Tracks |-> FALSE]
  /\ eosReached' = [t \in Tracks |-> FALSE]
  /\ done' = [t \in Tracks |-> 0]
  /\ initFor' = [t \in Tracks |-> 0]
  /\ UNCHANGED <<mStopInProgress, stopping, future, changes, switches,
                 initFailures>>

------------------------------------------------------------------------------
WorkerStep(t) ==
  \/ TakeJob(t) \/ WorkerExit(t) \/ RunControlJob(t)
  \/ DownloadSegment(t) \/ DownloadSegmentAndChangeProfile(t)
  \/ DownloadInit(t) \/ DownloadInitFails(t) \/ RampDown(t)
  \/ RescheduleActiveJob(t) \/ SubmitInitFromJob(t)

FetcherStep ==
  \/ FetchInit \/ FetchInitDone
  \/ \E t \in Tracks : FetchSegment(t) \/ SubmitEos(t)
  \/ FetcherExit \/ FetcherEnds
  \/ WaitForCompletion \/ CompletionSubmit \/ CompletionReturns \/ NextPeriod
  \/ ResetReturns \/ SwitchTrack

StopStep ==
  \/ CopyWorkers \/ Pause \/ StopWorker \/ JoinWorker \/ RemoveWorkers

Next ==
  \/ \E t \in Tracks : WorkerStep(t)
  \/ FetcherStep
  \/ \E t \in Switchable : ResetWorker(t)
  \/ StopWorkers
  \/ StopStep
  \/ InitializeWorkers

Spec == Init /\ [][Next]_vars

(* Threads that can run do: a download ends, the fetcher iterates, Stop    *)
(* proceeds.  Nothing obliges the application to stop or switch.           *)
Fairness ==
  /\ \A t \in Tracks : WF_vars(WorkerStep(t))
  /\ WF_vars(FetcherStep)
  /\ WF_vars(StopStep)

FairSpec == Spec /\ Fairness

------------------------------------------------------------------------------
(* Types of the state.                                                     *)
TypeOK ==
  /\ mJobQueue \in [Tracks -> Seq(Job)]
  /\ mStopped \in [Tracks -> BOOLEAN]
  /\ mPaused \in [Tracks -> BOOLEAN]
  /\ worker \in [Tracks -> {"idle", "running", "reschedule", "callback", "exited"}]
  /\ currentJob \in [Tracks -> Job \cup {NoJob}]
  /\ mStopInProgress \in BOOLEAN
  /\ profileChanged \in [Tracks -> BOOLEAN]
  /\ fetcher \in {"init", "initDone", "loop", "complete", "completeWait",
                  "resetWait", "switch", "exited", "terminated"}
  /\ todo \in Seq(Tracks)
  /\ future \in {"none", "pending", "value", "cancelled"}
  /\ currentPeriod \in 1 .. MaxPeriods
  /\ nextSegment \in [Tracks -> 1 .. LastOf(MaxPeriods) + 1]
  /\ eosSubmitted \in [Tracks -> BOOLEAN]
  /\ eosReached \in [Tracks -> BOOLEAN]
  /\ controller \in {"playing", "copy", "pause", "stop", "join", "joinFetcher",
                     "removed"}
  /\ stopping \in Seq(Tracks)
  /\ changes \in 0 .. MaxProfileChanges
  /\ initFailures \in 0 .. MaxInitFailures
  /\ switches \in 0 .. MaxSwitches
  /\ tunes \in 1 .. MaxTunes
  /\ done \in [Tracks -> 0 .. LastOf(MaxPeriods)]
  /\ initFor \in [Tracks -> 0 .. MaxPeriods]

RunsSegment(t) == Running(t, {"segment"})

(* Through ramp-downs, which clone the failed job and push it back, and    *)
(* resets, a track downloads its segments in order until Stop disables     *)
(* downloads: none is lost, repeated once downloaded, or overtaken by its  *)
(* successor.  A switch starts the sequence anew at the play position.     *)
SegmentsInOrder ==
  controller = "playing" =>
    \A t \in Critical : RunsSegment(t) => currentJob[t].n = done[t] + 1

(* While downloads are enabled, a segment is downloaded only after the     *)
(* init segment of its own period and profile: the init job submitted from *)
(* the failing job's callback passes the retried segment, and the init     *)
(* jobs of a new period, pushed to the front, pass no segment of the old   *)
(* one, because WaitForCompletionWithTimeout has drained the worker.       *)
InitBeforeSegment ==
  controller = "playing" =>
    \A t \in Critical : RunsSegment(t) => initFor[t] = currentJob[t].period

(* When ResetWorker has returned, nothing of the old track is queued or    *)
(* being downloaded: no callback of it can cache a fragment after the      *)
(* flush that follows in SwitchAudioTrack.                                 *)
ResetIsBarrier ==
  fetcher = "switch" =>
    LET t == Head(todo) IN
    mStopped[t] \/ (worker[t] = "idle" /\ mJobQueue[t] = <<>>)

(* The end of a track is marked at a time when its last segment has been   *)
(* downloaded or given up, even when that segment was retried after the    *)
(* EOS job had been queued, and although a switch may send the track back  *)
(* after the EOS job was queued: ResetWorker has removed the job then.     *)
(* Only a worker that Stop has already told to leave may mark it late.     *)
EosAfterLastSegment ==
  [][\A t \in Tracks : ~eosReached[t] /\ eosReached'[t] /\ ~mStopped[t] =>
       done[t] = LastOf(MaxPeriods)]_vars

(* "set to true when a vod asset has been played to completion"            *)
(* (eosReached): while it is set the track has nothing left to download.   *)
(* Does not hold: an audio switch sends the track back and leaves it set.  *)
EosMeansComplete ==
  \A t \in Tracks : eosReached[t] => done[t] = LastOf(MaxPeriods)

(* Once StopWorkers has returned, no job runs, none is queued and none is  *)
(* accepted, although the fetcher is still running: Stop goes on to free   *)
(* what the jobs refer to.                                                 *)
StopIsQuiescent ==
  controller \in {"joinFetcher", "removed"} =>
    \A t \in Tracks : worker[t] = "exited" /\ mJobQueue[t] = <<>>

(* An EOS job, once submitted, is queued, running or done: "The EOS worker *)
(* job sets eosReached on the track" (FetcherLoop), which is what ends     *)
(* playback.  Does not hold: an audio switch cancels the queued job.       *)
EosNotLost ==
  controller = "playing" =>
    \A t \in Critical : eosSubmitted[t] =>
      \/ eosReached[t]
      \/ EosJob \in ToSet(mJobQueue[t]) \cup {currentJob[t]}

(* Calls into a worker never wait, with mMutex held, for a job that itself *)
(* waits for mMutex: "outside mMutex to avoid deadlock with workers that   *)
(* call back" (StopWorkers).                                               *)
NoLockCycle ==
  fetcher = "resetWait" => worker[Head(todo)] \notin {"reschedule", "callback"}

(* "If the future is valid, wait for the reset job to complete": the wait  *)
(* ends in a return, not in an exception that nobody catches.  Does not    *)
(* hold: Stop may cancel the job that ResetWorker waits for.               *)
FetcherSurvives == fetcher # "terminated"

(* Stop returns: every worker leaves its loop, and the fetcher leaves      *)
(* WaitForCompletionWithTimeout because the jobs it waits for are          *)
(* cancelled.                                                              *)
StopReturns == (controller # "playing") ~> (controller \in {"removed", "playing"})

(* Playback that is not stopped reaches the end of every track: no period  *)
(* is left waiting in WaitForCompletionWithTimeout, and nothing that the   *)
(* last tune has left behind keeps the jobs of this one from running.      *)
EndIsReached ==
  controller = "playing"
    ~> (controller # "playing" \/ \A t \in Critical : eosReached[t])
=============================================================================
