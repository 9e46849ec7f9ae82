# A TLA+ model of AAMP

AAMP (Advanced Adaptive Media Player) plays HLS and DASH streams on RDK set-top
boxes.  It is a C++ program of some twenty threads: the application's, a command
queue, a fragment collector, one download worker and one injector per track,
buffer-health, latency, underflow and DRM threads, and GStreamer's own.  They
share state under a dozen mutexes and wake each other with condition variables,
not all of them with predicates.  This project models the parts in which those
threads meet, checks them with TLC and proves what it can with TLAPS.  Paths are
relative to the repository.

## 1. Inventory

| Part | State | Operations | Meets | Hard about it |
|---|---|---|---|---|
| `AampScheduler` | queue of tasks, lock-out flag, two mutexes | schedule, remove, run, suspend, resume, stop | player API, every thread that schedules a retune | tests made before the lock, order of the two mutexes, wait without predicate |
| `AampTrackWorker`, `AampTrackWorkerManager` | a job queue per track, stop and pause flags, a map of workers | submit, run, reschedule after ramp-down, drain, reset, stop, remove | DASH fetcher, `MediaStreamContext` callbacks, `Stop` | callbacks from inside a job, cancelled futures, order of init segments, retry after EOS |
| `MediaTrack` (`streamabstraction.cpp`, `MediaStreamContext.cpp`, `CachedFragment.cpp`) | ring of fragments, two indices, a count, abort flags | cache, inject, discontinuity stop, flush, switch, stop, detach | fetcher or worker, injector, player operations | flags read without the lock, flush under the injector's feet, lost wake-ups, joins |
| `AampEventManager` | listeners, queue of events, list of idle sources | register, send, deliver, flush, destroy | all threads, GLib main loop | callback before its registration, flush in between, delivery to freed object |
| Discontinuities (`streamabstraction.cpp`, `priv_aamp.cpp`) | `mTrackState`, processing flags, pending task | pair the tracks, reconfigure the pipeline, tear down | two injectors, sink, stall monitors, scheduler | three waits without predicate, state changed without its lock |
| Player life cycle (`main_aamp.cpp`, `priv_aamp.cpp`) | player state, rate, position, locks | tune, seek, set rate, retune, stop, detach, release | everything | asynchronous commands against a state that changes |
| `AampStreamSinkManager` | active and inactive sinks, EPG and policy | create, activate, deactivate, delete | several players | one pipeline for many players |
| `AampBufferControl`, underflow and latency monitors | per-track strategy, thread flags | need/enough data, underflow, rate correction | GStreamer callbacks, injector | callbacks against teardown |
| Local TSB (`tsb/`, `AampTsb*`, `AampTSBSessionManager`) | files, metadata, read and write positions | write, cull, read, seek, flush | downloader, injector | culling under the reader, capacity, a second producer of the ring |
| DRM (`drm/`, `AampDRMLicPreFetcher`) | queue of key requests, session slots | queue, fetch, cancel, error | collector, sink | late key for a stopped stream, slot reuse |
| Manifest and segment downloads (`AampMPDDownloader`, `downloader/`) | shared connections, refresh thread | get, refresh, abort, release | collector | release while a download runs |
| Ads (`admanager_mpd.cpp`, `AampVodStitcher.cpp`) | ad breaks, placements | place, fulfil, start, end | fetcher | ad not yet resolved when its break starts |
| Algorithms (`abr/`, `AampConfig`, caches) | bandwidth samples, owners of settings | choose profile, set, insert, evict | all | boundaries |

What makes the modelled parts correct, in one line each:

* scheduler: while `Stop` tears a stream down no command runs or waits; commands
  run in order; a newer rate replaces the older; nothing is forgotten;
* workers: segments in order, each after its init segment, EOS after the last;
  after a stop or a reset nothing of the old stream is under way; waits end;
* track: a bounded FIFO queue from downloader to pipeline, except where a switch
  empties it on purpose, and then nothing old gets through; `Stop` returns;
* events: every queued event has an idle callback to deliver it, each sender's
  events stay in order, nothing is called after destruction;
* player: an idle player has nothing queued, under way or held, whatever a `Stop`
  interrupted; a retune that runs is never called off; every call returns;
* pairing: the pipeline is reconfigured only when both tracks stand at the same
  discontinuity, no fragment slips past one, and playback ends;
* TSB store: what was written stays until it is deleted or flushed, the space is
  accounted for exactly, a new or flushed store is empty, a clean exit leaves
  nothing behind;
* TSB session: no fragment in the metadata lacks a file, and a file goes with the
  last fragment that needs it; a fragment played from the store follows its init segment; reader and downloader hand a
  track over without repeating or reordering.

The parts that are not modelled, with the reason, are in `PROJECT.json` under
`components`; what is hard to test, at its line, is there under `hazards`.

## 2. Modules

| Module | Models | Extends / instantiates |
|---|---|---|
| `AampScheduler` | `AampScheduler.cpp` | |
| `AampTrackWorkerManager` | `AampTrackWorker.cpp`, `AampTrackWorkerManager.cpp`, and what `FetcherLoop`, `SwitchAudioTrack`, `OnFragmentDownloadComplete` and `Stop` do with them | |
| `MediaTrack` | the ring and inject loop | instantiates `FragmentQueue` |
| `FragmentQueue` | what a track promises: an abstract bounded queue | |
| `AampEventManager` | `AampEventManager.cpp` and the GLib idle sources it uses | |
| `PrivateInstanceAAMP` | tune, seek, rate change, stop, retune and discontinuity processing of `main_aamp.cpp` and `priv_aamp.cpp`, on the threads they run on | |
| `StreamAbstractionAAMP` | how two injectors of a stream take a discontinuity together | |
| `TsbStore` | `tsb/src/TsbStore.cpp` over a disk that survives the process | |
| `AampTSBSessionManager` | `AampTSBSessionManager.cpp`, `AampTsbDataManager.cpp`, `AampTsbReader.cpp`, and what the download workers, `TsbReader` and seeks do with them | |
| `MC...` | instances for TLC, one per component | the component |
| `AampSchedulerProofs`, `AampTrackWorkerManagerProofs`, `MediaTrackProofs`, `AampEventManagerProofs`, `PrivateInstanceAAMPProofs`, `StreamAbstractionAAMPProofs`, `TsbStoreProofs`, `AampTSBSessionManagerProofs` | proofs | the component |

Conventions.  A region under one mutex is one action.  Where code tests
something before it takes the lock, or gives the lock up in the middle, the
action is cut there.  A mutex is a variable only if it is held across steps
(`exOwner`, `mutex`, `MutexFree`).  A wait without predicate is a control state
which a thread leaves only by a notification sent while it is there; so lost
wake-ups are part of the model.  A definition ending in a suffix and preceded by
"Mutant:" is a deliberately wrong version of the definition after it; it is used
only to show that a property can fail.  Variables marked "ghost" record history
for a property and influence nothing.

### AampScheduler

State names are those of the class.  `ScheduleTaskAdmit` and the queueing step
are the two halves of `ScheduleTask`.  The worker gives up `mQMutex` while it
waits for `mExMutex` (`TakeExecutionLock`), then looks at the queue again
(`Dequeue`).  The application thread suspends, removes all tasks, resumes or
stops, in the order of `PlayerInstanceAAMP::Stop`, `detach` and the destructor.
Task bodies are abstract: a name (`SetRate` or not).

### AampTrackWorkerManager

Actors are the fetcher, one worker per track and the controller (`Stop`).  A job
is a segment, an init segment, an EOS job or the empty job by which the code
waits for a queue to drain.  A download succeeds, fails and is retried at a
lower profile (`Rescheduled`, then the init job in front of it), or fails for
good.  `SwitchTrack` sends the track back to the play position, which may be any
segment of the period up to the next one due (`ResumePoints`), and leaves
`eosReached` as it is, as `SwitchAudioTrack`, `UpdateMediaTrackInfo` and
`FlushFragments` do.  `ResetWorker` holds the manager's mutex while it waits; everybody who
needs that mutex tests `MutexFree`.

### MediaTrack

Actors are the fetcher (collector thread and worker in one, since they act on a
track one after the other), the injector and a controller that restarts, stops,
detaches or refreshes.  The audio switch is four steps of the fetcher (abort and
reset, clear the slots, clear indices and count, retarget) because the code does
them under different locks or none.  Payloads are a fragment number and the
audio selection it was downloaded for.

`FragmentQueue` sees the number of each fragment in `Waiting` (the slots that
indices and count describe) and in `injected`.  The fragment that was handed to
the pipeline while the index has not yet advanced is already delivered.

### AampEventManager

`SendEvent` is split into the tests made without the lock, the push, the call of
`g_idle_add_full` and the entry in `mPendingAsyncEvents`; the callback may run
between any two of them.  `calls` is the stack of deliveries, since a listener
may send an event in turn.  The main loop picks any of its sources.

### PrivateInstanceAAMP

Each of four threads has an operation, a label in it and the tune type of the
`TuneHelper` it is in.  `App` calls `Tune`, `Seek`, `SetRate` and `Stop`; the
main loop `Loop` (the same thread in a JavaScript application) delivers first
frame, end of stream and errors of the sink; `Sched` runs the tasks of
`AampScheduler`; `Collector` is the fragment collector of the stream, which
`TeardownStream` joins.  `mStreamLock` is held over a whole `TuneHelper`,
`suspended` stands for `mExMutex` and the lock-out of `Stop`, and `gCond` and
`mCondDiscontinuity` are waits without predicate.  `TuneHelper` is cut where it
takes or gives up a lock or calls out: teardown, creation, `Init` (which may
fail in two ways), `Start`.  The queue of `AampScheduler` is taken as what its
own module proves of it: in order, emptied and refused during a suspension, and
refused in the error state (`Refuses`).  `IgnoreTrickPlay` is the early return of
`SetRate` for a trick rate without an iframe track.

### StreamAbstractionAAMP

A fetcher fills two rings period by period; each injector goes through
`CheckForDiscontinuity` and `ProcessDiscontinuity`; the buffer monitor of a
track may let it go; the sink reports an end of stream when both tracks have
sent one, and the main loop then joins, reconfigures and restarts the injectors.
Which periods begin with a discontinuity, which of these change the codec, how
many fragments a track has and which period of it is lost is chosen in `Init`.
`mStateCond.wait` has no predicate and is a label that only `NotifyOne` leaves.

### TsbStore

Files and directories are what is on the disk; `Crash` keeps them and loses
everything else.  `Write` is cut where other threads see it on the disk:
directories, empty file, contents.  The flusher removes a directory file by file.
`epoch`, `crashed` and `kept` are history.

### AampTSBSessionManager

Actors are the downloader of each track, the write thread, the thread that
culls, the reader thread and the application, which seeks.  A region under
`mReadMutex` is one step; the reader and `CullSegments` give the mutex up around
calls of the store, so a fragment can be removed between the lookup of its
metadata and the read of its file.  An item is a media fragment or the init
segment of a representation; the latter has the position at which the last
download ended, and any number may come in a row, of different representations
(a ramp-down) or of the same one again.  `OnFragmentDownloadFailed` leaves a
fragment out.  `WriterWrite` takes a file that is there already for written and
enters nothing; otherwise `AddFragment` makes an init segment the current one
(`AddInitFragment`), or enters a fragment as a user of the current one; without a
current one the fragment stays out of the map.  `OnFragmentDownloadSuccess` is the test for
the end of the stored part (`CheckEos`), the wait for the reader, the queueing
and, when the track is not played from the store, the push into the ring; the
queueing and the test after it are one step, since only a seek could fall
between them.  `mTsbFragmentData` keeps every fragment ever added, because the
links outlive removal, and `culled` says how many are no longer in the map.
`injected` (what went into the ring last), `overtaken` (a seek came while a
downloader was past its test) and `emptied` (tracks which lost all fragments)
are history.  The last two mark where section 6 says the code breaks the
property; without them `InjectedInOrder` and `ReaderPushesInit` fail.

## 3. Runs

| Run | Instance | Shows |
|---|---|---|
| `scheduler` | 2 callers, ids wrap at 2, 3 tasks | `StopIsQuiescent`, `FirstInFirstRun`, `LatestSetRateWins`, `QueueDrains`, `StopReturns` |
| `workers_safety` | video and audio, 2 periods of 2 segments, one ramp-down, one failed init, one switch | `SegmentsInOrder`, `InitBeforeSegment`, `ResetIsBarrier`, `EosAfterLastSegment`, `StopIsQuiescent` |
| `workers_liveness` | the same with 1 segment, 2 tunes, no switch | `StopReturns`, `EndIsReached` |
| `track` | audio and subtitle, ring of 2, 5 fragments, a discontinuity, 2 rejections, 1 restart | `ImplementsFragmentQueue`, `DiscontinuityWaitsForPipeline`, `EosAfterLastFragment`, `StopReturns`, `DetachReturns`, `EndIsSignalled` |
| `track_switch` | audio, with and without chunk mode, one switch, which may fail and be repeated, one spurious wake-up | `CacheWithinCapacity`, `NoOldAudioAfterSwitch` |
| `events` | 2 background threads and the main loop, 2 events, 2 changes of listeners or settings | `NoCallbackAfterDestroy`, `EventHasSource`, `FlushedNeverDelivered`, `SenderOrder`, `QueuedIsServed` |
| `player` | 3 API calls, live or recorded content, synchronous and asynchronous API, 2 reports of errors or discontinuities | `IdleHasNoStream`, `RetuneStands` |
| `pairing` | 3 periods of 1 or 2 fragments per track, rings of 2, every choice of discontinuities and codec changes, one lost period | `PairedWhenConfigured`, `NoneAcrossDiscontinuity`, `PlaybackEnds` |
| `tsb_store` | 2 threads, 2 segments, 4 constructions or flushes, a disk of 3 units for a capacity of 2, one crash | `WrittenIsKept`, `AccountingExact`, `NothingStale`, `CleanExit`, `DestructorReturns` |
| `tsb_session` | 2 video fragments with up to 2 init segments of 2 representations, 1 audio fragment and init segment, fragments left out, a window of 1 fragment, a store in which writes may fail from 3 files on and do with 5, one seek (to any position or to live) | `StoreMatchesMetadata`, `ReaderPushesInit`, `EosIsTheEnd`, `InjectedInOrder` |
| `workers_lock_cycle` | violation | `NoLockCycle`, see 6 |
| `player_hang` | violation | `CallReturns`, see 6 |

Bounds.  A ring of two is full, empty and wraps within five fragments, and a
discontinuity in fourth place meets it after a wrap.  Two periods are the fewest
with a change of period, two segments the fewest for an order within one.  Two
callers are enough for one to pass the tests of `ScheduleTask` while another
edits the queue.  The ids wrap at every task, so that queued tasks share ids; the code's limit is large.
Two background threads and the main loop allow a callback, a half-entered source
and a flush at once; the bookkeeping invariants of that instance are proved for
any number.  Three API calls are the fewest for a tune, a call that changes the
stream and a `Stop` beside it; two reports let a retune meet a discontinuity.
Three periods are the fewest with two discontinuities, which the fetcher's wait
at a period change, the notes of ignored discontinuities and stale bits need.
Four epochs let the flusher fall two directories behind and a store be
constructed over the remains of another; the disk is smaller than two full
stores, so that a write meets a full disk during a flush.  Two video fragments
and a window of one let the culler pass the reader; two init segments come in a
row or with a fragment between them, of one or of two representations, so that
one has two users, or is replaced before it has any, or is refused as already
there; five files, the fewest with which the window is exceeded while audio is
stored, are one fewer than the session would write, and files differ in size, so
that a write may fail with three: the writer makes room early, late or never.  The representations are interchangeable, and TLC uses that as a
symmetry.  Each other bound (`Max...`) is an event of the environment that is
allowed once or twice, so that its effect is seen before and after everything
else.  Deadlock is not checked: every one of these components comes to rest
(stopped, destroyed, or the bounded environment is used up), and that threads
are not stuck is what the liveness properties say.

Fairness.  Weak fairness of each thread's steps: threads are scheduled, downloads
end (curl has timeouts), commands and listeners return, the pipeline takes the
fragment it is given (the injector's throttling, `BlockUntilGstreamerWantsData`
and the catch-up waits are left out).  Nothing is assumed of the environment:
calls of the API, ramp-downs, switches, flushes, crashes need not happen.  The
safety runs of the player and of the TSB session state no fairness; `player_hang` has weak fairness of
every thread's steps and of what the pipeline does by itself, and is refuted
nevertheless.  In `pairing` the sink plays out what it has and reports it, and
the buffer monitors keep being scheduled, as their threads do.  Strong fairness
only for taking `mExMutex` in the scheduler, where a thread that keeps on
acquiring a mutex must not starve the other for ever; the code relies on it.

## 4. Proofs

Proved by TLAPS for every value of the constants that satisfies the module's
named assumption; TLC evaluates the assumptions on the instances.  Where a theorem needs more than the assumption, the hypothesis is part of
its statement and named below.  Each inductive invariant was checked with TLC on
the instance of its run (and on larger ones by simulation) before it was proved.

* `AampSchedulerProofs`: `TypeCorrect`, `SuspensionIsQuiescent`
  (`StopIsQuiescent`), `TasksRunInOrder` (`FirstInFirstRun`), `NewestSetRateWaits`
  (`LatestSetRateWins`: the one SetRate that may wait is the newest accepted).  The first property is not inductive: it needs
  `LockInv`, which says who holds `mExMutex` and when the lock-out flag is set at
  each stage of a suspending call, and that the worker executes only with the
  mutex.  A caller that passed the early tests of `ScheduleTask` is stopped by
  the flag under the lock.  The order theorems rest on what `RemoveAt` and
  `Append` leave of a queue: erasing a task keeps the others in order, and the
  worker takes the head it finds after it has reacquired the lock, not the one it
  saw before.  Of the rate changes, a SetRate in the queue is the newest accepted
  (`newestRate`, a ghost), and the newest is lost only by being run or removed.  `RemovedStaysRemoved`: a task that was taken out of the queue
  never runs (`RemovedInv`: and is not in the queue again).  `NoWaitIsForever` (`NobodyStuck`) is the part of `QueueDrains` and
  `StopReturns` that needs no fairness: the worker sleeps only on an empty queue
  and not while it is joined, and whoever waits for `mExMutex` waits for a thread
  that has it and goes on.
* `AampTrackWorkerManagerProofs`: `WorkerTypesCorrect`, `StoppedIsQuiescent`,
  `ResetIsABarrier`, `NoPromiseIsLost`, `SegmentsArriveInOrder`,
  `InitComesFirst`, `EosComesLast`, for any tracks, periods and segments and wherever
  audio switches resume.  The last is about the step that sets `eosReached`: the
  last segment is downloaded then.  Nothing is claimed of the flag afterwards,
  which a switch leaves set (section 6).  `WaitInv` ties what the fetcher waits
  for to the worker: the future it holds (`FutureInv`), the empty job by which it
  drains a queue (`DummyInv`) and the answer of a finished job (`ReplyInv`).
  `PendingInv` is the converse: a future without result belongs to a job that is
  queued or running.  With it `NoPromiseIsLost` (`FutureIsAnswered`) shows that
  no reset, retry or `Stop` drops the job the fetcher waits for, and that
  `StopWorkers` leaves it with an answer.  (That the worker may be blocked on the
  manager's mutex is another matter: `NoLockCycle`, section 6.)
  `TrackInv` says for each track that nothing of an earlier period is under way
  when a period begins (`DrainInv`), that the queue continues where the worker is
  (`OrderInv`), that an EOS job is the last one or is passed only by a
  rescheduled segment (`EosInv`), and that each segment queued has its init
  segment before it (`CoverInv`).
* `MediaTrackProofs`: `TrackTypeCorrect`, `CacheNeverOverflows`,
  `SwitchLeavesNoOldAudio`, `WaitsAreAnswered`, and, under `MaxSwitches = 0` as in the run `track`,
  `DiscontinuityIsABarrier`, `EosIsLast` and the refinement `RingIsAQueue`
  (`Spec => ImplementsFragmentQueue`).  The count is tested and incremented in
  different critical sections; `CountInv` adds that between them there is still
  room, which holds because there is one producer and nobody else increments.
  `SlotInv` says that each slot is empty or of the current selection, and
  `VersionInv` ties the steps of a switch to the request it serves; so whatever
  index the injector is left with after a flush, what it finds there is current.
  `WaitsAreAnswered` (`NoLostWakeup`, from `Awaited`) holds with switches too:
  injector and fetcher wait only while what they wait for has not happened, and
  never for each other; with it a stuck track can only be one whose other thread
  has stopped, as in chunk mode (section 6).  For the refinement `RingInv` says that the slots between the indices, modulo
  the size, are the accepted fragments that are left, in order; `RingStep` splits
  the steps of the ring into enqueue, dequeue, clear and stutter, and `QueueStep`
  maps each to a step of `FragmentQueue`.  With a switch the refinement is false:
  a flush under the injector loses fragments (section 6).
* `AampEventManagerProofs`: `EventTypesCorrect`, `SourcesAreTracked`,
  `AssertionsNeverFail`, `DestroyedIsSilent`, `EveryEventHasSource`,
  `FlushedStaysFlushed`, `EventsArriveInOrder`.  `BInv` adds to `LiveIsPending`
  and `AssertionsHold` that each source id has one sender and that an id entered
  as done does not run again.  `DeadInv` adds that the manager is destroyed when
  nothing is under way: then every source is entered, and the flush removes them
  all.  `EveryEventHasSource` counts: a push adds an event and a thread that owes
  a source, `g_idle_add` turns the thread into a source, a dispatch turns the
  source into a callback that takes one event, a flush empties the queue.
  `WayInv` says that an event is in one place (`OnePlace`): to be sent, in the
  queue, being delivered, done or flushed.  `OrderInv` adds that only one
  delivery of queued events is under way besides those nested in it (`AloneInv`)
  and that what is being delivered came before what is queued (`CallOrder`).
* `PrivateInstanceAAMPProofs`: `PlayerInvariant`, `IdlePlayerIsEmpty` and `RunningRetuneStands`, the last also under a second
  hypothesis.  The first, `OneLoop` (`Loop = App`): callbacks run on the thread that calls the API, as in
  a JavaScript application, where both are the main loop; with an application
  thread of its own `RetuneStands` does not hold, since a callback can end a
  retune beside `Stop`.  The second,
  `SinkOnly`: the reports that only the callbacks of the sink make (`aampgstplayer.cpp`) do not
  come from the fragment collector.  The invariant says which thread can be in
  the middle of which operation, that `mStreamLock` has the holder the labels
  say, and that while `suspended` the scheduler has no task.
* `StreamAbstractionAAMPProofs`: `StreamTypesCorrect`, `TracksArePaired`
  (`PairedWhenConfigured`) and `NoneSlipsPast` (`NoneAcrossDiscontinuity`), for
  any periods, fragments, ring sizes and failed downloads.  `TInv` has the types,
  that nothing is ahead of the fetcher (`CountInv`), and that an injector at a
  discontinuity has its fragment at the head of the ring, both when the pipeline
  is drained (`StandInv`).  `BitInv`: an injector that waits has its bit of
  `mTrackState` set, unless a track was let go.  `PairInv` says that at most one
  discontinuity is unsettled, that of the period the fetcher is in: the flags
  still in the rings (`FlagInv`) and the one an injector holds (`HeldInv`) are of
  that period, so two injectors that stop, stop at the same one.  `NoneInv`: until
  a track has pushed media there is a media fragment before its next flag, so no
  flag is passed by because nothing was pushed (`MediaFirst`); flags are of
  periods the pipeline is not yet configured for (`FlagAhead`); and in front of
  what lies beyond a discontinuity there is a flag, or the injector has stopped
  (`Barrier`).
* `TsbStoreProofs`: `StoreTypesCorrect`, `StoredStaysStored` (`WrittenIsKept`)
  and `DestructorWakesFlusher` for any threads, segments, capacities, flushes and
  crashes; `CleanExitLeavesNothing`, `OpensWithNothingStale`, `SpaceIsAccounted`
  and `FlushReachesTheDisk` for `SparseCrashes`, the behaviours in which no crash comes while the remains of an
  earlier one are still being flushed.  `OneCrashIsApart` shows that a single
  crash always satisfies this; with two the properties fail (section 6).
  `FlusherInv` counts: posts made, posts to come and directories removed add up
  to the number of the active directory.  So the flusher never reaches the active
  directory early, has removed all others when it sleeps (`FlushReachesTheDisk`),
  and is awake when the destructor joins it (`DestructorWakesFlusher`, the part of
  `DestructorReturns` that needs no fairness).  The used space is a sum over a set of files; that adding or removing a file changes
  it by the file's size is proved by a smallest counterexample, since induction
  over data is out of reach.
* `AampTSBSessionManagerProofs`: `SessionTypesCorrect`, `StoreAgrees`
  (`StoreMatchesMetadata`), `InitIsReadFirst` (`ReaderPushesInit`), `EndIsTheEnd`
  (`EosIsTheEnd`), `RingIsInOrder` (`InjectedInOrder`), for any fragments,
  representations, window and capacity, any init segments in a row or repeated,
  any fragments left out, and any number of failed writes and of seeks.  The
  writing side: from the data managers through the write thread and the queue to
  the downloader, what is downloaded of a track ends before the next begins
  (`OrderInv`); fragments are entered in that order, and those behind the current
  init segment use it (`NodeInv`); so the users of an init segment are counted
  correctly (`UsersInv`), files still wanted are there (`KeptInv`), and those of a
  fragment that has left the map are not, unless another one needs them or the
  culler is about to delete them (`GoneInv`).
  The reading side: a seek goes through its
  steps with the reader thread off (`AppInv`), a reader that told its downloader
  of the end pushes no more (`EndInv`), at any time one of the two owns the ring
  (`OwnerInv`), the init segment a reader remembers was pushed or all its
  fragments are gone (`PushedInv`), and what is in the ring is before what comes
  next from either, the fragment a downloader holds included (`RingInv`).

Only model-checked: the liveness properties, since fairness and `ENABLED` are out
of the prover's reach.  Of some the part that needs no fairness is proved:
`NoWaitIsForever` (scheduler), `NoPromiseIsLost` (workers), `WaitsAreAnswered`
(track), `EveryEventHasSource` (events), `DestructorWakesFlusher` (store): who
waits has not missed what he waits for.  `PlaybackEnds` of the pairing has no such
part.  Every invariant, every action property and the refinement that a passing
run checks is a theorem, and so is the type invariant of each component; the runs
spend their time on the other properties.  What recursive or folded definitions
compute for every input would need induction over data; the one sum that a proof
needs is handled by a smallest counterexample, as said above.

## 5. Abstractions a reader should know

* `MediaTrack`: pairing of discontinuities between tracks is a free choice to
  stop or go on; a discontinuity of the first fragment is ignored as in the
  code; a subtitle track that stops at its own discontinuity is always
  restarted; timed waits for a free slot are polling guards; one producer.
* Workers: `InitBeforeSegment` takes three reads of `profileChanged`
  (`fragmentcollector_mpd.cpp` 14713, 8953, 695) as one step; subtitles are
  excluded because the code does not drain their worker.
* The early `break` of `FetcherLoop` for a finished base period (line 10747,
  client-side ads) skips the drain and is left for the model of ads.
* Scheduler: `EnableScheduleTask` has no caller outside the unit tests.
* Events: `mPlayerState` is never anything but `eSTATE_IDLE`, although the
  header calls it "updated only at start and Release" and `Stop` says of the
  flush that it "sets its state to RELEASED"; hence an event sent after the
  flush of `Stop` is still delivered.
  `Destroy` assumes that the player's threads have ended, as the destructor of
  `PrivateInstanceAAMP` arranges before it deletes the manager.
* Player: `RELEASED`, the state of a new player, is taken as `IDLE`, since no
  test of the operations modelled tells them apart; initial caching
  (`BUFFERING`), rewind, `detach`, background players, local TSB and seek while
  paused are left out.
* Pairing: DASH at normal rate with both tracks enabled and without PTS
  restamping (off by default).  `Stop` and processing exclude each other here;
  their meeting is in `PrivateInstanceAAMP`.
* TSB store: of the errors of the file system only a full disk and a failed
  write; a file is the unit, not its bytes.
* TSB session: fragments last one unit, and every file fills one; a file is
  named by URL and position (`ToUniqueUrl`), here by representation and position
  for an init segment and by position for a fragment, of which one is downloaded;
  the ring always gets room again.  Low latency, pause, trick play, ads, reported positions and the
  end of the session (`Stop`, `Flush`) are left out.

## 6. Where code and intention part

Runs that TLC refutes:

* `workers_lock_cycle`: `ResetWorker` waits for a job with the manager's mutex
  held, and the job in front of it calls back into the manager.
* `player_hang`: `TeardownStream` waits, with `mStreamLock` held, for
  discontinuity processing, whose progress report needs `mStreamLock`.

Seen while modelling, checked with TLC on variants, and without a run of their
own:

* Workers.  `EosMeansComplete`: an audio switch after the EOS job of the audio
  track has run, while video is still being fetched, goes back to the play
  position with `eosReached` still set: `UpdateMediaTrackInfo` clears `eos`
  (`fragmentcollector_mpd.cpp` 7047), and only `Start` clears `eosReached`
  (11362), which `StreamAbstractionAAMP.h` 785 describes as "set to true when a
  vod asset has been played to completion".  The injector that finds the flushed
  ring empty then signals the end (`streamabstraction.cpp` 1478).  `EosNotLost`: an audio switch cancels a queued EOS job that is not
  submitted again (`audioEosSubmitted` stands for the whole period).
  `FetcherSurvives`: `Stop` cancels the job `ResetWorker` waits for, and nobody
  catches what `get()` throws.  The subtitle worker is not drained at a period
  change.
* Track.  `RingConsistent`: a flush under the injector leaves indices and count
  in disagreement.  `AbortedOnlyWhileRefreshing`, `SwitchCompletes`: a selection
  at the end of a switch, or after the last check of the fetch loop, is not
  carried out.  `StopReturns` fails with an audio switch: `resetAbort(false)`
  (`fragmentcollector_mpd.cpp` 7437) undoes the abort of `Stop`.  `DetachReturns`
  fails in chunk mode: `CacheFragmentChunk` waits for a slot without a timeout.
  A return after an abort leaves `mActiveDownloadInfo` of the aborted download
  (`MediaStreamContext.cpp` 702).
* Events.  `PendingIsLive`: callback, flush, then registration leave a finished
  source entered as pending, and the next flush passes it to `g_source_remove`.
* Player.  `StopStops`: with the asynchronous API `Stop` reads the state, waits
  for a `Tune` the scheduler has already taken, and then skips `StopInternal` by
  the `IDLE` it read before (`main_aamp.cpp` 339-346); the player goes on playing,
  although `main_aamp.h` 163 says "Stop playback and release resources".
  With a synchronous `Seek` or `SetRate` the stream can be deleted under
  `ProcessPendingDiscontinuity`, against the comment of `priv_aamp.cpp`
  3573-3574.  A failed seek with a retune queued behind it leaves
  `mSeekOperationInProgress` set.  An injector can set
  `mProcessingDiscontinuity` after `TeardownStream` has reset it (5582-5585).
  `reTune` stays set when the task of a retune is refused during a lock-out.  A
  second `ProcessPendingDiscontinuity` may notify `mCondDiscontinuity` early.
  `SendErrorEvent` writes `mState` itself, so `AampScheduler` never learns of
  `ERROR`.
* Pairing.  `StopReturns` of `StreamAbstractionAAMP`: the notification of an
  abort can come before the wait in `ProcessDiscontinuity`
  (`streamabstraction.cpp` 3491).  `ConfiguredTogether` fails once a track was
  let go, and on a codec change before the first buffer: the sink ignores that
  discontinuity (`InterfacePlayerRDK.cpp` 3574) and the bit is cleared without
  `mStateLock` (`streamabstraction.cpp` 3528).  With a lost period playback may
  wait until an underflow retunes it.
* TSB store.  `WriteBuffer` tries for ever, with `mApiMutex` held, when setting
  permissions fails while a flush is behind (`TsbStore.cpp` 421-424).  A file
  that cannot be removed after a failed write is not accounted for.  After two
  crashes in a row a new store is not empty: the second rename onto directory
  `0/1` fails (`TsbStore.cpp` 306), which is only logged, while `TsbApi.h` 120
  promises "a new, empty Store instance".  `NothingStale` fails in the run
  `tsb_store` with `MaxCrashes = 2`: crash, construction, a second crash before
  the flusher has removed `0/1`, construction, and the active directory has the
  files of the store before; the proofs exclude exactly this case (`CrashesApart`).
* TSB session.  At the hand-over after a seek to live, a fragment that is queued
  but not yet entered is played by neither side (`MediaStreamContext.cpp` 781),
  and the downloader may go on without the init segment it needs.  A seek that
  overtakes a downloader past its test lets a live fragment into the ring that
  was flushed for the stored ones.  If the last stored fragment cannot be read,
  nobody sets the flag the downloader waits for, and stopping the workers waits
  with it.  A failed read of an init segment still leaves
  `mLastInitFragmentData` set, so the media after it go without.  When failed
  writes empty a track, its current init segment is deleted and later fragments
  refer to it.
  An init segment that is replaced before any fragment uses it, as in a
  ramp-down whose first attempt fails (`MediaStreamContext.cpp` 956-974), stays
  in the store until `Flush`: it never had a user, and `RemoveFragment` deletes
  with the last user only (`AampTsbDataManager.cpp` 330-332, 122-129).  So does a
  fragment that is written before any init segment and then not entered
  (360-364).  `StoreMatchesMetadata` therefore speaks of files that some
  fragment in the metadata has needed.
  `UniqueUrls`: "Init fragments & Fragments should have a unique url for each
  absPosition" (`AampTSBSessionManager.cpp` 485).  The position of an init segment
  moves on only with a fragment that is downloaded, so after A, a ramp-down to B
  and a return to A the init segment of A has the name it had before.  The store
  refuses it, the writer takes that for success and enters nothing, and the
  fragments of A are entered with the init segment of B (`MaxInits` of 3).
  From reading only: `CullSegments` removes no video while audio is empty; a
  store that keeps failing makes the writer remove everything and spin; `Flush`
  sets `mStopThread_` without `mWriteQueueMutex`, so its notification can be lost
  (`AampTSBSessionManager.cpp` 536); a track that is empty when the readers are
  initialised is not read at all later; what the writer removes while
  `CullSegments` has given up the mutex is missing from the culled duration.
* HLS.  The switches lock the track's mutex twice
  (`fragmentcollector_hls.cpp` 4571 and 7058 with `FlushFragments`).

## 7. Plan

Done: the core (scheduler, workers, track, events), discontinuities, player life
cycle, TSB store and session, and the proofs of section 4.  Next, in this order:

1. `Stop`, `Flush`, trick play and low latency of the TSB session, and its
   reader as second producer of the ring of `MediaTrack`
   (`MediaStreamContext.cpp` 201).
2. `StreamSinkManager`, `BufferControl`: one active sink; need and enough data
   against teardown.
3. `DrmPreFetcher`, `MpdDownloader`, `CurlStore`: abort and release against work
   in flight; a connection is never used by two.
4. Two tracks of `MediaTrack` composed with `StreamAbstractionAAMP`, in place of
   the free choice each makes of the other.
5. Algorithms: ABR profile choice, owners of configuration values, the playlist
   cache, against reference definitions over bounded inputs.

Theorems: nothing that the runs check is left but the liveness properties.  The
hypotheses of section 4 (`OneLoop`, `SinkOnly`, `MaxSwitches = 0`,
`SparseCrashes`) are part of the statements; sections 4 and 6 say what fails
without them.

## 8. Running

`tlc -config <cfg> <module>` for a run of `PROJECT.json`, `tlapm <module>.tla`
for the proofs.  `PROJECT.json` also gives the source lines of each definition
and, for each property, the mutant that breaks it.
