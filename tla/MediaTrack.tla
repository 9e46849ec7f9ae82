----------------------------- MODULE MediaTrack -----------------------------
(***************************************************************************)
(* One MediaTrack: the ring of cached fragments between the thread that    *)
(* downloads them and the thread that injects them into the pipeline.      *)
(*   - the fetcher: FetcherLoop and the track's worker, which download and *)
(*     cache fragments one after the other, and switch the audio track;    *)
(*   - the injector: RunInjectLoop;                                        *)
(*   - the controller: the thread of the player's operations (discontinuity *)
(*     handling, Stop, detach, RefreshTrack).                              *)
(* A region under the track's mutex is one step; `mutex' names the thread  *)
(* that keeps it across steps.  A thread blocked in a wait without a       *)
(* predicate leaves it only when notified (states "wait..." of the         *)
(* injector), so that lost and spurious wake-ups are possible.             *)
(***************************************************************************)
EXTENDS Integers, Sequences

CONSTANTS
  TrackTypes,              (* a subset of "video", "audio", "subtitle"     *)
  CacheSize,               (* mCachedFragmentSize                          *)
  LastFragment,            (* fragments 1 .. LastFragment, 1 is the init   *)
  Discontinuities,         (* fragments that start a new period            *)
  ChunkModes,              (* values of GetLLDashChunkMode                 *)
  SegmentInjectThreshold,  (* eAAMPConfig_SegmentInjectThreshold           *)
  MaxDiscards,             (* bound: fragments the pipeline rejects        *)
  MaxSwitches,             (* bound: audio switches                        *)
  MaxSwitchFailures,       (* bound: switches that fail                    *)
  MaxRestarts,             (* bound: restarts another track asks for       *)
  MaxSpurious              (* bound: spurious wake-ups                     *)

ASSUME MediaTrackAssumption ==
  /\ TrackTypes \subseteq {"video", "audio", "subtitle"}
  /\ CacheSize \in Nat \ {0} /\ LastFragment \in Nat \ {0}
  /\ Discontinuities \subseteq 2 .. LastFragment
  /\ ChunkModes \subseteq BOOLEAN
  /\ SegmentInjectThreshold \in Nat \ {0}
  /\ MaxDiscards \in Nat /\ MaxSwitches \in Nat
  /\ MaxSwitchFailures \in Nat
  /\ MaxRestarts \in Nat /\ MaxSpurious \in Nat

VARIABLES
  type,                    (* of the track, set by the constructor         *)
  chunkMode,               (* GetLLDashChunkMode: low latency, the chunks  *)
                           (* of one download are cached as they arrive    *)
  mCachedFragment, fragmentIdxToFetch, fragmentIdxToInject,
  numberOfFragmentsCached,
  mutex,                   (* "free", or who holds it across steps         *)
  abort, abortInject, eosReached, discontinuityProcessed,
  loadNewAudio, refreshAudio,
  mDownloadsEnabled,       (* of PrivateInstanceAAMP                       *)
  fetcher,                 (* control state of the fetcher                 *)
  next,                    (* the fragment it downloads next               *)
  version,                 (* the audio track it downloads                 *)
  switching,               (* it is in SwitchAudioTrack                    *)
  injector,                (* control state of RunInjectLoop               *)
  keepInjecting, ret,      (* its locals                                   *)
  totalInjected,           (* totalInjectedDuration # 0                    *)
  mSegInjectFailCount,
  controller,              (* control state of the controller              *)
  operation,               (* what it is doing                             *)
  injected,                (* ghost: what the pipeline was given, in order *)
  pipeline,                (* ghost: how often injection was started       *)
  stoppedAt,               (* ghost: <<fragment, pipeline>> at each stop   *)
  eosSignalled,            (* ghost: EndOfStreamReached was called         *)
  discards, switches, switchFailures, restarts, spurious  (* bounded       *)

trackVars  == <<type, chunkMode>>
ringVars   == <<mCachedFragment, fragmentIdxToFetch, fragmentIdxToInject,
                numberOfFragmentsCached>>
flagVars   == <<abort, abortInject, discontinuityProcessed>>
switchVars == <<loadNewAudio, refreshAudio, switching, version>>
fetchVars  == <<fetcher, next>>
injectVars == <<injector, keepInjecting, ret, totalInjected,
                mSegInjectFailCount>>
controlVars == <<controller, operation>>
ghostVars  == <<injected, pipeline, stoppedAt, eosSignalled>>
countVars  == <<discards, switches, switchFailures, restarts, spurious>>

vars == <<trackVars, ringVars, mutex, flagVars, eosReached, switchVars,
          mDownloadsEnabled, fetchVars, injectVars, controlVars, ghostVars,
          countVars>>

Slots == 0 .. CacheSize - 1

Fragment == [version : 1 .. MaxSwitches + 1, number : 1 .. LastFragment,
             discontinuity : BOOLEAN]

NoFragment == [version |-> 0, number |-> 0, discontinuity |-> FALSE]

Advance(i) == (i + 1) % CacheSize

Init ==
  /\ type \in TrackTypes /\ chunkMode \in ChunkModes
  /\ mCachedFragment = [s \in Slots |-> NoFragment]
  /\ fragmentIdxToFetch = 0 /\ fragmentIdxToInject = 0
  /\ numberOfFragmentsCached = 0
  /\ mutex = "free"
  /\ abort = FALSE /\ abortInject = FALSE /\ eosReached = FALSE
  /\ discontinuityProcessed = FALSE
  /\ loadNewAudio = FALSE /\ refreshAudio = FALSE
  /\ mDownloadsEnabled = TRUE
  /\ fetcher = "fetch" /\ next = 1 /\ version = 1 /\ switching = FALSE
  /\ injector = "none" /\ keepInjecting = FALSE /\ ret = TRUE
  /\ totalInjected = FALSE /\ mSegInjectFailCount = 0
  /\ controller = "start" /\ operation = "none"
  /\ injected = <<>> /\ pipeline = 0 /\ stoppedAt = {} /\ eosSignalled = FALSE
  /\ discards = 0 /\ switches = 0 /\ switchFailures = 0
  /\ restarts = 0 /\ spurious = 0

------------------------------------------------------------------------------
(* Condition variables.  Each has at most one waiter.                      *)

(* fragmentFetched.notify_one(): the injector, in                          *)
(* WaitForCachedFragmentAvailable.                                         *)
NotifyFetched ==
  injector' = IF injector = "waitFetched" THEN "wokenFetched" ELSE injector

(* fragmentInjected.notify_one() or notify_all(): the fetcher, in          *)
(* WaitForCachedFragmentInjected.                                          *)
NotifyInjected ==
  fetcher' = IF fetcher = "waitInjected" THEN "wokenInjected" ELSE fetcher

(* NotifyCachedAudioFragmentAvailable and its subtitle twin.               *)
NotifyCachedAudioFragmentAvailable ==
  injector' = IF injector = "waitAudio" THEN "available" ELSE injector

(* Mutant: one fragment too many fits.                                     *)
IsFragmentCacheFullLate == numberOfFragmentsCached = CacheSize + 1

IsFragmentCacheFull == numberOfFragmentsCached = CacheSize

------------------------------------------------------------------------------
(* The fetcher.                                                            *)

IsInit(n) == n = 1

(* The job for a fragment ends; the next one is submitted.                 *)
NextJob == fetcher' = "fetch" /\ next' = next + 1

(* DownloadFragment waits, in short timed waits, while the cache is full;  *)
(* only the first chunk of a download waits here.  A media job is          *)
(* submitted after SwitchAudioTrack has returned.                          *)
DownloadFragment ==
  /\ fetcher = "fetch" /\ next <= LastFragment
  /\ switching => IsInit(next)
  /\ mDownloadsEnabled /\ ~abort
  /\ (chunkMode /\ ~IsInit(next)) \/ ~IsFragmentCacheFull
  /\ fetcher' = "downloaded"
  /\ UNCHANGED <<ringVars, mutex, flagVars, eosReached, switchVars, next,
                 trackVars, mDownloadsEnabled, injectVars, controlVars,
                 ghostVars, countVars>>

(* With the track aborted the job ends without a download.                 *)
SkipDownload ==
  /\ fetcher = "fetch" /\ next <= LastFragment
  /\ switching => IsInit(next)
  /\ mDownloadsEnabled /\ abort
  /\ NextJob
  /\ UNCHANGED <<ringVars, mutex, flagVars, eosReached, switchVars,
                 trackVars, mDownloadsEnabled, injectVars, controlVars,
                 ghostVars, countVars>>

(* The loop ends when downloads are disabled.                              *)
FetcherExit ==
  /\ fetcher = "fetch" /\ ~mDownloadsEnabled
  /\ fetcher' = "done"
  /\ UNCHANGED <<ringVars, mutex, flagVars, eosReached, switchVars, next,
                 trackVars, mDownloadsEnabled, injectVars, controlVars,
                 ghostVars, countVars>>

(* OnFragmentDownloadSuccess returns early when the track was aborted      *)
(* meanwhile; the write callback of chunk mode looks at downloads alone.   *)
OnFragmentDownloadSuccess ==
  /\ fetcher = "downloaded"
  /\ IF mDownloadsEnabled /\ (chunkMode \/ ~abort)
       THEN fetcher' = "cache" /\ UNCHANGED next
       ELSE NextJob
  /\ UNCHANGED <<ringVars, mutex, flagVars, eosReached, switchVars,
                 trackVars, mDownloadsEnabled, injectVars, controlVars,
                 ghostVars, countVars>>

(* The first test of WaitForCachedFragmentInjected, without a timeout, and *)
(* the predicate it evaluates each time it is woken.                       *)
WaitForCachedFragmentInjected ==
  /\ fetcher \in {"cache", "wokenInjected"} /\ mutex = "free"
  /\ fetcher' = IF abort THEN "stats"
                ELSE IF IsFragmentCacheFull THEN "waitInjected" ELSE "fill"
  /\ UNCHANGED <<ringVars, mutex, flagVars, eosReached, switchVars, next,
                 trackVars, mDownloadsEnabled, injectVars, controlVars,
                 ghostVars, countVars>>

(* GetFetchBuffer, and the move of the fragment into the slot, which       *)
(* CacheTsbFragment does without the mutex.                                *)
GetFetchBuffer ==
  /\ fetcher = "fill"
  /\ mCachedFragment' = [mCachedFragment EXCEPT ![fragmentIdxToFetch] =
       [version |-> version, number |-> next,
        discontinuity |-> next \in Discontinuities]]
  /\ fetcher' = "publish"
  /\ UNCHANGED <<fragmentIdxToFetch, fragmentIdxToInject,
                 numberOfFragmentsCached, mutex, flagVars, eosReached,
                 switchVars, next, trackVars, mDownloadsEnabled, injectVars,
                 controlVars, ghostVars, countVars>>

UpdateTSAfterFetch ==
  /\ fetcher = "publish" /\ mutex = "free"
  /\ numberOfFragmentsCached' = numberOfFragmentsCached + 1
  /\ fragmentIdxToFetch' = Advance(fragmentIdxToFetch)
  /\ NotifyFetched
  /\ fetcher' = "stats"
  /\ UNCHANGED <<mCachedFragment, fragmentIdxToInject, mutex, flagVars,
                 eosReached, switchVars, next, trackVars, mDownloadsEnabled,
                 keepInjecting, ret, totalInjected, mSegInjectFailCount,
                 controlVars, ghostVars, countVars>>

(* UpdateTSAfterFetchStats: the first media fragment of a new audio track  *)
(* releases the injector, and then clears loadNewAudio, with the mutex     *)
(* held; the injector reads the flag without it.                           *)
UpdateTSAfterFetchStats ==
  /\ fetcher = "stats" /\ mutex = "free"
  /\ IF loadNewAudio /\ ~IsInit(next)
       THEN /\ NotifyCachedAudioFragmentAvailable
            /\ mutex' = "fetcher" /\ fetcher' = "clear"
            /\ UNCHANGED next
       ELSE NextJob /\ UNCHANGED <<mutex, injector>>
  /\ UNCHANGED <<ringVars, flagVars, eosReached, switchVars, trackVars,
                 mDownloadsEnabled, keepInjecting, ret, totalInjected,
                 mSegInjectFailCount, controlVars, ghostVars, countVars>>

ClearLoadNewAudio ==
  /\ fetcher = "clear"
  /\ loadNewAudio' = FALSE /\ mutex' = "free"
  /\ NextJob
  /\ UNCHANGED <<ringVars, flagVars, eosReached, refreshAudio, switching,
                 version, trackVars, mDownloadsEnabled, injectVars,
                 controlVars, ghostVars, countVars>>

(* Mutant: the last fragment is left out.                                  *)
SetEosReachedEarly ==
  /\ fetcher = "fetch" /\ next = LastFragment
  /\ ~switching /\ mDownloadsEnabled
  /\ eosReached' = TRUE /\ fetcher' = "eos"
  /\ UNCHANGED <<ringVars, mutex, flagVars, switchVars, next, trackVars,
                 mDownloadsEnabled, injectVars, controlVars, ghostVars,
                 countVars>>

(* The end-of-stream job: it sets eosReached without the mutex, then       *)
(* AbortWaitForCachedAndFreeFragment(false) wakes the injector.  The fetch *)
(* loop ends.                                                              *)
SetEosReached ==
  /\ fetcher = "fetch" /\ next = LastFragment + 1
  /\ ~switching /\ mDownloadsEnabled
  /\ eosReached' = TRUE /\ fetcher' = "eos"
  /\ UNCHANGED <<ringVars, mutex, flagVars, switchVars, next, trackVars,
                 mDownloadsEnabled, injectVars, controlVars, ghostVars,
                 countVars>>

(* Mutant: the injector is not woken at the end.                           *)
AbortWaitAfterEosSilent ==
  /\ fetcher = "eos" /\ mutex = "free"
  /\ fetcher' = "done"
  /\ UNCHANGED <<ringVars, mutex, flagVars, eosReached, switchVars, next,
                 trackVars, mDownloadsEnabled, injectVars, controlVars,
                 ghostVars, countVars>>

AbortWaitAfterEos ==
  /\ fetcher = "eos" /\ mutex = "free"
  /\ NotifyFetched
  /\ fetcher' = "done"
  /\ UNCHANGED <<ringVars, mutex, flagVars, eosReached, switchVars, next,
                 trackVars, mDownloadsEnabled, keepInjecting, ret,
                 totalInjected, mSegInjectFailCount, controlVars, ghostVars,
                 countVars>>

------------------------------------------------------------------------------
(* The fetcher switches the audio track.  ResetWorker has let the job that *)
(* was running end.                                                        *)
SwitchAudioTrack ==
  /\ fetcher = "fetch" /\ refreshAudio /\ ~switching /\ mDownloadsEnabled
  /\ loadNewAudio' = TRUE /\ switching' = TRUE
  /\ fetcher' = "flush"
  /\ UNCHANGED <<ringVars, mutex, flagVars, eosReached, refreshAudio,
                 version, next, trackVars, mDownloadsEnabled, injectVars,
                 controlVars, ghostVars, countVars>>

(* Mutant: the slots keep the old fragments.                               *)
FlushIndices ==
  /\ fetcher = "flush"
  /\ UNCHANGED mCachedFragment
  /\ fragmentIdxToInject' = 0 /\ fragmentIdxToFetch' = 0
  /\ fetcher' = "flushCount"
  /\ UNCHANGED <<numberOfFragmentsCached, mutex, flagVars, eosReached,
                 switchVars, next, trackVars, mDownloadsEnabled, injectVars,
                 controlVars, ghostVars, countVars>>

(* FlushFragments clears the slots and both indices before it takes the    *)
(* mutex, and the count after.                                             *)
FlushFragments ==
  /\ fetcher = "flush"
  /\ mCachedFragment' = [s \in Slots |-> NoFragment]
  /\ fragmentIdxToInject' = 0 /\ fragmentIdxToFetch' = 0
  /\ fetcher' = "flushCount"
  /\ UNCHANGED <<numberOfFragmentsCached, mutex, flagVars, eosReached,
                 switchVars, next, trackVars, mDownloadsEnabled, injectVars,
                 controlVars, ghostVars, countVars>>

FlushCount ==
  /\ fetcher = "flushCount" /\ mutex = "free"
  /\ numberOfFragmentsCached' = 0
  /\ fetcher' = "retarget"
  /\ UNCHANGED <<mCachedFragment, fragmentIdxToFetch, fragmentIdxToInject,
                 mutex, flagVars, eosReached, switchVars, next, trackVars,
                 mDownloadsEnabled, injectVars, controlVars, ghostVars,
                 countVars>>

(* The new track starts with its init segment; resetAbort(false).          *)
Retarget ==
  /\ fetcher = "retarget"
  /\ version' = version + 1 /\ next' = 1
  /\ abort' = FALSE
  /\ fetcher' = "fetch"
  /\ UNCHANGED <<ringVars, mutex, abortInject, discontinuityProcessed,
                 eosReached, loadNewAudio, refreshAudio, switching,
                 trackVars, mDownloadsEnabled, injectVars, controlVars,
                 ghostVars, countVars>>

(* UpdateMediaTrackInfo fails: SwitchAudioTrack notifies the injector and  *)
(* returns with loadNewAudio and abort still set.                          *)
RetargetFails ==
  /\ fetcher = "retarget" /\ switchFailures < MaxSwitchFailures
  /\ NotifyCachedAudioFragmentAvailable
  /\ switchFailures' = switchFailures + 1
  /\ fetcher' = "fetch"
  /\ UNCHANGED <<ringVars, mutex, flagVars, eosReached, switchVars, next,
                 trackVars, mDownloadsEnabled, keepInjecting, ret,
                 totalInjected, mSegInjectFailCount, controlVars, ghostVars,
                 discards, switches, restarts, spurious>>

(* Back in FetcherLoop, while the worker may be at the init segment.       *)
ClearRefreshAudio ==
  /\ switching /\ fetcher \notin {"flush", "flushCount", "retarget"}
  /\ refreshAudio' = FALSE /\ switching' = FALSE
  /\ UNCHANGED <<ringVars, mutex, flagVars, eosReached, loadNewAudio,
                 version, trackVars, mDownloadsEnabled, fetchVars,
                 injectVars, controlVars, ghostVars, countVars>>

------------------------------------------------------------------------------
(* The injector, RunInjectLoop.                                            *)

InjectorTop ==
  /\ injector = "top"
  /\ IF mDownloadsEnabled /\ keepInjecting
       THEN injector' = "load" /\ UNCHANGED abortInject
       ELSE injector' = "exited" /\ abortInject' = TRUE
  /\ UNCHANGED <<ringVars, mutex, abort, discontinuityProcessed, eosReached,
                 switchVars, trackVars, mDownloadsEnabled, fetchVars,
                 keepInjecting, ret, totalInjected, mSegInjectFailCount,
                 controlVars, ghostVars, countVars>>

Loading == loadNewAudio \/ refreshAudio

(* The flags are read without a lock; the wait begins some time later.     *)
CheckLoading ==
  /\ injector = "load"
  /\ injector' = IF Loading /\ ~chunkMode THEN "goWait" ELSE "available"
  /\ UNCHANGED <<ringVars, mutex, flagVars, eosReached, switchVars,
                 trackVars, mDownloadsEnabled, fetchVars, keepInjecting, ret,
                 totalInjected, mSegInjectFailCount, controlVars, ghostVars,
                 countVars>>

WaitForCachedAudioFragmentAvailable ==
  /\ injector = "goWait"
  /\ injector' = "waitAudio"
  /\ UNCHANGED <<ringVars, mutex, flagVars, eosReached, switchVars,
                 trackVars, mDownloadsEnabled, fetchVars, keepInjecting, ret,
                 totalInjected, mSegInjectFailCount, controlVars, ghostVars,
                 countVars>>

(* What WaitForCachedFragmentAvailable returns.                            *)
Available == ~(abort \/ abortInject \/ numberOfFragmentsCached = 0)

(* WaitForCachedFragmentAvailable and, when it fails, the rest of          *)
(* InjectFragment: SignalIfEOSReached.                                     *)
FragmentAvailable ==
  IF Available
    THEN injector' = "slot" /\ UNCHANGED <<ret, eosSignalled>>
    ELSE /\ injector' = "end" /\ ret' = FALSE
         /\ eosSignalled' =
              (eosSignalled \/ (eosReached /\ type # "subtitle"))

MustWait ==
  numberOfFragmentsCached = 0 /\ ~(abort \/ abortInject) /\ ~eosReached

WaitForCachedFragmentAvailable ==
  /\ injector = "available" /\ mutex = "free"
  /\ IF MustWait
       THEN injector' = "waitFetched" /\ UNCHANGED <<ret, eosSignalled>>
       ELSE FragmentAvailable
  /\ UNCHANGED <<ringVars, mutex, flagVars, eosReached, switchVars,
                 trackVars, mDownloadsEnabled, fetchVars, keepInjecting,
                 totalInjected, mSegInjectFailCount, controlVars, injected,
                 pipeline, stoppedAt, countVars>>

(* It waits once: whatever woke it, the result is computed.                *)
WaitComplete ==
  /\ injector = "wokenFetched" /\ mutex = "free"
  /\ FragmentAvailable
  /\ UNCHANGED <<ringVars, mutex, flagVars, eosReached, switchVars,
                 trackVars, mDownloadsEnabled, fetchVars, keepInjecting,
                 totalInjected, mSegInjectFailCount, controlVars, injected,
                 pipeline, stoppedAt, countVars>>

(* std::condition_variable::wait may return without a notification.        *)
SpuriousWakeup ==
  /\ injector = "waitFetched" /\ spurious < MaxSpurious
  /\ injector' = "wokenFetched" /\ spurious' = spurious + 1
  /\ UNCHANGED <<ringVars, mutex, flagVars, eosReached, switchVars,
                 trackVars, mDownloadsEnabled, fetchVars, keepInjecting, ret,
                 totalInjected, mSegInjectFailCount, controlVars, ghostVars,
                 discards, switches, switchFailures, restarts>>

Current == mCachedFragment[fragmentIdxToInject]

(* InjectFragment finds no fragment in the slot.                           *)
NullFragment ==
  /\ injector = "slot" /\ Current = NoFragment
  /\ injector' = "end" /\ ret' = FALSE
  /\ eosSignalled' = (eosSignalled \/ (eosReached /\ type # "subtitle"))
  /\ UNCHANGED <<ringVars, mutex, flagVars, eosReached, switchVars,
                 trackVars, mDownloadsEnabled, fetchVars, keepInjecting,
                 totalInjected, mSegInjectFailCount, controlVars, injected,
                 pipeline, stoppedAt, countVars>>

(* CheckForDiscontinuity.  ProcessDiscontinuity decides, with the other    *)
(* track, whether injection stops here; before anything was injected the   *)
(* discontinuity is ignored.  Only subtitles keep the mark.                *)
MarkSeen ==
  [mCachedFragment EXCEPT ![fragmentIdxToInject].discontinuity =
     @ /\ type = "subtitle"]

CheckForDiscontinuity ==
  /\ injector = "slot" /\ Current # NoFragment
  /\ \/ /\ injector' = "inject"
        /\ UNCHANGED <<ret, discontinuityProcessed, stoppedAt>>
     \/ /\ Current.discontinuity /\ totalInjected
        /\ injector' = "end" /\ ret' = FALSE
        /\ discontinuityProcessed' = TRUE
        /\ stoppedAt' = stoppedAt \cup {<<Current.number, pipeline>>}
  /\ mCachedFragment' = MarkSeen
  /\ UNCHANGED <<fragmentIdxToFetch, fragmentIdxToInject,
                 numberOfFragmentsCached, mutex, abort, abortInject,
                 eosReached, switchVars, trackVars, mDownloadsEnabled,
                 fetchVars, keepInjecting, totalInjected,
                 mSegInjectFailCount, controlVars, injected, pipeline,
                 eosSignalled, countVars>>

(* ProcessAndInjectFragment hands the slot to the pipeline, without the    *)
(* mutex.  A slot that was flushed in the meantime is empty.               *)
Handed ==
  IF Current = NoFragment THEN injected
  ELSE Append(injected, [version |-> Current.version,
                         number |-> Current.number, pipeline |-> pipeline,
                         selected |-> version])

ProcessAndInjectFragment ==
  /\ injector = "inject"
  /\ injected' = Handed
  /\ totalInjected' = TRUE /\ mSegInjectFailCount' = 0 /\ ret' = TRUE
  /\ injector' = "update"
  /\ UNCHANGED <<ringVars, mutex, flagVars, eosReached, switchVars,
                 trackVars, mDownloadsEnabled, fetchVars, keepInjecting,
                 controlVars, pipeline, stoppedAt, eosSignalled, countVars>>

(* The pipeline discards the fragment; after SegmentInjectThreshold in a   *)
(* row the loop gives up, and the error event ends playback.               *)
DiscardFragment ==
  /\ injector = "inject" /\ discards < MaxDiscards
  /\ injected' = Handed
  /\ mSegInjectFailCount' = mSegInjectFailCount + 1
  /\ ret' = (mSegInjectFailCount' < SegmentInjectThreshold)
  /\ discards' = discards + 1
  /\ injector' = "update"
  /\ UNCHANGED <<ringVars, mutex, flagVars, eosReached, switchVars,
                 trackVars, mDownloadsEnabled, fetchVars, keepInjecting,
                 totalInjected, controlVars, pipeline, stoppedAt,
                 eosSignalled, switches, switchFailures, restarts, spurious>>

UpdateTSAfterInject ==
  /\ injector = "update" /\ mutex = "free"
  /\ mCachedFragment' =
       [mCachedFragment EXCEPT ![fragmentIdxToInject] = NoFragment]
  /\ fragmentIdxToInject' = Advance(fragmentIdxToInject)
  /\ numberOfFragmentsCached' = IF numberOfFragmentsCached > 0
                                  THEN numberOfFragmentsCached - 1 ELSE 0
  /\ NotifyInjected
  /\ injector' = "end"
  /\ UNCHANGED <<fragmentIdxToFetch, mutex, flagVars, eosReached, switchVars,
                 trackVars, mDownloadsEnabled, next, keepInjecting, ret,
                 totalInjected, mSegInjectFailCount, controlVars, ghostVars,
                 countVars>>

(* Mutant: the result of InjectFragment is ignored.                        *)
InjectorEndKeeps ==
  /\ injector = "end"
  /\ keepInjecting' = TRUE
  /\ injector' = "top"
  /\ UNCHANGED <<ringVars, mutex, flagVars, eosReached, switchVars,
                 trackVars, mDownloadsEnabled, fetchVars, ret, totalInjected,
                 mSegInjectFailCount, controlVars, ghostVars, countVars>>

(* A failed InjectFragment ends the loop, unless a track change is pending.*)
InjectorEnd ==
  /\ injector = "end"
  /\ keepInjecting' = (ret \/ Loading)
  /\ injector' = "top"
  /\ UNCHANGED <<ringVars, mutex, flagVars, eosReached, switchVars,
                 trackVars, mDownloadsEnabled, fetchVars, ret, totalInjected,
                 mSegInjectFailCount, controlVars, ghostVars, countVars>>

------------------------------------------------------------------------------
(* The controller.                                                         *)

(* Mutant: a restart begins at the first slot.                             *)
StartInjectLoopRewinds ==
  /\ controller = "start" /\ injector = "none"
  /\ abort' = FALSE /\ abortInject' = FALSE
  /\ discontinuityProcessed' = FALSE
  /\ injector' = "top" /\ keepInjecting' = TRUE /\ ret' = TRUE
  /\ totalInjected' = FALSE
  /\ controller' = "idle" /\ operation' = "none"
  /\ fragmentIdxToInject' = 0
  /\ pipeline' = pipeline + 1
  /\ UNCHANGED <<mCachedFragment, fragmentIdxToFetch,
                 numberOfFragmentsCached, mutex, eosReached, switchVars,
                 trackVars, mDownloadsEnabled, fetchVars,
                 mSegInjectFailCount, injected, stoppedAt, eosSignalled,
                 countVars>>

(* StartInjectLoop of Start and StartInjection.                            *)
StartInjectLoop ==
  /\ controller = "start" /\ injector = "none"
  /\ abort' = FALSE /\ abortInject' = FALSE
  /\ discontinuityProcessed' = FALSE
  /\ injector' = "top" /\ keepInjecting' = TRUE /\ ret' = TRUE
  /\ totalInjected' = FALSE
  /\ controller' = "idle" /\ operation' = "none"
  /\ pipeline' = pipeline + 1
  /\ UNCHANGED <<ringVars, mutex, eosReached, switchVars, trackVars,
                 mDownloadsEnabled, fetchVars, mSegInjectFailCount, injected,
                 stoppedAt, eosSignalled, countVars>>

(* ProcessPendingDiscontinuity begins.  Audio and video have both stopped  *)
(* at the discontinuity; subtitles, which do not pair, are wherever they   *)
(* happen to be.                                                           *)
ProcessPendingDiscontinuity ==
  /\ controller = "idle" /\ discontinuityProcessed
  /\ controller' = "abortInject" /\ operation' = "restart"
  /\ UNCHANGED <<ringVars, mutex, flagVars, eosReached, switchVars,
                 trackVars, mDownloadsEnabled, fetchVars, injectVars,
                 ghostVars, countVars>>

RestartForOtherTracks ==
  /\ controller = "idle" /\ type = "subtitle" /\ restarts < MaxRestarts
  /\ restarts' = restarts + 1
  /\ controller' = "abortInject" /\ operation' = "restart"
  /\ UNCHANGED <<ringVars, mutex, flagVars, eosReached, switchVars,
                 trackVars, mDownloadsEnabled, fetchVars, injectVars,
                 ghostVars, discards, switches, switchFailures, spurious>>

(* Mutant: the injector is not woken.                                      *)
AbortInjectSilently ==
  /\ controller = "abortInject" /\ mutex = "free"
  /\ abortInject' = TRUE
  /\ controller' = "notifyAudio"
  /\ UNCHANGED <<ringVars, mutex, abort, discontinuityProcessed, eosReached,
                 switchVars, trackVars, mDownloadsEnabled, fetchVars,
                 injectVars, operation, ghostVars, countVars>>

(* StopInjection: AbortWaitForCachedFragment, then StopInjectLoop.         *)
AbortWaitForCachedFragment ==
  /\ controller = "abortInject" /\ mutex = "free"
  /\ NotifyFetched
  /\ abortInject' = TRUE
  /\ controller' = "notifyAudio"
  /\ UNCHANGED <<ringVars, mutex, abort, discontinuityProcessed, eosReached,
                 switchVars, trackVars, mDownloadsEnabled, fetchVars,
                 keepInjecting, ret, totalInjected, mSegInjectFailCount,
                 operation, ghostVars, countVars>>

StopInjectLoop ==
  /\ controller = "notifyAudio"
  /\ NotifyCachedAudioFragmentAvailable
  /\ controller' = "join"
  /\ UNCHANGED <<ringVars, mutex, flagVars, eosReached, switchVars,
                 trackVars, mDownloadsEnabled, fetchVars, keepInjecting, ret,
                 totalInjected, mSegInjectFailCount, operation, ghostVars,
                 countVars>>

JoinInjector ==
  /\ controller = "join" /\ injector = "exited"
  /\ injector' = "none"
  /\ controller' = IF operation = "restart" THEN "start" ELSE "ended"
  /\ UNCHANGED <<ringVars, mutex, flagVars, eosReached, switchVars,
                 trackVars, mDownloadsEnabled, fetchVars, keepInjecting, ret,
                 totalInjected, mSegInjectFailCount, operation, ghostVars,
                 countVars>>

(* StreamAbstractionAAMP_MPD::Stop: disable downloads, abort the waits,    *)
(* join worker and fetcher, stop the injector.                             *)
Stop ==
  /\ controller = "idle"
  /\ mDownloadsEnabled' = FALSE
  /\ controller' = "abort" /\ operation' = "stop"
  /\ UNCHANGED <<ringVars, mutex, flagVars, eosReached, switchVars,
                 trackVars, fetchVars, injectVars, ghostVars, countVars>>

(* Mutant: only the fetcher is woken.                                      *)
AbortWaitForFreeFragment ==
  /\ controller = "abort" /\ mutex = "free"
  /\ abort' = TRUE
  /\ NotifyInjected
  /\ controller' = IF operation = "stop" THEN "joinFetcher" ELSE "idle"
  /\ operation' = IF operation = "stop" THEN "stop" ELSE "none"
  /\ UNCHANGED <<ringVars, mutex, abortInject, discontinuityProcessed,
                 eosReached, switchVars, trackVars, mDownloadsEnabled, next,
                 injectVars, ghostVars, countVars>>

(* AbortWaitForCachedAndFreeFragment(true), of Stop and RefreshTrack.      *)
AbortWaitForCachedAndFreeFragment ==
  /\ controller = "abort" /\ mutex = "free"
  /\ abort' = TRUE
  /\ NotifyInjected /\ NotifyFetched
  /\ controller' = IF operation = "stop" THEN "joinFetcher" ELSE "idle"
  /\ operation' = IF operation = "stop" THEN "stop" ELSE "none"
  /\ UNCHANGED <<ringVars, mutex, abortInject, discontinuityProcessed,
                 eosReached, switchVars, trackVars, mDownloadsEnabled, next,
                 keepInjecting, ret, totalInjected, mSegInjectFailCount,
                 ghostVars, countVars>>

JoinFetcher ==
  /\ controller = "joinFetcher" /\ fetcher = "done"
  /\ controller' = IF operation = "stop" THEN "notifyAudio" ELSE "abortInject"
  /\ UNCHANGED <<ringVars, mutex, flagVars, eosReached, switchVars,
                 trackVars, mDownloadsEnabled, fetchVars, injectVars,
                 operation, ghostVars, countVars>>

(* PrivateInstanceAAMP::detach: disable downloads, join the workers, then  *)
(* StopInjection.  The track is not aborted.                               *)
Detach ==
  /\ controller = "idle"
  /\ mDownloadsEnabled' = FALSE
  /\ controller' = "joinFetcher" /\ operation' = "detach"
  /\ UNCHANGED <<ringVars, mutex, flagVars, eosReached, switchVars,
                 trackVars, fetchVars, injectVars, ghostVars, countVars>>

(* The application selects another audio track.                            *)
RefreshTrack ==
  /\ controller = "idle" /\ type = "audio" /\ switches < MaxSwitches
  /\ refreshAudio' = TRUE
  /\ switches' = switches + 1
  /\ controller' = "abort" /\ operation' = "refresh"
  /\ UNCHANGED <<ringVars, mutex, flagVars, eosReached, loadNewAudio,
                 switching, version, trackVars, mDownloadsEnabled, fetchVars,
                 injectVars, ghostVars, discards, switchFailures, restarts,
                 spurious>>

------------------------------------------------------------------------------
FetcherStep ==
  \/ DownloadFragment \/ SkipDownload \/ FetcherExit
  \/ OnFragmentDownloadSuccess \/ WaitForCachedFragmentInjected
  \/ GetFetchBuffer \/ UpdateTSAfterFetch
  \/ UpdateTSAfterFetchStats \/ ClearLoadNewAudio
  \/ SetEosReached \/ AbortWaitAfterEos
  \/ SwitchAudioTrack \/ FlushFragments \/ FlushCount
  \/ Retarget \/ RetargetFails \/ ClearRefreshAudio

InjectorStep ==
  \/ InjectorTop \/ CheckLoading \/ WaitForCachedAudioFragmentAvailable
  \/ WaitForCachedFragmentAvailable \/ WaitComplete
  \/ NullFragment \/ CheckForDiscontinuity
  \/ ProcessAndInjectFragment \/ DiscardFragment
  \/ UpdateTSAfterInject \/ InjectorEnd

(* What the controller does of itself once an operation has begun.         *)
ControllerStep ==
  \/ StartInjectLoop \/ ProcessPendingDiscontinuity
  \/ AbortWaitForCachedFragment \/ StopInjectLoop \/ JoinInjector
  \/ AbortWaitForCachedAndFreeFragment \/ JoinFetcher

Request == Stop \/ Detach \/ RefreshTrack \/ RestartForOtherTracks

Next ==
  \/ FetcherStep \/ InjectorStep \/ ControllerStep \/ Request
  \/ SpuriousWakeup

Spec == Init /\ [][Next]_vars

(* Threads that can run do, and the mutex is granted in the end; nothing   *)
(* obliges the application to stop, detach or select a track.              *)
Fairness ==
  /\ WF_vars(FetcherStep) /\ WF_vars(InjectorStep) /\ WF_vars(ControllerStep)

FairSpec == Spec /\ Fairness

------------------------------------------------------------------------------
(* Types of the state.                                                     *)
TypeOK ==
  /\ type \in TrackTypes /\ chunkMode \in ChunkModes
  /\ mCachedFragment \in [Slots -> Fragment \cup {NoFragment}]
  /\ fragmentIdxToFetch \in Slots /\ fragmentIdxToInject \in Slots
  /\ numberOfFragmentsCached \in Nat
  /\ mutex \in {"free", "fetcher"}
  /\ abort \in BOOLEAN /\ abortInject \in BOOLEAN /\ eosReached \in BOOLEAN
  /\ discontinuityProcessed \in BOOLEAN
  /\ loadNewAudio \in BOOLEAN /\ refreshAudio \in BOOLEAN
  /\ mDownloadsEnabled \in BOOLEAN
  /\ fetcher \in {"fetch", "downloaded", "cache", "waitInjected",
                  "wokenInjected", "fill", "publish", "stats", "clear", "eos",
                  "flush", "flushCount", "retarget", "done"}
  /\ next \in 1 .. LastFragment + 1
  /\ version \in 1 .. MaxSwitches + 1
  /\ switching \in BOOLEAN
  /\ injector \in {"none", "top", "load", "goWait", "waitAudio", "available",
                   "waitFetched", "wokenFetched", "slot", "inject", "update",
                   "end", "exited"}
  /\ keepInjecting \in BOOLEAN /\ ret \in BOOLEAN /\ totalInjected \in BOOLEAN
  /\ mSegInjectFailCount \in Nat
  /\ controller \in {"start", "idle", "abortInject", "notifyAudio", "join",
                     "abort", "joinFetcher", "ended"}
  /\ operation \in {"none", "restart", "stop", "detach", "refresh"}
  /\ injected \in Seq([version : 1 .. MaxSwitches + 1,
                       number : 1 .. LastFragment, pipeline : Nat,
                       selected : 1 .. MaxSwitches + 1])
  /\ pipeline \in Nat
  /\ stoppedAt \subseteq (1 .. LastFragment) \X Nat
  /\ eosSignalled \in BOOLEAN
  /\ discards \in 0 .. MaxDiscards /\ switches \in 0 .. MaxSwitches
  /\ switchFailures \in 0 .. MaxSwitchFailures
  /\ restarts \in 0 .. MaxRestarts /\ spurious \in 0 .. MaxSpurious

(* The fragments the counters of the ring describe, oldest first; the one  *)
(* that was just handed to the pipeline is no longer waiting.              *)
Waiting ==
  LET handed == IF injector = "update" THEN 1 ELSE 0 IN
  [i \in 1 .. numberOfFragmentsCached - handed |->
    mCachedFragment[(fragmentIdxToInject + handed + i - 1) % CacheSize].number]

Handled == [i \in 1 .. Len(injected) |-> injected[i].number]

Queue == INSTANCE FragmentQueue WITH
  Capacity <- CacheSize, Last <- LastFragment,
  cached <- Waiting, delivered <- Handled

(* Without audio switches the ring, its two indices and its count          *)
(* implement the bounded queue: through full and empty ring, stops at a    *)
(* discontinuity and restarts of the injector, no fragment that was cached *)
(* is lost, repeated or overtaken.                                         *)
ImplementsFragmentQueue == Queue!QueueSpec

(* The assertion of UpdateTSAfterFetch, "this should never HIT": the count *)
(* never exceeds the ring, although the fetcher tests it in one critical   *)
(* section and increments it in another, and flushes in between.           *)
CacheWithinCapacity == numberOfFragmentsCached <= CacheSize

(* A fragment at which injection stopped for a discontinuity is given to   *)
(* the pipeline only after it was reconfigured and injection restarted,    *)
(* and nothing behind it is given to the old one.                          *)
DiscontinuityWaitsForPipeline ==
  \A i \in 1 .. Len(injected) : \A d \in stoppedAt :
    injected[i].number >= d[1] => injected[i].pipeline > d[2]

(* End of stream is signalled to the pipeline after the last fragment,     *)
(* unless playback is being ended.                                         *)
EosAfterLastFragment ==
  eosSignalled =>
    \/ Len(injected) = LastFragment
    \/ operation \in {"stop", "detach"}

(* Once the fetcher has turned to the new audio track, no fragment of the  *)
(* old one is injected: FlushFragments leaves none behind, even when the   *)
(* injector is in the middle of one and advances its index afterwards.     *)
NoOldAudioAfterSwitch ==
  \A i \in 1 .. Len(injected) : injected[i].version = injected[i].selected

(* "Flushes all media fragments and resets all relevant counters"          *)
(* (FlushFragments): the distance of the indices is the count.  Does not   *)
(* hold: a switch flushes while the injector is about to advance.          *)
RingConsistent ==
  fetcher # "flushCount" =>
    (fragmentIdxToFetch - fragmentIdxToInject) % CacheSize
      = numberOfFragmentsCached % CacheSize

(* "Stops the Track Injection, Restarts once the track has been changed"   *)
(* (RefreshTrack): while no operation is under way the track is aborted    *)
(* only as long as its change is still to come.  Does not hold for a       *)
(* second selection at the end of a switch.                                *)
AbortedOnlyWhileRefreshing ==
  operation = "none" /\ abort => refreshAudio

(* Stop returns: none of the threads it joins is left in a wait.           *)
StopReturns == operation = "stop" ~> controller = "ended"

(* As StopReturns, for detach, the "soft stop" of the player.              *)
DetachReturns == operation = "detach" ~> controller = "ended"

(* Playback that is not ended early, by an operation or by too many        *)
(* rejected fragments, reaches the end of the track: every fragment is     *)
(* injected, across the restarts at discontinuities, and end of stream is  *)
(* signalled (for subtitles there is nothing to signal).                   *)
EndIsSignalled ==
  <>(\/ /\ Len(injected) = LastFragment
        /\ eosSignalled \/ type = "subtitle"
     \/ mSegInjectFailCount >= SegmentInjectThreshold
     \/ operation \in {"stop", "detach"})

(* A track change that was asked for is carried out, unless playback ends. *)
(* Does not hold for one asked for after the last fragment was submitted.  *)
SwitchCompletes ==
  refreshAudio ~> (~refreshAudio \/ operation \in {"stop", "detach"})

=============================================================================
