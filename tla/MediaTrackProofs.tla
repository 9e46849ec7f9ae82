-------------------------- MODULE MediaTrackProofs --------------------------
(***************************************************************************)
(* Proofs about MediaTrack, for any size of the ring, any number of        *)
(* fragments and any bounds.                                               *)
(***************************************************************************)
EXTENDS MediaTrack, TLAPS

(* The fetcher fills and publishes a slot only when there is a free one.   *)
CountInv ==
  /\ CacheWithinCapacity
  /\ fetcher \in {"fill", "publish"} => numberOfFragmentsCached < CacheSize

(* A job that is under way is for a fragment of the track.                 *)
JobInv ==
  fetcher \in {"downloaded", "cache", "waitInjected", "wokenInjected",
               "fill", "publish", "stats", "clear"} => next <= LastFragment

(* Each change of the audio track answers a selection of its own.          *)
VersionInv ==
  /\ version <= switches + 1
  /\ switching => refreshAudio
  /\ fetcher \in {"flush", "flushCount", "retarget"} =>
       switching /\ version <= switches
  /\ refreshAudio /\ ~switching => version <= switches

(* The ring holds fragments of the current audio track only, and none      *)
(* between the flush and the change of the track.                          *)
SlotInv ==
  /\ \A s \in Slots : mCachedFragment[s] = NoFragment
                        \/ mCachedFragment[s].version = version
  /\ fetcher \in {"flushCount", "retarget"} =>
       \A s \in Slots : mCachedFragment[s] = NoFragment

IInv == TypeOK /\ CountInv /\ JobInv /\ VersionInv

Injected == [version : 1 .. MaxSwitches + 1, number : 1 .. LastFragment,
             pipeline : Nat, selected : 1 .. MaxSwitches + 1]

LEMMA AdvanceType ==
  ASSUME NEW i \in Slots
  PROVE  Advance(i) \in Slots
  BY MediaTrackAssumption DEF Slots, Advance

LEMMA HandedType ==
  ASSUME TypeOK
  PROVE  Handed \in Seq(Injected)
<1>1. Current \in Fragment \cup {NoFragment}
  BY DEF TypeOK, Current
<1>2. injected \in Seq(Injected)
  BY DEF TypeOK, Injected
<1>3. CASE Current = NoFragment
  BY <1>2, <1>3 DEF Handed
<1>4. CASE Current # NoFragment
  BY <1>1, <1>2, <1>4 DEF TypeOK, Handed, Fragment, Injected
<1> QED BY <1>3, <1>4

LEMMA InitInv == Init => IInv
<1> SUFFICES ASSUME Init PROVE IInv OBVIOUS
<1> USE MediaTrackAssumption
<1>1. mCachedFragment \in [Slots -> Fragment \cup {NoFragment}]
  BY DEF Init
<1>2. fragmentIdxToFetch \in Slots /\ fragmentIdxToInject \in Slots
  BY DEF Init, Slots
<1>3. /\ abort \in BOOLEAN /\ abortInject \in BOOLEAN
      /\ eosReached \in BOOLEAN /\ discontinuityProcessed \in BOOLEAN
      /\ loadNewAudio \in BOOLEAN /\ refreshAudio \in BOOLEAN
      /\ mDownloadsEnabled \in BOOLEAN /\ switching \in BOOLEAN
      /\ keepInjecting \in BOOLEAN /\ ret \in BOOLEAN
      /\ totalInjected \in BOOLEAN /\ eosSignalled \in BOOLEAN
  BY DEF Init
<1>4. TypeOK
  BY <1>1, <1>2, <1>3 DEF Init, TypeOK
<1>5. CountInv /\ JobInv /\ VersionInv
  BY DEF Init, CountInv, CacheWithinCapacity, JobInv, VersionInv
<1> QED BY <1>4, <1>5 DEF IInv

LEMMA StepInv == IInv /\ [Next]_vars => IInv'
<1> SUFFICES ASSUME IInv, [Next]_vars PROVE IInv' OBVIOUS
<1> USE MediaTrackAssumption
<1>1. CASE DownloadFragment
  BY <1>1
  DEF DownloadFragment, IsFragmentCacheFull, IsInit, trackVars, ringVars,
      flagVars, switchVars, injectVars, controlVars, ghostVars, countVars,
      IInv, TypeOK, CountInv, CacheWithinCapacity, JobInv, VersionInv
<1>2. CASE SkipDownload
  BY <1>2
  DEF SkipDownload, IsInit, NextJob, trackVars, ringVars, flagVars,
      switchVars, injectVars, controlVars, ghostVars, countVars, IInv,
      TypeOK, CountInv, CacheWithinCapacity, JobInv, VersionInv
<1>3. CASE FetcherExit
  BY <1>3
  DEF FetcherExit, trackVars, ringVars, flagVars, switchVars, injectVars,
      controlVars, ghostVars, countVars, IInv, TypeOK, CountInv,
      CacheWithinCapacity, JobInv, VersionInv
<1>4. CASE OnFragmentDownloadSuccess
  BY <1>4
  DEF OnFragmentDownloadSuccess, NextJob, trackVars, ringVars, flagVars,
      switchVars, injectVars, controlVars, ghostVars, countVars, IInv,
      TypeOK, CountInv, CacheWithinCapacity, JobInv, VersionInv
<1>5. CASE WaitForCachedFragmentInjected
  BY <1>5
  DEF WaitForCachedFragmentInjected, IsFragmentCacheFull, trackVars,
      ringVars, flagVars, switchVars, injectVars, controlVars, ghostVars,
      countVars, IInv, TypeOK, CountInv, CacheWithinCapacity, JobInv,
      VersionInv
<1>6. CASE GetFetchBuffer
  <2>1. mCachedFragment' \in [Slots -> Fragment \cup {NoFragment}]
    BY <1>6
    DEF GetFetchBuffer, IInv, TypeOK, JobInv, Fragment
  <2> QED
    BY <1>6, <2>1
    DEF GetFetchBuffer, trackVars, flagVars, switchVars, injectVars,
        controlVars, ghostVars, countVars, IInv, TypeOK, CountInv,
        CacheWithinCapacity, JobInv, VersionInv
<1>7. CASE UpdateTSAfterFetch
  BY <1>7, AdvanceType
  DEF UpdateTSAfterFetch, NotifyFetched, trackVars, flagVars, switchVars,
      controlVars, ghostVars, countVars, IInv, TypeOK, CountInv,
      CacheWithinCapacity, JobInv, VersionInv
<1>8. CASE UpdateTSAfterFetchStats
  <2>1. /\ fetcher = "stats" /\ fetcher' \in {"clear", "fetch"}
        /\ fetcher' = "clear" => next' = next
        /\ next' \in {next, next + 1}
        /\ mutex' \in {"free", "fetcher"}
        /\ injector' \in {injector, "available"}
    BY <1>8
    DEF UpdateTSAfterFetchStats, NotifyCachedAudioFragmentAvailable, NextJob
  <2>2. next \in Nat /\ 1 <= next /\ next <= LastFragment
    BY <2>1 DEF IInv, TypeOK, JobInv
  <2>3. next' \in 1 .. LastFragment + 1
    BY <2>1, <2>2
  <2> QED
    BY <1>8, <2>1, <2>2, <2>3
    DEF UpdateTSAfterFetchStats, trackVars, ringVars, flagVars, switchVars,
        controlVars, ghostVars, countVars, IInv, TypeOK, CountInv,
        CacheWithinCapacity, JobInv, VersionInv
<1>9. CASE ClearLoadNewAudio
  <2>1. loadNewAudio' \in BOOLEAN
    BY <1>9
    DEF ClearLoadNewAudio
  <2> QED
    BY <1>9, <2>1
    DEF ClearLoadNewAudio, NextJob, trackVars, ringVars, flagVars,
        injectVars, controlVars, ghostVars, countVars, IInv, TypeOK,
        CountInv, CacheWithinCapacity, JobInv, VersionInv
<1>10. CASE SetEosReached
  BY <1>10
  DEF SetEosReached, trackVars, ringVars, flagVars, switchVars, injectVars,
      controlVars, ghostVars, countVars, IInv, TypeOK, CountInv,
      CacheWithinCapacity, JobInv, VersionInv
<1>11. CASE AbortWaitAfterEos
  BY <1>11
  DEF AbortWaitAfterEos, NotifyFetched, trackVars, ringVars, flagVars,
      switchVars, controlVars, ghostVars, countVars, IInv, TypeOK, CountInv,
      CacheWithinCapacity, JobInv, VersionInv
<1>12. CASE SwitchAudioTrack
  BY <1>12
  DEF SwitchAudioTrack, trackVars, ringVars, flagVars, injectVars,
      controlVars, ghostVars, countVars, IInv, TypeOK, CountInv,
      CacheWithinCapacity, JobInv, VersionInv
<1>13. CASE FlushFragments
  <2>1. mCachedFragment' \in [Slots -> Fragment \cup {NoFragment}] /\ fragmentIdxToInject' \in Slots /\ fragmentIdxToFetch' \in Slots
    BY <1>13
    DEF FlushFragments, Slots
  <2> QED
    BY <1>13, <2>1
    DEF FlushFragments, trackVars, flagVars, switchVars, injectVars,
        controlVars, ghostVars, countVars, IInv, TypeOK, CountInv,
        CacheWithinCapacity, JobInv, VersionInv
<1>14. CASE FlushCount
  BY <1>14
  DEF FlushCount, trackVars, flagVars, switchVars, injectVars, controlVars,
      ghostVars, countVars, IInv, TypeOK, CountInv, CacheWithinCapacity,
      JobInv, VersionInv
<1>15. CASE Retarget
  <2>1. abort' \in BOOLEAN
    BY <1>15
    DEF Retarget
  <2> QED
    BY <1>15, <2>1
    DEF Retarget, trackVars, ringVars, injectVars, controlVars, ghostVars,
        countVars, IInv, TypeOK, CountInv, CacheWithinCapacity, JobInv,
        VersionInv
<1>16. CASE RetargetFails
  BY <1>16
  DEF RetargetFails, NotifyCachedAudioFragmentAvailable, trackVars,
      ringVars, flagVars, switchVars, controlVars, ghostVars, IInv, TypeOK,
      CountInv, CacheWithinCapacity, JobInv, VersionInv
<1>17. CASE ClearRefreshAudio
  <2>1. refreshAudio' \in BOOLEAN /\ switching' \in BOOLEAN
    BY <1>17
    DEF ClearRefreshAudio
  <2> QED
    BY <1>17, <2>1
    DEF ClearRefreshAudio, trackVars, ringVars, flagVars, fetchVars,
        injectVars, controlVars, ghostVars, countVars, IInv, TypeOK,
        CountInv, CacheWithinCapacity, JobInv, VersionInv
<1>18. CASE InjectorTop
  <2>1. abortInject' \in BOOLEAN
    BY <1>18
    DEF InjectorTop, IInv, TypeOK
  <2> QED
    BY <1>18, <2>1
    DEF InjectorTop, trackVars, ringVars, switchVars, fetchVars,
        controlVars, ghostVars, countVars, IInv, TypeOK, CountInv,
        CacheWithinCapacity, JobInv, VersionInv
<1>19. CASE CheckLoading
  BY <1>19
  DEF CheckLoading, Loading, trackVars, ringVars, flagVars, switchVars,
      fetchVars, controlVars, ghostVars, countVars, IInv, TypeOK, CountInv,
      CacheWithinCapacity, JobInv, VersionInv
<1>20. CASE WaitForCachedAudioFragmentAvailable
  BY <1>20
  DEF WaitForCachedAudioFragmentAvailable, trackVars, ringVars, flagVars,
      switchVars, fetchVars, controlVars, ghostVars, countVars, IInv,
      TypeOK, CountInv, CacheWithinCapacity, JobInv, VersionInv
<1>21. CASE WaitForCachedFragmentAvailable
  <2>1. ret' \in BOOLEAN /\ eosSignalled' \in BOOLEAN
    BY <1>21
    DEF WaitForCachedFragmentAvailable, FragmentAvailable, IInv, TypeOK
  <2> QED
    BY <1>21, <2>1
    DEF WaitForCachedFragmentAvailable, FragmentAvailable, Available,
        MustWait, trackVars, ringVars, flagVars, switchVars, fetchVars,
        controlVars, countVars, IInv, TypeOK, CountInv, CacheWithinCapacity,
        JobInv, VersionInv
<1>22. CASE WaitComplete
  <2>1. ret' \in BOOLEAN /\ eosSignalled' \in BOOLEAN
    BY <1>22
    DEF WaitComplete, FragmentAvailable, IInv, TypeOK
  <2> QED
    BY <1>22, <2>1
    DEF WaitComplete, FragmentAvailable, Available, trackVars, ringVars,
        flagVars, switchVars, fetchVars, controlVars, countVars, IInv,
        TypeOK, CountInv, CacheWithinCapacity, JobInv, VersionInv
<1>23. CASE NullFragment
  <2>1. ret' \in BOOLEAN /\ eosSignalled' \in BOOLEAN
    BY <1>23
    DEF NullFragment, IInv, TypeOK
  <2> QED
    BY <1>23, <2>1
    DEF NullFragment, Current, trackVars, ringVars, flagVars, switchVars,
        fetchVars, controlVars, countVars, IInv, TypeOK, CountInv,
        CacheWithinCapacity, JobInv, VersionInv
<1>24. CASE CheckForDiscontinuity
  <2>1. mCachedFragment' \in [Slots -> Fragment \cup {NoFragment}]
    <3>1. Current \in Fragment /\ fragmentIdxToInject \in Slots
      BY <1>24 DEF CheckForDiscontinuity, Current, IInv, TypeOK
    <3>2. \A d \in BOOLEAN : [Current EXCEPT !.discontinuity = d] \in Fragment
      BY <3>1 DEF Fragment
    <3> QED BY <1>24, <3>1, <3>2
            DEF CheckForDiscontinuity, MarkSeen, Current, IInv, TypeOK
  <2>2. ret' \in BOOLEAN /\ discontinuityProcessed' \in BOOLEAN
    BY <1>24
    DEF CheckForDiscontinuity, IInv, TypeOK
  <2>3. stoppedAt' \subseteq (1 .. LastFragment) \X Nat
    BY <1>24
    DEF CheckForDiscontinuity, Current, Fragment, IInv, TypeOK
  <2> QED
    BY <1>24, <2>1, <2>2, <2>3
    DEF CheckForDiscontinuity, Current, trackVars, switchVars, fetchVars,
        controlVars, countVars, IInv, TypeOK, CountInv, CacheWithinCapacity,
        JobInv, VersionInv
<1>25. CASE ProcessAndInjectFragment
  <2>1. injected' \in Seq(Injected)
    BY <1>25, HandedType
    DEF ProcessAndInjectFragment, IInv
  <2>2. totalInjected' \in BOOLEAN /\ ret' \in BOOLEAN
    BY <1>25
    DEF ProcessAndInjectFragment
  <2> QED
    BY <1>25, <2>1, <2>2
    DEF ProcessAndInjectFragment, Current, trackVars, ringVars, flagVars,
        switchVars, fetchVars, controlVars, countVars, IInv, TypeOK,
        CountInv, CacheWithinCapacity, JobInv, VersionInv, Injected
<1>26. CASE DiscardFragment
  <2>1. injected' \in Seq(Injected)
    BY <1>26, HandedType
    DEF DiscardFragment, IInv
  <2>2. ret' \in BOOLEAN
    BY <1>26
    DEF DiscardFragment
  <2> QED
    BY <1>26, <2>1, <2>2
    DEF DiscardFragment, Current, trackVars, ringVars, flagVars, switchVars,
        fetchVars, controlVars, IInv, TypeOK, CountInv, CacheWithinCapacity,
        JobInv, VersionInv, Injected
<1>27. CASE UpdateTSAfterInject
  BY <1>27, AdvanceType
  DEF UpdateTSAfterInject, NotifyInjected, trackVars, flagVars, switchVars,
      controlVars, ghostVars, countVars, IInv, TypeOK, CountInv,
      CacheWithinCapacity, JobInv, VersionInv
<1>28. CASE InjectorEnd
  BY <1>28
  DEF InjectorEnd, Loading, trackVars, ringVars, flagVars, switchVars,
      fetchVars, controlVars, ghostVars, countVars, IInv, TypeOK, CountInv,
      CacheWithinCapacity, JobInv, VersionInv
<1>29. CASE StartInjectLoop
  <2>1. abort' \in BOOLEAN /\ abortInject' \in BOOLEAN /\ discontinuityProcessed' \in BOOLEAN
    BY <1>29
    DEF StartInjectLoop
  <2>2. keepInjecting' \in BOOLEAN /\ ret' \in BOOLEAN /\ totalInjected' \in BOOLEAN
    BY <1>29
    DEF StartInjectLoop
  <2> QED
    BY <1>29, <2>1, <2>2
    DEF StartInjectLoop, trackVars, ringVars, switchVars, fetchVars,
        countVars, IInv, TypeOK, CountInv, CacheWithinCapacity, JobInv,
        VersionInv
<1>30. CASE ProcessPendingDiscontinuity
  BY <1>30
  DEF ProcessPendingDiscontinuity, trackVars, ringVars, flagVars,
      switchVars, fetchVars, injectVars, ghostVars, countVars, IInv, TypeOK,
      CountInv, CacheWithinCapacity, JobInv, VersionInv
<1>31. CASE AbortWaitForCachedFragment
  BY <1>31
  DEF AbortWaitForCachedFragment, NotifyFetched, trackVars, ringVars,
      switchVars, fetchVars, ghostVars, countVars, IInv, TypeOK, CountInv,
      CacheWithinCapacity, JobInv, VersionInv
<1>32. CASE StopInjectLoop
  BY <1>32
  DEF StopInjectLoop, NotifyCachedAudioFragmentAvailable, trackVars,
      ringVars, flagVars, switchVars, fetchVars, ghostVars, countVars, IInv,
      TypeOK, CountInv, CacheWithinCapacity, JobInv, VersionInv
<1>33. CASE JoinInjector
  BY <1>33
  DEF JoinInjector, trackVars, ringVars, flagVars, switchVars, fetchVars,
      ghostVars, countVars, IInv, TypeOK, CountInv, CacheWithinCapacity,
      JobInv, VersionInv
<1>34. CASE AbortWaitForCachedAndFreeFragment
  BY <1>34
  DEF AbortWaitForCachedAndFreeFragment, NotifyFetched, NotifyInjected,
      trackVars, ringVars, switchVars, ghostVars, countVars, IInv, TypeOK,
      CountInv, CacheWithinCapacity, JobInv, VersionInv
<1>35. CASE JoinFetcher
  BY <1>35
  DEF JoinFetcher, trackVars, ringVars, flagVars, switchVars, fetchVars,
      injectVars, ghostVars, countVars, IInv, TypeOK, CountInv,
      CacheWithinCapacity, JobInv, VersionInv
<1>36. CASE Stop
  <2>1. mDownloadsEnabled' \in BOOLEAN
    BY <1>36
    DEF Stop
  <2> QED
    BY <1>36, <2>1
    DEF Stop, trackVars, ringVars, flagVars, switchVars, fetchVars,
        injectVars, ghostVars, countVars, IInv, TypeOK, CountInv,
        CacheWithinCapacity, JobInv, VersionInv
<1>37. CASE Detach
  <2>1. mDownloadsEnabled' \in BOOLEAN
    BY <1>37
    DEF Detach
  <2> QED
    BY <1>37, <2>1
    DEF Detach, trackVars, ringVars, flagVars, switchVars, fetchVars,
        injectVars, ghostVars, countVars, IInv, TypeOK, CountInv,
        CacheWithinCapacity, JobInv, VersionInv
<1>38. CASE RefreshTrack
  BY <1>38
  DEF RefreshTrack, trackVars, ringVars, flagVars, fetchVars, injectVars,
      ghostVars, IInv, TypeOK, CountInv, CacheWithinCapacity, JobInv,
      VersionInv
<1>39. CASE RestartForOtherTracks
  BY <1>39
  DEF RestartForOtherTracks, trackVars, ringVars, flagVars, switchVars,
      fetchVars, injectVars, ghostVars, IInv, TypeOK, CountInv,
      CacheWithinCapacity, JobInv, VersionInv
<1>40. CASE SpuriousWakeup
  BY <1>40
  DEF SpuriousWakeup, trackVars, ringVars, flagVars, switchVars, fetchVars,
      controlVars, ghostVars, IInv, TypeOK, CountInv, CacheWithinCapacity,
      JobInv, VersionInv
<1>41. CASE UNCHANGED vars
  BY <1>41
  DEF vars, trackVars, ringVars, flagVars, switchVars, fetchVars,
      injectVars, controlVars, ghostVars, countVars, IInv, TypeOK, CountInv,
      CacheWithinCapacity, JobInv, VersionInv
<1> QED
  BY <1>1, <1>2, <1>3, <1>4, <1>5, <1>6, <1>7, <1>8, <1>9, <1>10, <1>11,
  <1>12, <1>13, <1>14, <1>15, <1>16, <1>17, <1>18, <1>19, <1>20, <1>21,
  <1>22, <1>23, <1>24, <1>25, <1>26, <1>27, <1>28, <1>29, <1>30, <1>31,
  <1>32, <1>33, <1>34, <1>35, <1>36, <1>37, <1>38, <1>39, <1>40, <1>41
  DEF Next, FetcherStep, InjectorStep, ControllerStep, Request

(* The ring follows the change of the audio track.  Only four actions      *)
(* write slots, and Retarget changes the track they are compared with.     *)
VersionOf == SlotInv /\ NoOldAudioAfterSwitch

LEMMA SlotInit == Init => VersionOf
  BY DEF Init, VersionOf, SlotInv, NoOldAudioAfterSwitch, Slots

(* The fragment in front of the injector is of the current track.          *)
LEMMA HandedIsCurrent ==
  ASSUME TypeOK, VersionOf
  PROVE  \A i \in 1 .. Len(Handed) :
           Handed[i].version = Handed[i].selected
<1>1. fragmentIdxToInject \in Slots /\ injected \in Seq(Injected)
  BY DEF TypeOK, Injected
<1>2. Current = NoFragment \/ Current.version = version
  BY <1>1 DEF VersionOf, SlotInv, Current
<1>3. CASE Current = NoFragment
  BY <1>3 DEF Handed, VersionOf, NoOldAudioAfterSwitch
<1>4. CASE Current # NoFragment
  <2> DEFINE e == [version |-> Current.version, number |-> Current.number,
                   pipeline |-> pipeline, selected |-> version]
  <2>1. Handed = Append(injected, e)
    BY <1>4 DEF Handed
  <2>2. e.version = e.selected
    BY <1>2, <1>4
  <2> HIDE DEF e
  <2> QED
    BY <1>1, <2>1, <2>2 DEF VersionOf, NoOldAudioAfterSwitch
<1> QED BY <1>3, <1>4

LEMMA SlotStep == IInv /\ VersionOf /\ [Next]_vars => VersionOf'
<1> SUFFICES ASSUME IInv, VersionOf, [Next]_vars PROVE VersionOf' OBVIOUS
<1> USE MediaTrackAssumption
<1>1. CASE DownloadFragment
  BY <1>1
  DEF DownloadFragment, trackVars, ringVars, flagVars, switchVars,
      injectVars, controlVars, ghostVars, countVars, IInv, TypeOK,
      VersionOf, SlotInv, NoOldAudioAfterSwitch
<1>2. CASE SkipDownload
  BY <1>2
  DEF SkipDownload, NextJob, trackVars, ringVars, flagVars, switchVars,
      injectVars, controlVars, ghostVars, countVars, IInv, TypeOK,
      VersionOf, SlotInv, NoOldAudioAfterSwitch
<1>3. CASE FetcherExit
  BY <1>3
  DEF FetcherExit, trackVars, ringVars, flagVars, switchVars, injectVars,
      controlVars, ghostVars, countVars, IInv, TypeOK, VersionOf, SlotInv,
      NoOldAudioAfterSwitch
<1>4. CASE OnFragmentDownloadSuccess
  BY <1>4
  DEF OnFragmentDownloadSuccess, NextJob, trackVars, ringVars, flagVars,
      switchVars, injectVars, controlVars, ghostVars, countVars, IInv,
      TypeOK, VersionOf, SlotInv, NoOldAudioAfterSwitch
<1>5. CASE WaitForCachedFragmentInjected
  BY <1>5
  DEF WaitForCachedFragmentInjected, trackVars, ringVars, flagVars,
      switchVars, injectVars, controlVars, ghostVars, countVars, IInv,
      TypeOK, VersionOf, SlotInv, NoOldAudioAfterSwitch
<1>6. CASE GetFetchBuffer
  BY <1>6
  DEF GetFetchBuffer, trackVars, flagVars, switchVars, injectVars,
      controlVars, ghostVars, countVars, IInv, TypeOK, VersionOf, SlotInv,
      NoOldAudioAfterSwitch
<1>7. CASE UpdateTSAfterFetch
  BY <1>7
  DEF UpdateTSAfterFetch, trackVars, flagVars, switchVars, controlVars,
      ghostVars, countVars, IInv, TypeOK, VersionOf, SlotInv,
      NoOldAudioAfterSwitch
<1>8. CASE UpdateTSAfterFetchStats
  BY <1>8
  DEF UpdateTSAfterFetchStats, NextJob, trackVars, ringVars, flagVars,
      switchVars, controlVars, ghostVars, countVars, IInv, TypeOK,
      VersionOf, SlotInv, NoOldAudioAfterSwitch
<1>9. CASE ClearLoadNewAudio
  BY <1>9
  DEF ClearLoadNewAudio, NextJob, trackVars, ringVars, flagVars, injectVars,
      controlVars, ghostVars, countVars, IInv, TypeOK, VersionOf, SlotInv,
      NoOldAudioAfterSwitch
<1>10. CASE SetEosReached
  BY <1>10
  DEF SetEosReached, trackVars, ringVars, flagVars, switchVars, injectVars,
      controlVars, ghostVars, countVars, IInv, TypeOK, VersionOf, SlotInv,
      NoOldAudioAfterSwitch
<1>11. CASE AbortWaitAfterEos
  BY <1>11
  DEF AbortWaitAfterEos, trackVars, ringVars, flagVars, switchVars,
      controlVars, ghostVars, countVars, IInv, TypeOK, VersionOf, SlotInv,
      NoOldAudioAfterSwitch
<1>12. CASE SwitchAudioTrack
  BY <1>12
  DEF SwitchAudioTrack, trackVars, ringVars, flagVars, injectVars,
      controlVars, ghostVars, countVars, IInv, TypeOK, VersionOf, SlotInv,
      NoOldAudioAfterSwitch
<1>13. CASE FlushFragments
  BY <1>13
  DEF FlushFragments, trackVars, flagVars, switchVars, injectVars,
      controlVars, ghostVars, countVars, IInv, TypeOK, VersionOf, SlotInv,
      NoOldAudioAfterSwitch
<1>14. CASE FlushCount
  BY <1>14
  DEF FlushCount, trackVars, flagVars, switchVars, injectVars, controlVars,
      ghostVars, countVars, IInv, TypeOK, VersionOf, SlotInv,
      NoOldAudioAfterSwitch
<1>15. CASE Retarget
  BY <1>15
  DEF Retarget, trackVars, ringVars, injectVars, controlVars, ghostVars,
      countVars, IInv, TypeOK, VersionOf, SlotInv, NoOldAudioAfterSwitch
<1>16. CASE RetargetFails
  BY <1>16
  DEF RetargetFails, trackVars, ringVars, flagVars, switchVars, controlVars,
      ghostVars, IInv, TypeOK, VersionOf, SlotInv, NoOldAudioAfterSwitch
<1>17. CASE ClearRefreshAudio
  BY <1>17
  DEF ClearRefreshAudio, trackVars, ringVars, flagVars, fetchVars,
      injectVars, controlVars, ghostVars, countVars, IInv, TypeOK,
      VersionOf, SlotInv, NoOldAudioAfterSwitch
<1>18. CASE InjectorTop
  BY <1>18
  DEF InjectorTop, trackVars, ringVars, switchVars, fetchVars, controlVars,
      ghostVars, countVars, IInv, TypeOK, VersionOf, SlotInv,
      NoOldAudioAfterSwitch
<1>19. CASE CheckLoading
  BY <1>19
  DEF CheckLoading, trackVars, ringVars, flagVars, switchVars, fetchVars,
      controlVars, ghostVars, countVars, IInv, TypeOK, VersionOf, SlotInv,
      NoOldAudioAfterSwitch
<1>20. CASE WaitForCachedAudioFragmentAvailable
  BY <1>20
  DEF WaitForCachedAudioFragmentAvailable, trackVars, ringVars, flagVars,
      switchVars, fetchVars, controlVars, ghostVars, countVars, IInv,
      TypeOK, VersionOf, SlotInv, NoOldAudioAfterSwitch
<1>21. CASE WaitForCachedFragmentAvailable
  BY <1>21
  DEF WaitForCachedFragmentAvailable, trackVars, ringVars, flagVars,
      switchVars, fetchVars, controlVars, countVars, IInv, TypeOK,
      VersionOf, SlotInv, NoOldAudioAfterSwitch
<1>22. CASE WaitComplete
  BY <1>22
  DEF WaitComplete, trackVars, ringVars, flagVars, switchVars, fetchVars,
      controlVars, countVars, IInv, TypeOK, VersionOf, SlotInv,
      NoOldAudioAfterSwitch
<1>23. CASE NullFragment
  BY <1>23
  DEF NullFragment, Current, trackVars, ringVars, flagVars, switchVars,
      fetchVars, controlVars, countVars, IInv, TypeOK, VersionOf, SlotInv,
      NoOldAudioAfterSwitch
<1>24. CASE CheckForDiscontinuity
  <2>1. NoOldAudioAfterSwitch'
    BY <1>24 DEF CheckForDiscontinuity, VersionOf, NoOldAudioAfterSwitch
  <2>2. fragmentIdxToInject \in Slots /\ Current \in Fragment
    BY <1>24 DEF CheckForDiscontinuity, IInv, TypeOK, Current
  <2>3. mCachedFragment' = MarkSeen /\ UNCHANGED <<switchVars, fetchVars>>
    BY <1>24 DEF CheckForDiscontinuity
  <2>4. fetcher \notin {"flushCount", "retarget"}
    BY <1>24, <2>2 DEF CheckForDiscontinuity, VersionOf, SlotInv, Current
  <2>5. ASSUME NEW s \in Slots
        PROVE  \/ mCachedFragment'[s] = NoFragment
               \/ mCachedFragment'[s].version = version
    <3>1. CASE s = fragmentIdxToInject
      <4>1. mCachedFragment'[s] =
              [Current EXCEPT !.discontinuity = @ /\ type = "subtitle"]
        BY <2>2, <2>3, <3>1 DEF MarkSeen, Current, IInv, TypeOK
      <4>2. mCachedFragment'[s].version = Current.version
        BY <2>2, <4>1 DEF Fragment
      <4> QED BY <2>2, <3>1, <4>2 DEF Current, VersionOf, SlotInv, Fragment, NoFragment
    <3>2. CASE s # fragmentIdxToInject
      BY <2>2, <2>3, <3>2 DEF MarkSeen, VersionOf, SlotInv, IInv, TypeOK
    <3> QED BY <3>1, <3>2
  <2>6. SlotInv'
    BY <2>3, <2>4, <2>5 DEF SlotInv, switchVars, fetchVars
  <2> QED BY <2>1, <2>6 DEF VersionOf
<1>25. CASE ProcessAndInjectFragment
  <2>1. NoOldAudioAfterSwitch'
    BY <1>25, HandedIsCurrent
    DEF ProcessAndInjectFragment, IInv, NoOldAudioAfterSwitch
  <2>2. SlotInv'
    BY <1>25
    DEF ProcessAndInjectFragment, ringVars, switchVars, fetchVars,
        VersionOf, SlotInv
  <2> QED BY <2>1, <2>2 DEF VersionOf
<1>26. CASE DiscardFragment
  <2>1. NoOldAudioAfterSwitch'
    BY <1>26, HandedIsCurrent
    DEF DiscardFragment, IInv, NoOldAudioAfterSwitch
  <2>2. SlotInv'
    BY <1>26
    DEF DiscardFragment, ringVars, switchVars, fetchVars, VersionOf, SlotInv
  <2> QED BY <2>1, <2>2 DEF VersionOf
<1>27. CASE UpdateTSAfterInject
  BY <1>27
  DEF UpdateTSAfterInject, NotifyInjected, trackVars, flagVars, switchVars,
      controlVars, ghostVars, countVars, IInv, TypeOK, VersionOf, SlotInv,
      NoOldAudioAfterSwitch
<1>28. CASE InjectorEnd
  BY <1>28
  DEF InjectorEnd, trackVars, ringVars, flagVars, switchVars, fetchVars,
      controlVars, ghostVars, countVars, IInv, TypeOK, VersionOf, SlotInv,
      NoOldAudioAfterSwitch
<1>29. CASE StartInjectLoop
  BY <1>29
  DEF StartInjectLoop, trackVars, ringVars, switchVars, fetchVars,
      countVars, IInv, TypeOK, VersionOf, SlotInv, NoOldAudioAfterSwitch
<1>30. CASE ProcessPendingDiscontinuity
  BY <1>30
  DEF ProcessPendingDiscontinuity, trackVars, ringVars, flagVars,
      switchVars, fetchVars, injectVars, ghostVars, countVars, IInv, TypeOK,
      VersionOf, SlotInv, NoOldAudioAfterSwitch
<1>31. CASE AbortWaitForCachedFragment
  BY <1>31
  DEF AbortWaitForCachedFragment, trackVars, ringVars, switchVars,
      fetchVars, ghostVars, countVars, IInv, TypeOK, VersionOf, SlotInv,
      NoOldAudioAfterSwitch
<1>32. CASE StopInjectLoop
  BY <1>32
  DEF StopInjectLoop, trackVars, ringVars, flagVars, switchVars, fetchVars,
      ghostVars, countVars, IInv, TypeOK, VersionOf, SlotInv,
      NoOldAudioAfterSwitch
<1>33. CASE JoinInjector
  BY <1>33
  DEF JoinInjector, trackVars, ringVars, flagVars, switchVars, fetchVars,
      ghostVars, countVars, IInv, TypeOK, VersionOf, SlotInv,
      NoOldAudioAfterSwitch
<1>34. CASE AbortWaitForCachedAndFreeFragment
  BY <1>34
  DEF AbortWaitForCachedAndFreeFragment, NotifyInjected, trackVars,
      ringVars, switchVars, ghostVars, countVars, IInv, TypeOK, VersionOf,
      SlotInv, NoOldAudioAfterSwitch
<1>35. CASE JoinFetcher
  BY <1>35
  DEF JoinFetcher, trackVars, ringVars, flagVars, switchVars, fetchVars,
      injectVars, ghostVars, countVars, IInv, TypeOK, VersionOf, SlotInv,
      NoOldAudioAfterSwitch
<1>36. CASE Stop
  BY <1>36
  DEF Stop, trackVars, ringVars, flagVars, switchVars, fetchVars,
      injectVars, ghostVars, countVars, IInv, TypeOK, VersionOf, SlotInv,
      NoOldAudioAfterSwitch
<1>37. CASE Detach
  BY <1>37
  DEF Detach, trackVars, ringVars, flagVars, switchVars, fetchVars,
      injectVars, ghostVars, countVars, IInv, TypeOK, VersionOf, SlotInv,
      NoOldAudioAfterSwitch
<1>38. CASE RefreshTrack
  BY <1>38
  DEF RefreshTrack, trackVars, ringVars, flagVars, fetchVars, injectVars,
      ghostVars, IInv, TypeOK, VersionOf, SlotInv, NoOldAudioAfterSwitch
<1>39. CASE RestartForOtherTracks
  BY <1>39
  DEF RestartForOtherTracks, trackVars, ringVars, flagVars, switchVars,
      fetchVars, injectVars, ghostVars, IInv, TypeOK, VersionOf, SlotInv,
      NoOldAudioAfterSwitch
<1>40. CASE SpuriousWakeup
  BY <1>40
  DEF SpuriousWakeup, trackVars, ringVars, flagVars, switchVars, fetchVars,
      controlVars, ghostVars, IInv, TypeOK, VersionOf, SlotInv,
      NoOldAudioAfterSwitch
<1>41. CASE UNCHANGED vars
  BY <1>41
  DEF vars, trackVars, ringVars, flagVars, switchVars, fetchVars,
      injectVars, controlVars, ghostVars, countVars, IInv, TypeOK,
      VersionOf, SlotInv, NoOldAudioAfterSwitch
<1> QED
  BY <1>1, <1>2, <1>3, <1>4, <1>5, <1>6, <1>7, <1>8, <1>9, <1>10, <1>11,
  <1>12, <1>13, <1>14, <1>15, <1>16, <1>17, <1>18, <1>19, <1>20, <1>21,
  <1>22, <1>23, <1>24, <1>25, <1>26, <1>27, <1>28, <1>29, <1>30, <1>31,
  <1>32, <1>33, <1>34, <1>35, <1>36, <1>37, <1>38, <1>39, <1>40, <1>41
  DEF Next, FetcherStep, InjectorStep, ControllerStep, Request

------------------------------------------------------------------------------
LEMMA InvHolds == Spec => [](IInv /\ VersionOf)
<1>1. Init => IInv /\ VersionOf
  BY InitInv, SlotInit
<1>2. IInv /\ VersionOf /\ [Next]_vars => (IInv /\ VersionOf)'
  BY StepInv, SlotStep
<1> QED BY <1>1, <1>2, PTL DEF Spec

(* Types of the track's state, of its ring and of its threads' control     *)
(* (MediaTrack and MediaStreamContext), whatever the interleaving.         *)
THEOREM TrackTypeCorrect == Spec => []TypeOK
<1>1. IInv => TypeOK
  BY DEF IInv
<1> QED BY <1>1, InvHolds, PTL

(* The assertion of UpdateTSAfterFetch, "this should never HIT", does not: *)
(* a slot found free stays free until it is published, although the mutex  *)
(* is released in between and the ring may be flushed.                     *)
THEOREM CacheNeverOverflows == Spec => []CacheWithinCapacity
<1>1. IInv => CacheWithinCapacity
  BY DEF IInv, CountInv
<1> QED BY <1>1, InvHolds, PTL

(* No fragment of the old audio track reaches the pipeline once            *)
(* SwitchAudioTrack has turned to the new one.                             *)
THEOREM SwitchLeavesNoOldAudio == Spec => []NoOldAudioAfterSwitch
<1>1. VersionOf => NoOldAudioAfterSwitch
  BY DEF VersionOf
<1> QED BY <1>1, InvHolds, PTL

------------------------------------------------------------------------------
(* Who waits is going to be woken.                                         *)

(* The injector waits for a fragment only while the ring is empty and      *)
(* nobody has aborted it or told it that the last one was cached (the      *)
(* fetcher has yet to, when it has set eosReached); the fetcher waits for  *)
(* a slot only while all are taken and the track is not aborted.           *)
Awaited ==
  /\ injector = "waitFetched" =>
       /\ numberOfFragmentsCached = 0 /\ ~abort /\ ~abortInject
       /\ eosReached => fetcher = "eos"
  /\ fetcher = "waitInjected" => IsFragmentCacheFull /\ ~abort

LEMMA AwaitedStep == IInv /\ Awaited /\ [Next]_vars => Awaited'
<1> SUFFICES ASSUME TypeOK, Awaited, [Next]_vars PROVE Awaited'
  BY DEF IInv
<1> USE DEF IsFragmentCacheFull
<1>1. CASE DownloadFragment
  BY <1>1
  DEF DownloadFragment, ringVars, flagVars, injectVars, Awaited
<1>2. CASE SkipDownload
  BY <1>2
  DEF SkipDownload, NextJob, ringVars, flagVars, injectVars, Awaited
<1>3. CASE FetcherExit
  BY <1>3
  DEF FetcherExit, ringVars, flagVars, injectVars, Awaited
<1>4. CASE OnFragmentDownloadSuccess
  BY <1>4
  DEF OnFragmentDownloadSuccess, NextJob, ringVars, flagVars, injectVars,
      Awaited
<1>5. CASE WaitForCachedFragmentInjected
  BY <1>5
  DEF WaitForCachedFragmentInjected, ringVars, flagVars, injectVars, Awaited
<1>6. CASE GetFetchBuffer
  BY <1>6
  DEF GetFetchBuffer, flagVars, injectVars, Awaited
<1>7. CASE UpdateTSAfterFetch
  BY <1>7
  DEF UpdateTSAfterFetch, NotifyFetched, flagVars, Awaited
<1>8. CASE UpdateTSAfterFetchStats
  BY <1>8
  DEF UpdateTSAfterFetchStats, NextJob, NotifyCachedAudioFragmentAvailable,
      ringVars, flagVars, Awaited
<1>9. CASE ClearLoadNewAudio
  BY <1>9
  DEF ClearLoadNewAudio, NextJob, ringVars, flagVars, injectVars, Awaited
<1>10. CASE SetEosReached
  BY <1>10
  DEF SetEosReached, ringVars, flagVars, injectVars, Awaited
<1>11. CASE AbortWaitAfterEos
  BY <1>11
  DEF AbortWaitAfterEos, NotifyFetched, ringVars, flagVars, Awaited
<1>12. CASE SwitchAudioTrack
  BY <1>12
  DEF SwitchAudioTrack, ringVars, flagVars, injectVars, Awaited
<1>13. CASE FlushFragments
  BY <1>13
  DEF FlushFragments, flagVars, injectVars, Awaited
<1>14. CASE FlushCount
  BY <1>14
  DEF FlushCount, flagVars, injectVars, Awaited
<1>15. CASE Retarget
  BY <1>15
  DEF Retarget, ringVars, injectVars, Awaited
<1>16. CASE RetargetFails
  BY <1>16
  DEF RetargetFails, NotifyCachedAudioFragmentAvailable, ringVars, flagVars,
      Awaited
<1>17. CASE ClearRefreshAudio
  BY <1>17
  DEF ClearRefreshAudio, ringVars, flagVars, fetchVars, injectVars, Awaited
<1>18. CASE InjectorTop
  BY <1>18
  DEF InjectorTop, ringVars, fetchVars, Awaited
<1>19. CASE CheckLoading
  BY <1>19
  DEF CheckLoading, ringVars, flagVars, fetchVars, Awaited
<1>20. CASE WaitForCachedAudioFragmentAvailable
  BY <1>20
  DEF WaitForCachedAudioFragmentAvailable, ringVars, flagVars, fetchVars,
      Awaited
<1>21. CASE WaitForCachedFragmentAvailable
  BY <1>21
  DEF WaitForCachedFragmentAvailable, MustWait, FragmentAvailable, ringVars,
      flagVars, fetchVars, Awaited
<1>22. CASE WaitComplete
  BY <1>22
  DEF WaitComplete, FragmentAvailable, ringVars, flagVars, fetchVars, Awaited
<1>23. CASE NullFragment
  BY <1>23
  DEF NullFragment, ringVars, flagVars, fetchVars, Awaited
<1>24. CASE CheckForDiscontinuity
  BY <1>24
  DEF CheckForDiscontinuity, fetchVars, Awaited
<1>25. CASE ProcessAndInjectFragment
  BY <1>25
  DEF ProcessAndInjectFragment, ringVars, flagVars, fetchVars, Awaited
<1>26. CASE DiscardFragment
  BY <1>26
  DEF DiscardFragment, ringVars, flagVars, fetchVars, Awaited
<1>27. CASE UpdateTSAfterInject
  BY <1>27
  DEF UpdateTSAfterInject, NotifyInjected, flagVars, Awaited
<1>28. CASE InjectorEnd
  BY <1>28
  DEF InjectorEnd, ringVars, flagVars, fetchVars, Awaited
<1>29. CASE StartInjectLoop
  BY <1>29
  DEF StartInjectLoop, ringVars, fetchVars, Awaited
<1>30. CASE ProcessPendingDiscontinuity
  BY <1>30
  DEF ProcessPendingDiscontinuity, ringVars, flagVars, fetchVars, injectVars,
      Awaited
<1>31. CASE AbortWaitForCachedFragment
  BY <1>31
  DEF AbortWaitForCachedFragment, NotifyFetched, ringVars, fetchVars, Awaited
<1>32. CASE StopInjectLoop
  BY <1>32
  DEF StopInjectLoop, NotifyCachedAudioFragmentAvailable, ringVars, flagVars,
      fetchVars, Awaited
<1>33. CASE JoinInjector
  BY <1>33
  DEF JoinInjector, ringVars, flagVars, fetchVars, Awaited
<1>34. CASE AbortWaitForCachedAndFreeFragment
  BY <1>34
  DEF AbortWaitForCachedAndFreeFragment, NotifyFetched, NotifyInjected,
      ringVars, Awaited
<1>35. CASE JoinFetcher
  BY <1>35
  DEF JoinFetcher, ringVars, flagVars, fetchVars, injectVars, Awaited
<1>36. CASE Stop
  BY <1>36
  DEF Stop, ringVars, flagVars, fetchVars, injectVars, Awaited
<1>37. CASE Detach
  BY <1>37
  DEF Detach, ringVars, flagVars, fetchVars, injectVars, Awaited
<1>38. CASE RefreshTrack
  BY <1>38
  DEF RefreshTrack, ringVars, flagVars, fetchVars, injectVars, Awaited
<1>39. CASE RestartForOtherTracks
  BY <1>39
  DEF RestartForOtherTracks, ringVars, flagVars, fetchVars, injectVars,
      Awaited
<1>40. CASE SpuriousWakeup
  BY <1>40
  DEF SpuriousWakeup, ringVars, flagVars, fetchVars, Awaited
<1>41. CASE UNCHANGED vars
  BY <1>41 DEF vars, ringVars, flagVars, fetchVars, injectVars, Awaited
<1> QED
  BY <1>1, <1>2, <1>3, <1>4, <1>5, <1>6, <1>7, <1>8, <1>9, <1>10, <1>11,
     <1>12, <1>13, <1>14, <1>15, <1>16, <1>17, <1>18, <1>19, <1>20, <1>21,
     <1>22, <1>23, <1>24, <1>25, <1>26, <1>27, <1>28, <1>29, <1>30, <1>31,
     <1>32, <1>33, <1>34, <1>35, <1>36, <1>37, <1>38, <1>39, <1>40, <1>41
  DEF Next, FetcherStep, InjectorStep, ControllerStep, Request

(* Neither thread waits for something that has already happened.           *)
NoLostWakeup ==
  /\ injector = "waitFetched" =>
       /\ numberOfFragmentsCached = 0 /\ ~abort /\ ~abortInject
       /\ fetcher # "waitInjected"
       /\ eosReached => fetcher = "eos"
  /\ fetcher = "waitInjected" => IsFragmentCacheFull /\ ~abort

(* WaitForCachedFragmentAvailable and WaitForCachedFragmentInjected miss   *)
(* no notification, although the first waits without a predicate, the      *)
(* condition variables are notified from three threads, and audio switches *)
(* flush the ring meanwhile; and the injector and the fetcher never wait   *)
(* for each other.                                                         *)
THEOREM WaitsAreAnswered == Spec => []NoLostWakeup
<1>1. Init => Awaited
  BY DEF Init, Awaited
<1>2. IInv /\ Awaited => NoLostWakeup
  BY MediaTrackAssumption DEF Awaited, NoLostWakeup, IsFragmentCacheFull
<1> QED BY <1>1, <1>2, AwaitedStep, InvHolds, PTL DEF Spec

------------------------------------------------------------------------------
(* Without audio switches: the order of the fragments.                     *)

(* What holds as long as nobody selects another audio track: the mutex is  *)
(* never kept across steps, and only Stop aborts the track.                *)
QuietInv ==
  /\ ~refreshAudio /\ ~switching /\ ~loadNewAudio /\ mutex = "free"
  /\ fetcher \notin {"clear", "flush", "flushCount", "retarget"}
  /\ operation # "refresh"
  /\ abort => operation = "stop"
  /\ controller = "abort" => operation = "stop"
  /\ controller = "joinFetcher" => operation \in {"stop", "detach"}
  /\ controller = "idle" => operation = "none"
  /\ controller = "start" => operation \in {"none", "restart"}
  /\ operation \in {"stop", "detach"} => ~mDownloadsEnabled

(* How many fragments have left the ring, and how many were ever in it.    *)
Left == IF injector = "update" THEN Len(injected) - 1 ELSE Len(injected)

Accepted == Left + numberOfFragmentsCached

(* The two indices are these two numbers, modulo the size of the ring; the *)
(* slots between them hold the fragments with the numbers between them.    *)
RingInv ==
  /\ Left \in Nat
  /\ injector \in {"slot", "inject", "update"} => numberOfFragmentsCached > 0
  /\ fragmentIdxToInject = Left % CacheSize
  /\ fragmentIdxToFetch = Accepted % CacheSize
  /\ \A k \in Left + 1 .. Accepted :
       mCachedFragment[(k - 1) % CacheSize].number = k
  /\ \A i \in 1 .. Len(injected) : injected[i].number = i

(* The job under way is for the fragment after the last one in the ring,   *)
(* except that a job may be dropped when downloads have been disabled.     *)
NextInv ==
  /\ fetcher \in {"downloaded", "cache", "waitInjected", "wokenInjected",
                  "fill", "publish"} => next = Accepted + 1
  /\ fetcher = "fetch" /\ mDownloadsEnabled => next = Accepted + 1
  /\ fetcher = "stats" /\ mDownloadsEnabled => next = Accepted
  /\ fetcher = "publish" => mCachedFragment[fragmentIdxToFetch].number = next
  /\ Accepted <= LastFragment
  /\ eosReached => Accepted = LastFragment /\ fetcher \in {"eos", "done"}

(* RunInjectLoop is on its way out, or has ended.                          *)
Ending ==
  \/ injector \in {"none", "exited"}
  \/ injector = "end" /\ ~ret
  \/ injector = "top" /\ ~keepInjecting

(* A discontinuity stops injection with its fragment as the next one, and  *)
(* until the restart nothing is injected; until then the injector is told  *)
(* to give up only when it does so anyway, except for subtitles and at the *)
(* end of playback.                                                        *)
StopInv ==
  /\ discontinuityProcessed => Ending
  /\ controller = "abortInject" =>
       \/ discontinuityProcessed \/ type = "subtitle" \/ operation = "detach"
  /\ abortInject =>
       \/ Ending \/ type = "subtitle" \/ operation \in {"stop", "detach"}
  /\ \A d \in stoppedAt :
       \/ d[2] < pipeline
       \/ d[2] = pipeline /\ d[1] = Len(injected) + 1 /\ discontinuityProcessed

(* Division with remainder, for the indices of the ring.                   *)
LEMMA RemainderInRange ==
  ASSUME NEW N \in Nat \ {0}, NEW a \in Nat
  PROVE  a % N \in 0 .. N - 1
  OBVIOUS

LEMMA Quotient ==
  ASSUME NEW N \in Nat \ {0}, NEW a \in Nat
  PROVE  \E q \in Nat : a = N * q + (a % N)
<1>1. a = N * (a \div N) + (a % N)
  OBVIOUS
<1>2. a \div N \in Nat
  OBVIOUS
<1> QED BY <1>1, <1>2

LEMMA RemainderIs ==
  ASSUME NEW N \in Nat \ {0}, NEW q \in Nat, NEW r \in 0 .. N - 1
  PROVE  (N * q + r) % N = r
  OBVIOUS

LEMMA NoMultiple ==
  ASSUME NEW N \in Nat \ {0}, NEW q \in Nat, NEW p \in Nat, N * q - N * p < N, N * q - N * p > 0
  PROVE  FALSE
  OBVIOUS

LEMMA RemainderPlus ==
  ASSUME NEW N \in Nat \ {0}, NEW a \in Nat, NEW x \in Nat
  PROVE  ((a % N) + x) % N = (a + x) % N
<1>1. PICK q \in Nat : a = N * q + (a % N)
  BY Quotient
<1> DEFINE b == a % N
<1>2. b \in Nat
  BY RemainderInRange
<1>3. a = N * q + b
  BY <1>1
<1> HIDE DEF b
<1> DEFINE c == b + x
<1>4. c \in Nat
  BY <1>2
<1> HIDE DEF c
<1>5. PICK p \in Nat : c = N * p + (c % N)
  BY Quotient, <1>4
<1> DEFINE r == c % N
<1>6. r \in 0 .. N - 1
  BY RemainderInRange, <1>4
<1>7. c = N * p + r
  BY <1>5
<1> HIDE DEF r
<1>8. a + x = N * (q + p) + r
  <2>1. N * q \in Nat /\ N * p \in Nat /\ N * (q + p) = N * q + N * p
    OBVIOUS
  <2> QED BY <1>2, <1>3, <1>6, <1>7, <2>1 DEF c
<1>9. q + p \in Nat
  OBVIOUS
<1>10. (N * (q + p) + r) % N = r
  BY <1>6, <1>9, RemainderIs
<1>11. (a + x) % N = r
  BY <1>8, <1>10
<1> QED BY <1>11 DEF r, c, b

LEMMA RemaindersDiffer ==
  ASSUME NEW N \in Nat \ {0}, NEW a \in Nat, NEW x \in 1 .. N - 1
  PROVE  (a + x) % N # a % N
<1>0. SUFFICES ASSUME (a + x) % N = a % N PROVE FALSE OBVIOUS
<1>1. PICK q \in Nat : a = N * q + (a % N)
  BY Quotient
<1> DEFINE c == a + x
<1>2. c \in Nat
  OBVIOUS
<1>3. c % N = a % N
  BY <1>0
<1> HIDE DEF c
<1>4. PICK p \in Nat : c = N * p + (c % N)
  BY Quotient, <1>2
<1> DEFINE r == a % N
<1>5. r \in Nat
  BY RemainderInRange
<1>6. a = N * q + r /\ a + x = N * p + r
  BY <1>1, <1>3, <1>4 DEF c
<1> HIDE DEF r
<1>7. N * p - N * q = x
  <2>1. N * q \in Nat /\ N * p \in Nat
    OBVIOUS
  <2> QED BY <1>5, <1>6, <2>1
<1>8. N * p - N * q < N /\ N * p - N * q > 0
  BY <1>7
<1> QED BY <1>8, NoMultiple

LEMMA QuietStep ==
  ASSUME IInv, QuietInv, MaxSwitches = 0, [Next]_vars
  PROVE  QuietInv'
<1> USE MediaTrackAssumption
<1>1. CASE DownloadFragment
  BY <1>1
  DEF DownloadFragment, IsInit, IsFragmentCacheFull, ringVars, flagVars,
      switchVars, trackVars, injectVars, controlVars, ghostVars, countVars,
      IInv, TypeOK, QuietInv
<1>2. CASE SkipDownload
  BY <1>2
  DEF SkipDownload, IsInit, NextJob, ringVars, flagVars, switchVars,
      trackVars, injectVars, controlVars, ghostVars, countVars, IInv, TypeOK,
      QuietInv
<1>3. CASE FetcherExit
  BY <1>3
  DEF FetcherExit, ringVars, flagVars, switchVars, trackVars, injectVars,
      controlVars, ghostVars, countVars, IInv, TypeOK, QuietInv
<1>4. CASE OnFragmentDownloadSuccess
  BY <1>4
  DEF OnFragmentDownloadSuccess, NextJob, ringVars, flagVars, switchVars,
      trackVars, injectVars, controlVars, ghostVars, countVars, IInv, TypeOK,
      QuietInv
<1>5. CASE WaitForCachedFragmentInjected
  BY <1>5
  DEF WaitForCachedFragmentInjected, IsFragmentCacheFull, ringVars, flagVars,
      switchVars, trackVars, injectVars, controlVars, ghostVars, countVars,
      IInv, TypeOK, QuietInv
<1>6. CASE GetFetchBuffer
  BY <1>6
  DEF GetFetchBuffer, flagVars, switchVars, trackVars, injectVars,
      controlVars, ghostVars, countVars, IInv, TypeOK, QuietInv
<1>7. CASE UpdateTSAfterFetch
  BY <1>7
  DEF UpdateTSAfterFetch, NotifyFetched, flagVars, switchVars, trackVars,
      controlVars, ghostVars, countVars, IInv, TypeOK, QuietInv
<1>8. CASE UpdateTSAfterFetchStats
  BY <1>8
  DEF UpdateTSAfterFetchStats, IsInit, NotifyCachedAudioFragmentAvailable,
      NextJob, ringVars, flagVars, switchVars, trackVars, controlVars,
      ghostVars, countVars, IInv, TypeOK, QuietInv
<1>9. CASE ClearLoadNewAudio
  BY <1>9
  DEF ClearLoadNewAudio, NextJob, ringVars, flagVars, trackVars, injectVars,
      controlVars, ghostVars, countVars, IInv, TypeOK, QuietInv
<1>10. CASE SetEosReached
  BY <1>10
  DEF SetEosReached, ringVars, flagVars, switchVars, trackVars, injectVars,
      controlVars, ghostVars, countVars, IInv, TypeOK, QuietInv
<1>11. CASE AbortWaitAfterEos
  BY <1>11
  DEF AbortWaitAfterEos, NotifyFetched, ringVars, flagVars, switchVars,
      trackVars, controlVars, ghostVars, countVars, IInv, TypeOK, QuietInv
<1>12. CASE SwitchAudioTrack
  BY <1>12
  DEF SwitchAudioTrack, ringVars, flagVars, trackVars, injectVars,
      controlVars, ghostVars, countVars, IInv, TypeOK, QuietInv
<1>13. CASE FlushFragments
  BY <1>13
  DEF FlushFragments, flagVars, switchVars, trackVars, injectVars,
      controlVars, ghostVars, countVars, IInv, TypeOK, QuietInv
<1>14. CASE FlushCount
  BY <1>14
  DEF FlushCount, flagVars, switchVars, trackVars, injectVars, controlVars,
      ghostVars, countVars, IInv, TypeOK, QuietInv
<1>15. CASE Retarget
  BY <1>15
  DEF Retarget, ringVars, trackVars, injectVars, controlVars, ghostVars,
      countVars, IInv, TypeOK, QuietInv
<1>16. CASE RetargetFails
  BY <1>16
  DEF RetargetFails, NotifyCachedAudioFragmentAvailable, ringVars, flagVars,
      switchVars, trackVars, controlVars, ghostVars, IInv, TypeOK, QuietInv
<1>17. CASE ClearRefreshAudio
  BY <1>17
  DEF ClearRefreshAudio, ringVars, flagVars, trackVars, fetchVars,
      injectVars, controlVars, ghostVars, countVars, IInv, TypeOK, QuietInv
<1>18. CASE InjectorTop
  BY <1>18
  DEF InjectorTop, ringVars, switchVars, trackVars, fetchVars, controlVars,
      ghostVars, countVars, IInv, TypeOK, QuietInv
<1>19. CASE CheckLoading
  BY <1>19
  DEF CheckLoading, Loading, ringVars, flagVars, switchVars, trackVars,
      fetchVars, controlVars, ghostVars, countVars, IInv, TypeOK, QuietInv
<1>20. CASE WaitForCachedAudioFragmentAvailable
  BY <1>20
  DEF WaitForCachedAudioFragmentAvailable, ringVars, flagVars, switchVars,
      trackVars, fetchVars, controlVars, ghostVars, countVars, IInv, TypeOK,
      QuietInv
<1>21. CASE WaitForCachedFragmentAvailable
  BY <1>21
  DEF WaitForCachedFragmentAvailable, MustWait, FragmentAvailable, Available,
      ringVars, flagVars, switchVars, trackVars, fetchVars, controlVars,
      countVars, IInv, TypeOK, QuietInv
<1>22. CASE WaitComplete
  BY <1>22
  DEF WaitComplete, FragmentAvailable, Available, ringVars, flagVars,
      switchVars, trackVars, fetchVars, controlVars, countVars, IInv, TypeOK,
      QuietInv
<1>23. CASE NullFragment
  BY <1>23
  DEF NullFragment, Current, ringVars, flagVars, switchVars, trackVars,
      fetchVars, controlVars, countVars, IInv, TypeOK, QuietInv
<1>24. CASE CheckForDiscontinuity
  BY <1>24
  DEF CheckForDiscontinuity, Current, MarkSeen, switchVars, trackVars,
      fetchVars, controlVars, countVars, IInv, TypeOK, QuietInv
<1>25. CASE ProcessAndInjectFragment
  BY <1>25
  DEF ProcessAndInjectFragment, Handed, Current, ringVars, flagVars,
      switchVars, trackVars, fetchVars, controlVars, countVars, IInv, TypeOK,
      QuietInv
<1>26. CASE DiscardFragment
  BY <1>26
  DEF DiscardFragment, Handed, Current, ringVars, flagVars, switchVars,
      trackVars, fetchVars, controlVars, IInv, TypeOK, QuietInv
<1>27. CASE UpdateTSAfterInject
  BY <1>27
  DEF UpdateTSAfterInject, NotifyInjected, flagVars, switchVars, trackVars,
      controlVars, ghostVars, countVars, IInv, TypeOK, QuietInv
<1>28. CASE InjectorEnd
  BY <1>28
  DEF InjectorEnd, Loading, ringVars, flagVars, switchVars, trackVars,
      fetchVars, controlVars, ghostVars, countVars, IInv, TypeOK, QuietInv
<1>29. CASE StartInjectLoop
  BY <1>29
  DEF StartInjectLoop, ringVars, switchVars, trackVars, fetchVars, countVars,
      IInv, TypeOK, QuietInv
<1>30. CASE ProcessPendingDiscontinuity
  BY <1>30
  DEF ProcessPendingDiscontinuity, ringVars, flagVars, switchVars, trackVars,
      fetchVars, injectVars, ghostVars, countVars, IInv, TypeOK, QuietInv
<1>31. CASE AbortWaitForCachedFragment
  BY <1>31
  DEF AbortWaitForCachedFragment, NotifyFetched, ringVars, switchVars,
      trackVars, fetchVars, ghostVars, countVars, IInv, TypeOK, QuietInv
<1>32. CASE StopInjectLoop
  BY <1>32
  DEF StopInjectLoop, NotifyCachedAudioFragmentAvailable, ringVars, flagVars,
      switchVars, trackVars, fetchVars, ghostVars, countVars, IInv, TypeOK,
      QuietInv
<1>33. CASE JoinInjector
  BY <1>33
  DEF JoinInjector, ringVars, flagVars, switchVars, trackVars, fetchVars,
      ghostVars, countVars, IInv, TypeOK, QuietInv
<1>34. CASE AbortWaitForCachedAndFreeFragment
  BY <1>34
  DEF AbortWaitForCachedAndFreeFragment, NotifyInjected, NotifyFetched,
      ringVars, switchVars, trackVars, ghostVars, countVars, IInv, TypeOK,
      QuietInv
<1>35. CASE JoinFetcher
  BY <1>35
  DEF JoinFetcher, ringVars, flagVars, switchVars, trackVars, fetchVars,
      injectVars, ghostVars, countVars, IInv, TypeOK, QuietInv
<1>36. CASE Stop
  BY <1>36
  DEF Stop, ringVars, flagVars, switchVars, trackVars, fetchVars, injectVars,
      ghostVars, countVars, IInv, TypeOK, QuietInv
<1>37. CASE Detach
  BY <1>37
  DEF Detach, ringVars, flagVars, switchVars, trackVars, fetchVars,
      injectVars, ghostVars, countVars, IInv, TypeOK, QuietInv
<1>38. CASE RefreshTrack
  BY <1>38
  DEF RefreshTrack, ringVars, flagVars, trackVars, fetchVars, injectVars,
      ghostVars, IInv, TypeOK, QuietInv
<1>39. CASE RestartForOtherTracks
  BY <1>39
  DEF RestartForOtherTracks, ringVars, flagVars, switchVars, trackVars,
      fetchVars, injectVars, ghostVars, IInv, TypeOK, QuietInv
<1>40. CASE SpuriousWakeup
  BY <1>40
  DEF SpuriousWakeup, ringVars, flagVars, switchVars, trackVars, fetchVars,
      controlVars, ghostVars, IInv, TypeOK, QuietInv
<1>41. CASE UNCHANGED vars
  BY <1>41
  DEF vars, trackVars, ringVars, flagVars, switchVars, fetchVars, injectVars,
      controlVars, ghostVars, countVars, IInv, TypeOK, QuietInv
<1> QED
  BY <1>1, <1>2, <1>3, <1>4, <1>5, <1>6, <1>7, <1>8, <1>9, <1>10, <1>11,
     <1>12, <1>13, <1>14, <1>15, <1>16, <1>17, <1>18, <1>19, <1>20, <1>21,
     <1>22, <1>23, <1>24, <1>25, <1>26, <1>27, <1>28, <1>29, <1>30, <1>31,
     <1>32, <1>33, <1>34, <1>35, <1>36, <1>37, <1>38, <1>39, <1>40, <1>41
  DEF Next, FetcherStep, InjectorStep, ControllerStep, Request

(* What a step does to the queue of waiting fragments: nothing, one more   *)
(* is accepted, or one is handed on.                                       *)
RingMove ==
  \/ /\ Len(injected') = Len(injected)
     /\ Accepted' = Accepted \/ Accepted' = Accepted + 1
  \/ Len(injected') = Len(injected) + 1 /\ Accepted' = Accepted

(* As long as the slots, the indices, the count and what was injected stay *)
(* and nothing enters or leaves "update", the ring stays as it is.         *)
LEMMA RingFrame ==
  ASSUME RingInv, UNCHANGED <<ringVars, injected>>,
         injector' = "update" <=> injector = "update",
         injector' \in {"slot", "inject"} => numberOfFragmentsCached > 0
  PROVE  RingInv' /\ Left' = Left /\ Accepted' = Accepted
<1>1. Left' = Left /\ Accepted' = Accepted
  BY DEF Left, Accepted, ringVars
<1> QED BY <1>1 DEF RingInv, ringVars

(* The fragment in front of the injector is the one after the last that    *)
(* left the ring.                                                          *)
LEMMA CurrentIsNext ==
  ASSUME IInv, RingInv, numberOfFragmentsCached > 0
  PROVE  Current \in Fragment /\ Current.number = Left + 1
<1>1. Left \in Nat /\ Left + 1 \in Left + 1 .. Accepted
  BY DEF RingInv, Accepted, IInv, TypeOK
<1>2. (Left + 1) - 1 = Left
  BY <1>1
<1>3. Current.number = Left + 1
  BY <1>1, <1>2 DEF RingInv, Current
<1>4. Current # NoFragment
  BY <1>1, <1>3 DEF NoFragment
<1> QED BY <1>3, <1>4 DEF Current, IInv, TypeOK

LEMMA RingTypes ==
  ASSUME IInv, RingInv
  PROVE  /\ CacheSize \in Nat \ {0} /\ Left \in Nat /\ Accepted \in Nat
         /\ numberOfFragmentsCached \in 0 .. CacheSize
         /\ Accepted = Left + numberOfFragmentsCached
         /\ injected \in Seq(Injected) /\ Len(injected) \in Nat
  BY MediaTrackAssumption
  DEF RingInv, Accepted, IInv, TypeOK, Injected, CountInv, CacheWithinCapacity

(* GetFetchBuffer overwrites a slot outside of the part that is in use.    *)
LEMMA RingFill ==
  ASSUME IInv, RingInv, NextInv, GetFetchBuffer
  PROVE  RingInv' /\ NextInv' /\ RingMove
<1>1. /\ fetcher = "fill" /\ fetcher' = "publish" /\ next' = next
      /\ UNCHANGED <<fragmentIdxToFetch, fragmentIdxToInject,
                     numberOfFragmentsCached, injected, injector, eosReached>>
      /\ mCachedFragment' = [mCachedFragment EXCEPT ![fragmentIdxToFetch] =
           [version |-> version, number |-> next,
            discontinuity |-> next \in Discontinuities]]
  BY DEF GetFetchBuffer, ghostVars, injectVars
<1>2. Left' = Left /\ Accepted' = Accepted
  BY <1>1 DEF Left, Accepted
<1>3. numberOfFragmentsCached < CacheSize
  BY <1>1 DEF IInv, CountInv
<1>4. ASSUME NEW k \in Left + 1 .. Accepted
      PROVE  (k - 1) % CacheSize # fragmentIdxToFetch
  <2> DEFINE x == Accepted - (k - 1)
             a == k - 1
  <2>1. x \in 1 .. CacheSize - 1 /\ a \in Nat /\ a + x = Accepted
    BY <1>3, RingTypes
  <2> HIDE DEF x, a
  <2>2. (a + x) % CacheSize # a % CacheSize
    BY <2>1, RingTypes, RemaindersDiffer
  <2> QED BY <2>1, <2>2 DEF RingInv, a
<1>5. ASSUME NEW k \in Left + 1 .. Accepted
      PROVE  mCachedFragment'[(k - 1) % CacheSize].number = k
  <2>1. (k - 1) % CacheSize \in Slots
    <3>1. k - 1 \in Nat
      BY RingTypes
    <3> QED BY <3>1, RingTypes, RemainderInRange DEF Slots
  <2>2. mCachedFragment'[(k - 1) % CacheSize] = mCachedFragment[(k - 1) % CacheSize]
    BY <1>1, <1>4, <2>1 DEF IInv, TypeOK
  <2> QED BY <2>2 DEF RingInv
<1>6. RingInv'
  BY <1>1, <1>2, <1>5 DEF RingInv
<1>7. mCachedFragment'[fragmentIdxToFetch'].number = next'
  BY <1>1 DEF IInv, TypeOK
<1>8. NextInv'
  BY <1>1, <1>2, <1>7 DEF NextInv
<1> QED BY <1>1, <1>2, <1>6, <1>8 DEF RingMove

(* UpdateTSAfterFetch publishes the slot that was filled.                  *)
LEMMA RingPublish ==
  ASSUME IInv, RingInv, NextInv, UpdateTSAfterFetch
  PROVE  RingInv' /\ NextInv' /\ RingMove
<1>1. /\ fetcher = "publish" /\ fetcher' = "stats" /\ next' = next
      /\ UNCHANGED <<mCachedFragment, fragmentIdxToInject, injected,
                     eosReached, mDownloadsEnabled>>
      /\ numberOfFragmentsCached' = numberOfFragmentsCached + 1
      /\ fragmentIdxToFetch' = Advance(fragmentIdxToFetch)
      /\ injector' = "update" <=> injector = "update"
      /\ injector' \in {"slot", "inject", "update"} =>
           injector \in {"slot", "inject", "update"}
  BY DEF UpdateTSAfterFetch, ghostVars, NotifyFetched
<1>2. Left' = Left /\ Accepted' = Accepted + 1
  BY <1>1, RingTypes DEF Left, Accepted
<1>3. fragmentIdxToFetch' = Accepted' % CacheSize
  BY <1>1, <1>2, RingTypes, RemainderPlus DEF Advance, RingInv
<1>4. ASSUME NEW k \in Left' + 1 .. Accepted'
      PROVE  mCachedFragment'[(k - 1) % CacheSize].number = k
  <2>1. CASE k = Accepted + 1
    <3>1. k - 1 = Accepted /\ next = k
      BY <1>1, <2>1, RingTypes DEF NextInv
    <3> QED BY <1>1, <3>1 DEF NextInv, RingInv
  <2>2. CASE k # Accepted + 1
    <3>1. k \in Left + 1 .. Accepted
      BY <1>2, <2>2, RingTypes
    <3> QED BY <1>1, <3>1 DEF RingInv
  <2> QED BY <2>1, <2>2
<1>5. RingInv'
  BY <1>1, <1>2, <1>3, <1>4, RingTypes DEF RingInv
<1>6. Accepted' <= LastFragment
  BY <1>1, <1>2, RingTypes, MediaTrackAssumption DEF NextInv, IInv, JobInv, TypeOK
<1>7. NextInv'
  BY <1>1, <1>2, <1>6 DEF NextInv
<1> QED BY <1>1, <1>2, <1>5, <1>7 DEF RingMove

(* CheckForDiscontinuity only takes the mark off a fragment.               *)
LEMMA RingMark ==
  ASSUME IInv, RingInv, NextInv, CheckForDiscontinuity
  PROVE  RingInv' /\ NextInv' /\ RingMove
<1>1. /\ UNCHANGED <<fragmentIdxToFetch, fragmentIdxToInject, injected, fetcher,
                     next, numberOfFragmentsCached, eosReached, mDownloadsEnabled>>
      /\ mCachedFragment' = MarkSeen
      /\ injector = "slot" /\ injector' # "update" /\ injector' # "slot"
  BY DEF CheckForDiscontinuity, fetchVars
<1>2. Left' = Left /\ Accepted' = Accepted
  BY <1>1 DEF Left, Accepted
<1>3. numberOfFragmentsCached > 0
  BY <1>1 DEF RingInv
<1>4. Current \in Fragment
  BY <1>3, CurrentIsNext
<1>5. \A s \in Slots : mCachedFragment'[s].number = mCachedFragment[s].number
  <2> TAKE s \in Slots
  <2>1. CASE s = fragmentIdxToInject
    <3>1. mCachedFragment'[s] =
            [Current EXCEPT !.discontinuity = @ /\ type = "subtitle"]
      BY <1>1, <2>1 DEF MarkSeen, Current, IInv, TypeOK
    <3> QED BY <1>4, <2>1, <3>1 DEF Current, Fragment
  <2>2. CASE s # fragmentIdxToInject
    BY <1>1, <2>2 DEF MarkSeen, IInv, TypeOK
  <2> QED BY <2>1, <2>2
<1>6. \A k \in Left + 1 .. Accepted : (k - 1) % CacheSize \in Slots
  <2> TAKE k \in Left + 1 .. Accepted
  <2>1. k - 1 \in Nat
    BY RingTypes
  <2> QED BY <2>1, RingTypes, RemainderInRange DEF Slots
<1>7. RingInv'
  BY <1>1, <1>2, <1>3, <1>5, <1>6 DEF RingInv
<1>8. fragmentIdxToFetch \in Slots
  BY DEF IInv, TypeOK
<1>9. NextInv'
  BY <1>1, <1>2, <1>5, <1>8 DEF NextInv
<1> QED BY <1>1, <1>2, <1>7, <1>9 DEF RingMove

(* The fragment is handed to the pipeline; it leaves the ring later.       *)
LEMMA RingHand ==
  ASSUME IInv, RingInv, NextInv,
         ProcessAndInjectFragment \/ DiscardFragment
  PROVE  /\ RingInv' /\ NextInv' /\ RingMove
         /\ Len(injected') = Len(injected) + 1
         /\ injected'[Len(injected) + 1].number = Len(injected) + 1
         /\ injected'[Len(injected) + 1].pipeline = pipeline
         /\ \A i \in 1 .. Len(injected) : injected'[i] = injected[i]
<1>1. /\ injector = "inject" /\ injector' = "update" /\ injected' = Handed
      /\ UNCHANGED <<ringVars, fetchVars, eosReached, mDownloadsEnabled>>
  BY DEF ProcessAndInjectFragment, DiscardFragment
<1>2. numberOfFragmentsCached > 0
  BY <1>1 DEF RingInv
<1>3. Current \in Fragment /\ Current.number = Left + 1
  BY <1>2, CurrentIsNext
<1> DEFINE e == [version |-> Current.version, number |-> Current.number,
                 pipeline |-> pipeline, selected |-> version]
<1>4. Current # NoFragment
  BY <1>3, RingTypes DEF NoFragment
<1>5. injected' = Append(injected, e)
  BY <1>1, <1>4 DEF Handed
<1>6. Left = Len(injected)
  BY <1>1 DEF Left
<1>7. e.number = Len(injected) + 1 /\ e.pipeline = pipeline
  BY <1>3, <1>6
<1> HIDE DEF e
<1>8. /\ Len(injected') = Len(injected) + 1
      /\ injected'[Len(injected) + 1] = e
      /\ \A i \in 1 .. Len(injected) : injected'[i] = injected[i]
  BY <1>5, RingTypes
<1>9. Left' = Left /\ Accepted' = Accepted
  BY <1>1, <1>6, <1>8, RingTypes DEF Left, Accepted, ringVars
<1>10. \A i \in 1 .. Len(injected') : injected'[i].number = i
  <2> SUFFICES ASSUME NEW i \in 1 .. Len(injected')
               PROVE  injected'[i].number = i
    OBVIOUS
  <2>1. CASE i = Len(injected) + 1
    BY <1>7, <1>8, <2>1
  <2>2. CASE i # Len(injected) + 1
    <3>1. i \in 1 .. Len(injected)
      BY <1>8, <2>2, RingTypes
    <3> QED BY <1>8, <3>1 DEF RingInv
  <2> QED BY <2>1, <2>2
<1>11. RingInv'
  BY <1>1, <1>2, <1>9, <1>10 DEF RingInv, ringVars
<1>12. NextInv'
  BY <1>1, <1>9 DEF NextInv, ringVars, fetchVars
<1> QED BY <1>7, <1>8, <1>9, <1>11, <1>12 DEF RingMove

(* UpdateTSAfterInject empties the slot and advances.                      *)
LEMMA RingAdvance ==
  ASSUME IInv, RingInv, NextInv, UpdateTSAfterInject
  PROVE  RingInv' /\ NextInv' /\ RingMove
<1>1. /\ injector = "update" /\ injector' = "end"
      /\ UNCHANGED <<fragmentIdxToFetch, injected, next, eosReached,
                     mDownloadsEnabled>>
      /\ mCachedFragment' =
           [mCachedFragment EXCEPT ![fragmentIdxToInject] = NoFragment]
      /\ fragmentIdxToInject' = Advance(fragmentIdxToInject)
      /\ fetcher' = IF fetcher = "waitInjected" THEN "wokenInjected" ELSE fetcher
  BY DEF UpdateTSAfterInject, NotifyInjected, ghostVars
<1>2. numberOfFragmentsCached' = numberOfFragmentsCached - 1
  <2>1. numberOfFragmentsCached > 0
    BY <1>1 DEF RingInv
  <2> QED BY <2>1 DEF UpdateTSAfterInject
<1>3. Left' = Left + 1 /\ Accepted' = Accepted
  BY <1>1, <1>2, RingTypes DEF Left, Accepted
<1>4. fragmentIdxToInject' = Left' % CacheSize
  BY <1>1, <1>3, RingTypes, RemainderPlus DEF Advance, RingInv
<1>5. ASSUME NEW x \in 1 .. CacheSize - 1
      PROVE  (Left + x) % CacheSize # fragmentIdxToInject
  BY RingTypes, RemaindersDiffer DEF RingInv
<1>6. ASSUME NEW k \in Left' + 1 .. Accepted'
      PROVE  mCachedFragment'[(k - 1) % CacheSize].number = k
  <2> DEFINE x == (k - 1) - Left
  <2>1. x \in 1 .. CacheSize - 1 /\ Left + x = k - 1 /\ k - 1 \in Nat
    BY <1>3, RingTypes
  <2> HIDE DEF x
  <2>2. (k - 1) % CacheSize # fragmentIdxToInject
    BY <1>5, <2>1
  <2>3. (k - 1) % CacheSize \in Slots
    BY <2>1, RingTypes, RemainderInRange DEF Slots
  <2>4. mCachedFragment'[(k - 1) % CacheSize] = mCachedFragment[(k - 1) % CacheSize]
    BY <1>1, <2>2, <2>3 DEF IInv, TypeOK
  <2>5. k \in Left + 1 .. Accepted
    BY <1>3, RingTypes
  <2> QED BY <2>4, <2>5 DEF RingInv
<1>7. RingInv'
  <2>1. Left' \in Nat
    BY <1>3, RingTypes
  <2>2. fragmentIdxToFetch' = Accepted' % CacheSize
    BY <1>1, <1>3 DEF RingInv
  <2>3. \A i \in 1 .. Len(injected') : injected'[i].number = i
    BY <1>1 DEF RingInv
  <2> QED BY <1>1, <1>4, <1>6, <2>1, <2>2, <2>3 DEF RingInv
<1>8. fetcher = "publish" => fragmentIdxToFetch # fragmentIdxToInject
  <2> SUFFICES ASSUME fetcher = "publish"
               PROVE  fragmentIdxToFetch # fragmentIdxToInject
    OBVIOUS
  <2>1. numberOfFragmentsCached \in 1 .. CacheSize - 1
    BY <1>1, RingTypes DEF RingInv, IInv, CountInv
  <2> QED BY <1>5, <2>1 DEF RingInv, Accepted
<1>9. fetcher = "publish" =>
        mCachedFragment'[fragmentIdxToFetch] = mCachedFragment[fragmentIdxToFetch]
  BY <1>1, <1>8 DEF IInv, TypeOK
<1>10. NextInv'
  BY <1>1, <1>3, <1>9 DEF NextInv
<1> QED BY <1>1, <1>3, <1>7, <1>10 DEF RingMove

LEMMA RingStep ==
  ASSUME IInv, QuietInv, RingInv, NextInv, MaxSwitches = 0, [Next]_vars
  PROVE  RingInv' /\ NextInv' /\ RingMove
<1> USE MediaTrackAssumption
<1>1. CASE DownloadFragment
  <2>1. /\ UNCHANGED <<ringVars, injected>>
        /\ injector' = "update" <=> injector = "update"
        /\ injector' \in {"slot", "inject"} => numberOfFragmentsCached > 0
    BY <1>1
    DEF DownloadFragment, IsInit, IsFragmentCacheFull, ringVars, flagVars,
        switchVars, trackVars, injectVars, controlVars, ghostVars, countVars,
        RingInv, QuietInv, IInv, TypeOK
  <2>2. RingInv' /\ Left' = Left /\ Accepted' = Accepted
    BY <2>1, RingFrame
  <2>3. NextInv'
    BY <1>1, <2>1, <2>2, RingTypes
    DEF DownloadFragment, IsInit, IsFragmentCacheFull, ringVars, flagVars,
        switchVars, trackVars, injectVars, controlVars, ghostVars, countVars,
        NextInv, QuietInv, IInv, TypeOK
  <2> QED BY <2>1, <2>2, <2>3 DEF RingMove
<1>2. CASE SkipDownload
  <2>1. /\ UNCHANGED <<ringVars, injected>>
        /\ injector' = "update" <=> injector = "update"
        /\ injector' \in {"slot", "inject"} => numberOfFragmentsCached > 0
    BY <1>2
    DEF SkipDownload, IsInit, NextJob, ringVars, flagVars, switchVars,
        trackVars, injectVars, controlVars, ghostVars, countVars, RingInv,
        QuietInv, IInv, TypeOK
  <2>2. RingInv' /\ Left' = Left /\ Accepted' = Accepted
    BY <2>1, RingFrame
  <2>3. NextInv'
    BY <1>2, <2>1, <2>2, RingTypes
    DEF SkipDownload, IsInit, NextJob, ringVars, flagVars, switchVars,
        trackVars, injectVars, controlVars, ghostVars, countVars, NextInv,
        QuietInv, IInv, TypeOK
  <2> QED BY <2>1, <2>2, <2>3 DEF RingMove
<1>3. CASE FetcherExit
  <2>1. /\ UNCHANGED <<ringVars, injected>>
        /\ injector' = "update" <=> injector = "update"
        /\ injector' \in {"slot", "inject"} => numberOfFragmentsCached > 0
    BY <1>3
    DEF FetcherExit, ringVars, flagVars, switchVars, trackVars, injectVars,
        controlVars, ghostVars, countVars, RingInv, QuietInv, IInv, TypeOK
  <2>2. RingInv' /\ Left' = Left /\ Accepted' = Accepted
    BY <2>1, RingFrame
  <2>3. NextInv'
    BY <1>3, <2>1, <2>2, RingTypes
    DEF FetcherExit, ringVars, flagVars, switchVars, trackVars, injectVars,
        controlVars, ghostVars, countVars, NextInv, QuietInv, IInv, TypeOK
  <2> QED BY <2>1, <2>2, <2>3 DEF RingMove
<1>4. CASE OnFragmentDownloadSuccess
  <2>1. /\ UNCHANGED <<ringVars, injected>>
        /\ injector' = "update" <=> injector = "update"
        /\ injector' \in {"slot", "inject"} => numberOfFragmentsCached > 0
    BY <1>4
    DEF OnFragmentDownloadSuccess, NextJob, ringVars, flagVars, switchVars,
        trackVars, injectVars, controlVars, ghostVars, countVars, RingInv,
        QuietInv, IInv, TypeOK
  <2>2. RingInv' /\ Left' = Left /\ Accepted' = Accepted
    BY <2>1, RingFrame
  <2>3. NextInv'
    BY <1>4, <2>1, <2>2, RingTypes
    DEF OnFragmentDownloadSuccess, NextJob, ringVars, flagVars, switchVars,
        trackVars, injectVars, controlVars, ghostVars, countVars, NextInv,
        QuietInv, IInv, TypeOK
  <2> QED BY <2>1, <2>2, <2>3 DEF RingMove
<1>5. CASE WaitForCachedFragmentInjected
  <2>1. /\ UNCHANGED <<ringVars, injected>>
        /\ injector' = "update" <=> injector = "update"
        /\ injector' \in {"slot", "inject"} => numberOfFragmentsCached > 0
    BY <1>5
    DEF WaitForCachedFragmentInjected, IsFragmentCacheFull, ringVars,
        flagVars, switchVars, trackVars, injectVars, controlVars, ghostVars,
        countVars, RingInv, QuietInv, IInv, TypeOK
  <2>2. RingInv' /\ Left' = Left /\ Accepted' = Accepted
    BY <2>1, RingFrame
  <2>3. NextInv'
    BY <1>5, <2>1, <2>2, RingTypes
    DEF WaitForCachedFragmentInjected, IsFragmentCacheFull, ringVars,
        flagVars, switchVars, trackVars, injectVars, controlVars, ghostVars,
        countVars, NextInv, QuietInv, IInv, TypeOK
  <2> QED BY <2>1, <2>2, <2>3 DEF RingMove
<1>6. CASE GetFetchBuffer
  BY <1>6, RingFill
<1>7. CASE UpdateTSAfterFetch
  BY <1>7, RingPublish
<1>8. CASE UpdateTSAfterFetchStats
  <2>1. /\ UNCHANGED <<ringVars, injected>>
        /\ injector' = "update" <=> injector = "update"
        /\ injector' \in {"slot", "inject"} => numberOfFragmentsCached > 0
    BY <1>8
    DEF UpdateTSAfterFetchStats, IsInit, NotifyCachedAudioFragmentAvailable,
        NextJob, ringVars, flagVars, switchVars, trackVars, controlVars,
        ghostVars, countVars, RingInv, QuietInv, IInv, TypeOK
  <2>2. RingInv' /\ Left' = Left /\ Accepted' = Accepted
    BY <2>1, RingFrame
  <2>3. NextInv'
    BY <1>8, <2>1, <2>2, RingTypes
    DEF UpdateTSAfterFetchStats, IsInit, NotifyCachedAudioFragmentAvailable,
        NextJob, ringVars, flagVars, switchVars, trackVars, controlVars,
        ghostVars, countVars, NextInv, QuietInv, IInv, TypeOK
  <2> QED BY <2>1, <2>2, <2>3 DEF RingMove
<1>9. CASE ClearLoadNewAudio
  BY <1>9 DEF ClearLoadNewAudio, QuietInv
<1>10. CASE SetEosReached
  <2>1. /\ UNCHANGED <<ringVars, injected>>
        /\ injector' = "update" <=> injector = "update"
        /\ injector' \in {"slot", "inject"} => numberOfFragmentsCached > 0
    BY <1>10
    DEF SetEosReached, ringVars, flagVars, switchVars, trackVars, injectVars,
        controlVars, ghostVars, countVars, RingInv, QuietInv, IInv, TypeOK
  <2>2. RingInv' /\ Left' = Left /\ Accepted' = Accepted
    BY <2>1, RingFrame
  <2>3. NextInv'
    BY <1>10, <2>1, <2>2, RingTypes
    DEF SetEosReached, ringVars, flagVars, switchVars, trackVars, injectVars,
        controlVars, ghostVars, countVars, NextInv, QuietInv, IInv, TypeOK
  <2> QED BY <2>1, <2>2, <2>3 DEF RingMove
<1>11. CASE AbortWaitAfterEos
  <2>1. /\ UNCHANGED <<ringVars, injected>>
        /\ injector' = "update" <=> injector = "update"
        /\ injector' \in {"slot", "inject"} => numberOfFragmentsCached > 0
    BY <1>11
    DEF AbortWaitAfterEos, NotifyFetched, ringVars, flagVars, switchVars,
        trackVars, controlVars, ghostVars, countVars, RingInv, QuietInv,
        IInv, TypeOK
  <2>2. RingInv' /\ Left' = Left /\ Accepted' = Accepted
    BY <2>1, RingFrame
  <2>3. NextInv'
    BY <1>11, <2>1, <2>2, RingTypes
    DEF AbortWaitAfterEos, NotifyFetched, ringVars, flagVars, switchVars,
        trackVars, controlVars, ghostVars, countVars, NextInv, QuietInv,
        IInv, TypeOK
  <2> QED BY <2>1, <2>2, <2>3 DEF RingMove
<1>12. CASE SwitchAudioTrack
  BY <1>12 DEF SwitchAudioTrack, QuietInv
<1>13. CASE FlushFragments
  BY <1>13 DEF FlushFragments, QuietInv
<1>14. CASE FlushCount
  BY <1>14 DEF FlushCount, QuietInv
<1>15. CASE Retarget
  BY <1>15 DEF Retarget, QuietInv
<1>16. CASE RetargetFails
  BY <1>16 DEF RetargetFails, QuietInv
<1>17. CASE ClearRefreshAudio
  BY <1>17 DEF ClearRefreshAudio, QuietInv
<1>18. CASE InjectorTop
  <2>1. /\ UNCHANGED <<ringVars, injected>>
        /\ injector' = "update" <=> injector = "update"
        /\ injector' \in {"slot", "inject"} => numberOfFragmentsCached > 0
    BY <1>18
    DEF InjectorTop, ringVars, switchVars, trackVars, fetchVars, controlVars,
        ghostVars, countVars, RingInv, QuietInv, IInv, TypeOK
  <2>2. RingInv' /\ Left' = Left /\ Accepted' = Accepted
    BY <2>1, RingFrame
  <2>3. NextInv'
    BY <1>18, <2>1, <2>2, RingTypes
    DEF InjectorTop, ringVars, switchVars, trackVars, fetchVars, controlVars,
        ghostVars, countVars, NextInv, QuietInv, IInv, TypeOK
  <2> QED BY <2>1, <2>2, <2>3 DEF RingMove
<1>19. CASE CheckLoading
  <2>1. /\ UNCHANGED <<ringVars, injected>>
        /\ injector' = "update" <=> injector = "update"
        /\ injector' \in {"slot", "inject"} => numberOfFragmentsCached > 0
    BY <1>19
    DEF CheckLoading, Loading, ringVars, flagVars, switchVars, trackVars,
        fetchVars, controlVars, ghostVars, countVars, RingInv, QuietInv,
        IInv, TypeOK
  <2>2. RingInv' /\ Left' = Left /\ Accepted' = Accepted
    BY <2>1, RingFrame
  <2>3. NextInv'
    BY <1>19, <2>1, <2>2, RingTypes
    DEF CheckLoading, Loading, ringVars, flagVars, switchVars, trackVars,
        fetchVars, controlVars, ghostVars, countVars, NextInv, QuietInv,
        IInv, TypeOK
  <2> QED BY <2>1, <2>2, <2>3 DEF RingMove
<1>20. CASE WaitForCachedAudioFragmentAvailable
  <2>1. /\ UNCHANGED <<ringVars, injected>>
        /\ injector' = "update" <=> injector = "update"
        /\ injector' \in {"slot", "inject"} => numberOfFragmentsCached > 0
    BY <1>20
    DEF WaitForCachedAudioFragmentAvailable, ringVars, flagVars, switchVars,
        trackVars, fetchVars, controlVars, ghostVars, countVars, RingInv,
        QuietInv, IInv, TypeOK
  <2>2. RingInv' /\ Left' = Left /\ Accepted' = Accepted
    BY <2>1, RingFrame
  <2>3. NextInv'
    BY <1>20, <2>1, <2>2, RingTypes
    DEF WaitForCachedAudioFragmentAvailable, ringVars, flagVars, switchVars,
        trackVars, fetchVars, controlVars, ghostVars, countVars, NextInv,
        QuietInv, IInv, TypeOK
  <2> QED BY <2>1, <2>2, <2>3 DEF RingMove
<1>21. CASE WaitForCachedFragmentAvailable
  <2>1. /\ UNCHANGED <<ringVars, injected>>
        /\ injector' = "update" <=> injector = "update"
        /\ injector' \in {"slot", "inject"} => numberOfFragmentsCached > 0
    BY <1>21
    DEF WaitForCachedFragmentAvailable, MustWait, FragmentAvailable,
        Available, ringVars, flagVars, switchVars, trackVars, fetchVars,
        controlVars, countVars, RingInv, QuietInv, IInv, TypeOK
  <2>2. RingInv' /\ Left' = Left /\ Accepted' = Accepted
    BY <2>1, RingFrame
  <2>3. NextInv'
    BY <1>21, <2>1, <2>2, RingTypes
    DEF WaitForCachedFragmentAvailable, MustWait, FragmentAvailable,
        Available, ringVars, flagVars, switchVars, trackVars, fetchVars,
        controlVars, countVars, NextInv, QuietInv, IInv, TypeOK
  <2> QED BY <2>1, <2>2, <2>3 DEF RingMove
<1>22. CASE WaitComplete
  <2>1. /\ UNCHANGED <<ringVars, injected>>
        /\ injector' = "update" <=> injector = "update"
        /\ injector' \in {"slot", "inject"} => numberOfFragmentsCached > 0
    BY <1>22
    DEF WaitComplete, FragmentAvailable, Available, ringVars, flagVars,
        switchVars, trackVars, fetchVars, controlVars, countVars, RingInv,
        QuietInv, IInv, TypeOK
  <2>2. RingInv' /\ Left' = Left /\ Accepted' = Accepted
    BY <2>1, RingFrame
  <2>3. NextInv'
    BY <1>22, <2>1, <2>2, RingTypes
    DEF WaitComplete, FragmentAvailable, Available, ringVars, flagVars,
        switchVars, trackVars, fetchVars, controlVars, countVars, NextInv,
        QuietInv, IInv, TypeOK
  <2> QED BY <2>1, <2>2, <2>3 DEF RingMove
<1>23. CASE NullFragment
  <2>1. /\ UNCHANGED <<ringVars, injected>>
        /\ injector' = "update" <=> injector = "update"
        /\ injector' \in {"slot", "inject"} => numberOfFragmentsCached > 0
    BY <1>23
    DEF NullFragment, Current, ringVars, flagVars, switchVars, trackVars,
        fetchVars, controlVars, countVars, RingInv, QuietInv, IInv, TypeOK
  <2>2. RingInv' /\ Left' = Left /\ Accepted' = Accepted
    BY <2>1, RingFrame
  <2>3. NextInv'
    BY <1>23, <2>1, <2>2, RingTypes
    DEF NullFragment, Current, ringVars, flagVars, switchVars, trackVars,
        fetchVars, controlVars, countVars, NextInv, QuietInv, IInv, TypeOK
  <2> QED BY <2>1, <2>2, <2>3 DEF RingMove
<1>24. CASE CheckForDiscontinuity
  BY <1>24, RingMark
<1>25. CASE ProcessAndInjectFragment
  BY <1>25, RingHand
<1>26. CASE DiscardFragment
  BY <1>26, RingHand
<1>27. CASE UpdateTSAfterInject
  BY <1>27, RingAdvance
<1>28. CASE InjectorEnd
  <2>1. /\ UNCHANGED <<ringVars, injected>>
        /\ injector' = "update" <=> injector = "update"
        /\ injector' \in {"slot", "inject"} => numberOfFragmentsCached > 0
    BY <1>28
    DEF InjectorEnd, Loading, ringVars, flagVars, switchVars, trackVars,
        fetchVars, controlVars, ghostVars, countVars, RingInv, QuietInv,
        IInv, TypeOK
  <2>2. RingInv' /\ Left' = Left /\ Accepted' = Accepted
    BY <2>1, RingFrame
  <2>3. NextInv'
    BY <1>28, <2>1, <2>2, RingTypes
    DEF InjectorEnd, Loading, ringVars, flagVars, switchVars, trackVars,
        fetchVars, controlVars, ghostVars, countVars, NextInv, QuietInv,
        IInv, TypeOK
  <2> QED BY <2>1, <2>2, <2>3 DEF RingMove
<1>29. CASE StartInjectLoop
  <2>1. /\ UNCHANGED <<ringVars, injected>>
        /\ injector' = "update" <=> injector = "update"
        /\ injector' \in {"slot", "inject"} => numberOfFragmentsCached > 0
    BY <1>29
    DEF StartInjectLoop, ringVars, switchVars, trackVars, fetchVars,
        countVars, RingInv, QuietInv, IInv, TypeOK
  <2>2. RingInv' /\ Left' = Left /\ Accepted' = Accepted
    BY <2>1, RingFrame
  <2>3. NextInv'
    BY <1>29, <2>1, <2>2, RingTypes
    DEF StartInjectLoop, ringVars, switchVars, trackVars, fetchVars,
        countVars, NextInv, QuietInv, IInv, TypeOK
  <2> QED BY <2>1, <2>2, <2>3 DEF RingMove
<1>30. CASE ProcessPendingDiscontinuity
  <2>1. /\ UNCHANGED <<ringVars, injected>>
        /\ injector' = "update" <=> injector = "update"
        /\ injector' \in {"slot", "inject"} => numberOfFragmentsCached > 0
    BY <1>30
    DEF ProcessPendingDiscontinuity, ringVars, flagVars, switchVars,
        trackVars, fetchVars, injectVars, ghostVars, countVars, RingInv,
        QuietInv, IInv, TypeOK
  <2>2. RingInv' /\ Left' = Left /\ Accepted' = Accepted
    BY <2>1, RingFrame
  <2>3. NextInv'
    BY <1>30, <2>1, <2>2, RingTypes
    DEF ProcessPendingDiscontinuity, ringVars, flagVars, switchVars,
        trackVars, fetchVars, injectVars, ghostVars, countVars, NextInv,
        QuietInv, IInv, TypeOK
  <2> QED BY <2>1, <2>2, <2>3 DEF RingMove
<1>31. CASE AbortWaitForCachedFragment
  <2>1. /\ UNCHANGED <<ringVars, injected>>
        /\ injector' = "update" <=> injector = "update"
        /\ injector' \in {"slot", "inject"} => numberOfFragmentsCached > 0
    BY <1>31
    DEF AbortWaitForCachedFragment, NotifyFetched, ringVars, switchVars,
        trackVars, fetchVars, ghostVars, countVars, RingInv, QuietInv, IInv,
        TypeOK
  <2>2. RingInv' /\ Left' = Left /\ Accepted' = Accepted
    BY <2>1, RingFrame
  <2>3. NextInv'
    BY <1>31, <2>1, <2>2, RingTypes
    DEF AbortWaitForCachedFragment, NotifyFetched, ringVars, switchVars,
        trackVars, fetchVars, ghostVars, countVars, NextInv, QuietInv, IInv,
        TypeOK
  <2> QED BY <2>1, <2>2, <2>3 DEF RingMove
<1>32. CASE StopInjectLoop
  <2>1. /\ UNCHANGED <<ringVars, injected>>
        /\ injector' = "update" <=> injector = "update"
        /\ injector' \in {"slot", "inject"} => numberOfFragmentsCached > 0
    BY <1>32
    DEF StopInjectLoop, NotifyCachedAudioFragmentAvailable, ringVars,
        flagVars, switchVars, trackVars, fetchVars, ghostVars, countVars,
        RingInv, QuietInv, IInv, TypeOK
  <2>2. RingInv' /\ Left' = Left /\ Accepted' = Accepted
    BY <2>1, RingFrame
  <2>3. NextInv'
    BY <1>32, <2>1, <2>2, RingTypes
    DEF StopInjectLoop, NotifyCachedAudioFragmentAvailable, ringVars,
        flagVars, switchVars, trackVars, fetchVars, ghostVars, countVars,
        NextInv, QuietInv, IInv, TypeOK
  <2> QED BY <2>1, <2>2, <2>3 DEF RingMove
<1>33. CASE JoinInjector
  <2>1. /\ UNCHANGED <<ringVars, injected>>
        /\ injector' = "update" <=> injector = "update"
        /\ injector' \in {"slot", "inject"} => numberOfFragmentsCached > 0
    BY <1>33
    DEF JoinInjector, ringVars, flagVars, switchVars, trackVars, fetchVars,
        ghostVars, countVars, RingInv, QuietInv, IInv, TypeOK
  <2>2. RingInv' /\ Left' = Left /\ Accepted' = Accepted
    BY <2>1, RingFrame
  <2>3. NextInv'
    BY <1>33, <2>1, <2>2, RingTypes
    DEF JoinInjector, ringVars, flagVars, switchVars, trackVars, fetchVars,
        ghostVars, countVars, NextInv, QuietInv, IInv, TypeOK
  <2> QED BY <2>1, <2>2, <2>3 DEF RingMove
<1>34. CASE AbortWaitForCachedAndFreeFragment
  <2>1. /\ UNCHANGED <<ringVars, injected>>
        /\ injector' = "update" <=> injector = "update"
        /\ injector' \in {"slot", "inject"} => numberOfFragmentsCached > 0
    BY <1>34
    DEF AbortWaitForCachedAndFreeFragment, NotifyInjected, NotifyFetched,
        ringVars, switchVars, trackVars, ghostVars, countVars, RingInv,
        QuietInv, IInv, TypeOK
  <2>2. RingInv' /\ Left' = Left /\ Accepted' = Accepted
    BY <2>1, RingFrame
  <2>3. NextInv'
    BY <1>34, <2>1, <2>2, RingTypes
    DEF AbortWaitForCachedAndFreeFragment, NotifyInjected, NotifyFetched,
        ringVars, switchVars, trackVars, ghostVars, countVars, NextInv,
        QuietInv, IInv, TypeOK
  <2> QED BY <2>1, <2>2, <2>3 DEF RingMove
<1>35. CASE JoinFetcher
  <2>1. /\ UNCHANGED <<ringVars, injected>>
        /\ injector' = "update" <=> injector = "update"
        /\ injector' \in {"slot", "inject"} => numberOfFragmentsCached > 0
    BY <1>35
    DEF JoinFetcher, ringVars, flagVars, switchVars, trackVars, fetchVars,
        injectVars, ghostVars, countVars, RingInv, QuietInv, IInv, TypeOK
  <2>2. RingInv' /\ Left' = Left /\ Accepted' = Accepted
    BY <2>1, RingFrame
  <2>3. NextInv'
    BY <1>35, <2>1, <2>2, RingTypes
    DEF JoinFetcher, ringVars, flagVars, switchVars, trackVars, fetchVars,
        injectVars, ghostVars, countVars, NextInv, QuietInv, IInv, TypeOK
  <2> QED BY <2>1, <2>2, <2>3 DEF RingMove
<1>36. CASE Stop
  <2>1. /\ UNCHANGED <<ringVars, injected>>
        /\ injector' = "update" <=> injector = "update"
        /\ injector' \in {"slot", "inject"} => numberOfFragmentsCached > 0
    BY <1>36
    DEF Stop, ringVars, flagVars, switchVars, trackVars, fetchVars,
        injectVars, ghostVars, countVars, RingInv, QuietInv, IInv, TypeOK
  <2>2. RingInv' /\ Left' = Left /\ Accepted' = Accepted
    BY <2>1, RingFrame
  <2>3. NextInv'
    BY <1>36, <2>1, <2>2, RingTypes
    DEF Stop, ringVars, flagVars, switchVars, trackVars, fetchVars,
        injectVars, ghostVars, countVars, NextInv, QuietInv, IInv, TypeOK
  <2> QED BY <2>1, <2>2, <2>3 DEF RingMove
<1>37. CASE Detach
  <2>1. /\ UNCHANGED <<ringVars, injected>>
        /\ injector' = "update" <=> injector = "update"
        /\ injector' \in {"slot", "inject"} => numberOfFragmentsCached > 0
    BY <1>37
    DEF Detach, ringVars, flagVars, switchVars, trackVars, fetchVars,
        injectVars, ghostVars, countVars, RingInv, QuietInv, IInv, TypeOK
  <2>2. RingInv' /\ Left' = Left /\ Accepted' = Accepted
    BY <2>1, RingFrame
  <2>3. NextInv'
    BY <1>37, <2>1, <2>2, RingTypes
    DEF Detach, ringVars, flagVars, switchVars, trackVars, fetchVars,
        injectVars, ghostVars, countVars, NextInv, QuietInv, IInv, TypeOK
  <2> QED BY <2>1, <2>2, <2>3 DEF RingMove
<1>38. CASE RefreshTrack
  <2>1. /\ UNCHANGED <<ringVars, injected>>
        /\ injector' = "update" <=> injector = "update"
        /\ injector' \in {"slot", "inject"} => numberOfFragmentsCached > 0
    BY <1>38
    DEF RefreshTrack, ringVars, flagVars, trackVars, fetchVars, injectVars,
        ghostVars, RingInv, QuietInv, IInv, TypeOK
  <2>2. RingInv' /\ Left' = Left /\ Accepted' = Accepted
    BY <2>1, RingFrame
  <2>3. NextInv'
    BY <1>38, <2>1, <2>2, RingTypes
    DEF RefreshTrack, ringVars, flagVars, trackVars, fetchVars, injectVars,
        ghostVars, NextInv, QuietInv, IInv, TypeOK
  <2> QED BY <2>1, <2>2, <2>3 DEF RingMove
<1>39. CASE RestartForOtherTracks
  <2>1. /\ UNCHANGED <<ringVars, injected>>
        /\ injector' = "update" <=> injector = "update"
        /\ injector' \in {"slot", "inject"} => numberOfFragmentsCached > 0
    BY <1>39
    DEF RestartForOtherTracks, ringVars, flagVars, switchVars, trackVars,
        fetchVars, injectVars, ghostVars, RingInv, QuietInv, IInv, TypeOK
  <2>2. RingInv' /\ Left' = Left /\ Accepted' = Accepted
    BY <2>1, RingFrame
  <2>3. NextInv'
    BY <1>39, <2>1, <2>2, RingTypes
    DEF RestartForOtherTracks, ringVars, flagVars, switchVars, trackVars,
        fetchVars, injectVars, ghostVars, NextInv, QuietInv, IInv, TypeOK
  <2> QED BY <2>1, <2>2, <2>3 DEF RingMove
<1>40. CASE SpuriousWakeup
  <2>1. /\ UNCHANGED <<ringVars, injected>>
        /\ injector' = "update" <=> injector = "update"
        /\ injector' \in {"slot", "inject"} => numberOfFragmentsCached > 0
    BY <1>40
    DEF SpuriousWakeup, ringVars, flagVars, switchVars, trackVars, fetchVars,
        controlVars, ghostVars, RingInv, QuietInv, IInv, TypeOK
  <2>2. RingInv' /\ Left' = Left /\ Accepted' = Accepted
    BY <2>1, RingFrame
  <2>3. NextInv'
    BY <1>40, <2>1, <2>2, RingTypes
    DEF SpuriousWakeup, ringVars, flagVars, switchVars, trackVars, fetchVars,
        controlVars, ghostVars, NextInv, QuietInv, IInv, TypeOK
  <2> QED BY <2>1, <2>2, <2>3 DEF RingMove
<1>41. CASE UNCHANGED vars
  <2>1. /\ UNCHANGED <<ringVars, injected>>
        /\ injector' = "update" <=> injector = "update"
        /\ injector' \in {"slot", "inject"} => numberOfFragmentsCached > 0
    BY <1>41
    DEF vars, trackVars, ringVars, flagVars, switchVars, fetchVars,
        injectVars, controlVars, ghostVars, countVars, RingInv, QuietInv,
        IInv, TypeOK
  <2>2. RingInv' /\ Left' = Left /\ Accepted' = Accepted
    BY <2>1, RingFrame
  <2>3. NextInv'
    BY <1>41, <2>1, <2>2, RingTypes
    DEF vars, trackVars, ringVars, flagVars, switchVars, fetchVars,
        injectVars, controlVars, ghostVars, countVars, NextInv, QuietInv,
        IInv, TypeOK
  <2> QED BY <2>1, <2>2, <2>3 DEF RingMove
<1> QED
  BY <1>1, <1>2, <1>3, <1>4, <1>5, <1>6, <1>7, <1>8, <1>9, <1>10, <1>11,
     <1>12, <1>13, <1>14, <1>15, <1>16, <1>17, <1>18, <1>19, <1>20, <1>21,
     <1>22, <1>23, <1>24, <1>25, <1>26, <1>27, <1>28, <1>29, <1>30, <1>31,
     <1>32, <1>33, <1>34, <1>35, <1>36, <1>37, <1>38, <1>39, <1>40, <1>41
  DEF Next, FetcherStep, InjectorStep, ControllerStep, Request

(* A stop at a discontinuity marks the fragment after the last injected    *)
(* one, and the injector goes on only in a new pipeline.                   *)
StoppedInv == StopInv /\ DiscontinuityWaitsForPipeline

LEMMA StoppedStep ==
  ASSUME IInv, QuietInv, RingInv, NextInv, StoppedInv, MaxSwitches = 0,
         [Next]_vars
  PROVE  StoppedInv'
<1> USE MediaTrackAssumption
<1>1. CASE DownloadFragment
  BY <1>1
  DEF DownloadFragment, IsInit, IsFragmentCacheFull, ringVars, flagVars,
      switchVars, trackVars, injectVars, controlVars, ghostVars, countVars,
      QuietInv, StoppedInv, StopInv, Ending, DiscontinuityWaitsForPipeline,
      IInv, TypeOK
<1>2. CASE SkipDownload
  BY <1>2
  DEF SkipDownload, IsInit, NextJob, ringVars, flagVars, switchVars,
      trackVars, injectVars, controlVars, ghostVars, countVars, QuietInv,
      StoppedInv, StopInv, Ending, DiscontinuityWaitsForPipeline, IInv,
      TypeOK
<1>3. CASE FetcherExit
  BY <1>3
  DEF FetcherExit, ringVars, flagVars, switchVars, trackVars, injectVars,
      controlVars, ghostVars, countVars, QuietInv, StoppedInv, StopInv,
      Ending, DiscontinuityWaitsForPipeline, IInv, TypeOK
<1>4. CASE OnFragmentDownloadSuccess
  BY <1>4
  DEF OnFragmentDownloadSuccess, NextJob, ringVars, flagVars, switchVars,
      trackVars, injectVars, controlVars, ghostVars, countVars, QuietInv,
      StoppedInv, StopInv, Ending, DiscontinuityWaitsForPipeline, IInv,
      TypeOK
<1>5. CASE WaitForCachedFragmentInjected
  BY <1>5
  DEF WaitForCachedFragmentInjected, IsFragmentCacheFull, ringVars, flagVars,
      switchVars, trackVars, injectVars, controlVars, ghostVars, countVars,
      QuietInv, StoppedInv, StopInv, Ending, DiscontinuityWaitsForPipeline,
      IInv, TypeOK
<1>6. CASE GetFetchBuffer
  BY <1>6
  DEF GetFetchBuffer, flagVars, switchVars, trackVars, injectVars,
      controlVars, ghostVars, countVars, QuietInv, StoppedInv, StopInv,
      Ending, DiscontinuityWaitsForPipeline, IInv, TypeOK
<1>7. CASE UpdateTSAfterFetch
  BY <1>7
  DEF UpdateTSAfterFetch, NotifyFetched, flagVars, switchVars, trackVars,
      controlVars, ghostVars, countVars, QuietInv, StoppedInv, StopInv,
      Ending, DiscontinuityWaitsForPipeline, IInv, TypeOK
<1>8. CASE UpdateTSAfterFetchStats
  BY <1>8
  DEF UpdateTSAfterFetchStats, IsInit, NotifyCachedAudioFragmentAvailable,
      NextJob, ringVars, flagVars, switchVars, trackVars, controlVars,
      ghostVars, countVars, QuietInv, StoppedInv, StopInv, Ending,
      DiscontinuityWaitsForPipeline, IInv, TypeOK
<1>9. CASE ClearLoadNewAudio
  BY <1>9 DEF ClearLoadNewAudio, QuietInv
<1>10. CASE SetEosReached
  BY <1>10
  DEF SetEosReached, ringVars, flagVars, switchVars, trackVars, injectVars,
      controlVars, ghostVars, countVars, QuietInv, StoppedInv, StopInv,
      Ending, DiscontinuityWaitsForPipeline, IInv, TypeOK
<1>11. CASE AbortWaitAfterEos
  BY <1>11
  DEF AbortWaitAfterEos, NotifyFetched, ringVars, flagVars, switchVars,
      trackVars, controlVars, ghostVars, countVars, QuietInv, StoppedInv,
      StopInv, Ending, DiscontinuityWaitsForPipeline, IInv, TypeOK
<1>12. CASE SwitchAudioTrack
  BY <1>12 DEF SwitchAudioTrack, QuietInv
<1>13. CASE FlushFragments
  BY <1>13 DEF FlushFragments, QuietInv
<1>14. CASE FlushCount
  BY <1>14 DEF FlushCount, QuietInv
<1>15. CASE Retarget
  BY <1>15 DEF Retarget, QuietInv
<1>16. CASE RetargetFails
  BY <1>16 DEF RetargetFails, QuietInv
<1>17. CASE ClearRefreshAudio
  BY <1>17 DEF ClearRefreshAudio, QuietInv
<1>18. CASE InjectorTop
  BY <1>18
  DEF InjectorTop, ringVars, switchVars, trackVars, fetchVars, controlVars,
      ghostVars, countVars, QuietInv, StoppedInv, StopInv, Ending,
      DiscontinuityWaitsForPipeline, IInv, TypeOK
<1>19. CASE CheckLoading
  BY <1>19
  DEF CheckLoading, Loading, ringVars, flagVars, switchVars, trackVars,
      fetchVars, controlVars, ghostVars, countVars, QuietInv, StoppedInv,
      StopInv, Ending, DiscontinuityWaitsForPipeline, IInv, TypeOK
<1>20. CASE WaitForCachedAudioFragmentAvailable
  BY <1>20
  DEF WaitForCachedAudioFragmentAvailable, ringVars, flagVars, switchVars,
      trackVars, fetchVars, controlVars, ghostVars, countVars, QuietInv,
      StoppedInv, StopInv, Ending, DiscontinuityWaitsForPipeline, IInv,
      TypeOK
<1>21. CASE WaitForCachedFragmentAvailable
  BY <1>21
  DEF WaitForCachedFragmentAvailable, MustWait, FragmentAvailable, Available,
      ringVars, flagVars, switchVars, trackVars, fetchVars, controlVars,
      countVars, QuietInv, StoppedInv, StopInv, Ending,
      DiscontinuityWaitsForPipeline, IInv, TypeOK
<1>22. CASE WaitComplete
  BY <1>22
  DEF WaitComplete, FragmentAvailable, Available, ringVars, flagVars,
      switchVars, trackVars, fetchVars, controlVars, countVars, QuietInv,
      StoppedInv, StopInv, Ending, DiscontinuityWaitsForPipeline, IInv,
      TypeOK
<1>23. CASE NullFragment
  BY <1>23
  DEF NullFragment, Current, ringVars, flagVars, switchVars, trackVars,
      fetchVars, controlVars, countVars, QuietInv, StoppedInv, StopInv,
      Ending, DiscontinuityWaitsForPipeline, IInv, TypeOK
<1>24. CASE CheckForDiscontinuity
  <2>1. injector = "slot" /\ Left = Len(injected) /\ numberOfFragmentsCached > 0
    BY <1>24 DEF CheckForDiscontinuity, Left, RingInv
  <2>2. Current.number = Len(injected) + 1
    BY <2>1, CurrentIsNext
  <2>3. ~ discontinuityProcessed
    BY <2>1 DEF StoppedInv, StopInv, Ending
  <2>4. \A d \in stoppedAt : d[2] < pipeline
    BY <2>3 DEF StoppedInv, StopInv
  <2>5. UNCHANGED <<injected, pipeline, controlVars, trackVars, abortInject>>
    BY <1>24 DEF CheckForDiscontinuity
  <2>6. CASE UNCHANGED <<discontinuityProcessed, stoppedAt>>
    BY <2>1, <2>3, <2>4, <2>5, <2>6
    DEF StoppedInv, StopInv, Ending, DiscontinuityWaitsForPipeline, controlVars,
        trackVars
  <2>7. CASE /\ injector' = "end" /\ ret' = FALSE /\ discontinuityProcessed'
             /\ stoppedAt' = stoppedAt \cup {<<Current.number, pipeline>>}
    <3>1. StopInv'
      BY <2>2, <2>4, <2>5, <2>7
      DEF StopInv, Ending, StoppedInv, controlVars, trackVars
    <3>2. ASSUME NEW i \in 1 .. Len(injected), NEW d \in stoppedAt',
                 injected[i].number >= d[1]
          PROVE  injected[i].pipeline > d[2]
      <4>1. injected[i].number = i /\ Len(injected) \in Nat
        BY RingTypes DEF RingInv
      <4>2. d \in stoppedAt
        BY <2>2, <2>7, <3>2, <4>1
      <4> QED BY <3>2, <4>2 DEF StoppedInv, DiscontinuityWaitsForPipeline
    <3>3. DiscontinuityWaitsForPipeline'
      BY <2>5, <3>2 DEF DiscontinuityWaitsForPipeline
    <3> QED BY <3>1, <3>3 DEF StoppedInv
  <2> QED BY <1>24, <2>6, <2>7 DEF CheckForDiscontinuity
<1>25. CASE ProcessAndInjectFragment
  <2>1. ~ discontinuityProcessed
    BY <1>25 DEF ProcessAndInjectFragment, StoppedInv, StopInv, Ending
  <2>2. UNCHANGED <<flagVars, controlVars, trackVars, pipeline, stoppedAt>>
    BY <1>25 DEF ProcessAndInjectFragment
  <2>3. \A d \in stoppedAt : d[2] < pipeline
    BY <2>1 DEF StoppedInv, StopInv
  <2>4. injector = "inject"
    BY <1>25 DEF ProcessAndInjectFragment
  <2>5. StopInv'
    BY <2>1, <2>2, <2>3, <2>4
    DEF StoppedInv, StopInv, Ending, flagVars, controlVars, trackVars
  <2>6. ASSUME NEW i \in 1 .. Len(injected'), NEW d \in stoppedAt,
               injected'[i].number >= d[1]
        PROVE  injected'[i].pipeline > d[2]
    <3>1. CASE i = Len(injected) + 1
      <4>1. injected'[i].pipeline = pipeline
        BY <1>25, <3>1, RingHand
      <4>2. d[2] \in Nat /\ pipeline \in Nat
        BY DEF IInv, TypeOK
      <4> QED BY <2>3, <4>1, <4>2
    <3>2. CASE i # Len(injected) + 1
      <4>1. i \in 1 .. Len(injected) /\ injected'[i] = injected[i]
        BY <1>25, <3>2, RingHand, RingTypes
      <4> QED BY <2>6, <4>1 DEF StoppedInv, DiscontinuityWaitsForPipeline
    <3> QED BY <3>1, <3>2
  <2>7. DiscontinuityWaitsForPipeline'
    BY <2>2, <2>6 DEF DiscontinuityWaitsForPipeline
  <2> QED BY <2>5, <2>7 DEF StoppedInv
<1>26. CASE DiscardFragment
  <2>1. ~ discontinuityProcessed
    BY <1>26 DEF DiscardFragment, StoppedInv, StopInv, Ending
  <2>2. UNCHANGED <<flagVars, controlVars, trackVars, pipeline, stoppedAt>>
    BY <1>26 DEF DiscardFragment
  <2>3. \A d \in stoppedAt : d[2] < pipeline
    BY <2>1 DEF StoppedInv, StopInv
  <2>4. injector = "inject"
    BY <1>26 DEF DiscardFragment
  <2>5. StopInv'
    BY <2>1, <2>2, <2>3, <2>4
    DEF StoppedInv, StopInv, Ending, flagVars, controlVars, trackVars
  <2>6. ASSUME NEW i \in 1 .. Len(injected'), NEW d \in stoppedAt,
               injected'[i].number >= d[1]
        PROVE  injected'[i].pipeline > d[2]
    <3>1. CASE i = Len(injected) + 1
      <4>1. injected'[i].pipeline = pipeline
        BY <1>26, <3>1, RingHand
      <4>2. d[2] \in Nat /\ pipeline \in Nat
        BY DEF IInv, TypeOK
      <4> QED BY <2>3, <4>1, <4>2
    <3>2. CASE i # Len(injected) + 1
      <4>1. i \in 1 .. Len(injected) /\ injected'[i] = injected[i]
        BY <1>26, <3>2, RingHand, RingTypes
      <4> QED BY <2>6, <4>1 DEF StoppedInv, DiscontinuityWaitsForPipeline
    <3> QED BY <3>1, <3>2
  <2>7. DiscontinuityWaitsForPipeline'
    BY <2>2, <2>6 DEF DiscontinuityWaitsForPipeline
  <2> QED BY <2>5, <2>7 DEF StoppedInv
<1>27. CASE UpdateTSAfterInject
  BY <1>27
  DEF UpdateTSAfterInject, NotifyInjected, flagVars, switchVars, trackVars,
      controlVars, ghostVars, countVars, QuietInv, StoppedInv, StopInv,
      Ending, DiscontinuityWaitsForPipeline, IInv, TypeOK
<1>28. CASE InjectorEnd
  BY <1>28
  DEF InjectorEnd, Loading, ringVars, flagVars, switchVars, trackVars,
      fetchVars, controlVars, ghostVars, countVars, QuietInv, StoppedInv,
      StopInv, Ending, DiscontinuityWaitsForPipeline, IInv, TypeOK
<1>29. CASE StartInjectLoop
  <2>1. \A d \in stoppedAt : d[2] \in Nat /\ d[2] <= pipeline
    BY DEF StoppedInv, StopInv, IInv, TypeOK
  <2>2. /\ pipeline' = pipeline + 1 /\ pipeline \in Nat
        /\ UNCHANGED <<injected, stoppedAt>>
        /\ ~ discontinuityProcessed' /\ ~ abortInject' /\ controller' = "idle"
    BY <1>29 DEF StartInjectLoop, IInv, TypeOK
  <2>3. StopInv'
    BY <2>1, <2>2 DEF StopInv
  <2> QED BY <2>2, <2>3 DEF StoppedInv, DiscontinuityWaitsForPipeline
<1>30. CASE ProcessPendingDiscontinuity
  BY <1>30
  DEF ProcessPendingDiscontinuity, ringVars, flagVars, switchVars, trackVars,
      fetchVars, injectVars, ghostVars, countVars, QuietInv, StoppedInv,
      StopInv, Ending, DiscontinuityWaitsForPipeline, IInv, TypeOK
<1>31. CASE AbortWaitForCachedFragment
  BY <1>31
  DEF AbortWaitForCachedFragment, NotifyFetched, ringVars, switchVars,
      trackVars, fetchVars, ghostVars, countVars, QuietInv, StoppedInv,
      StopInv, Ending, DiscontinuityWaitsForPipeline, IInv, TypeOK
<1>32. CASE StopInjectLoop
  BY <1>32
  DEF StopInjectLoop, NotifyCachedAudioFragmentAvailable, ringVars, flagVars,
      switchVars, trackVars, fetchVars, ghostVars, countVars, QuietInv,
      StoppedInv, StopInv, Ending, DiscontinuityWaitsForPipeline, IInv,
      TypeOK
<1>33. CASE JoinInjector
  BY <1>33
  DEF JoinInjector, ringVars, flagVars, switchVars, trackVars, fetchVars,
      ghostVars, countVars, QuietInv, StoppedInv, StopInv, Ending,
      DiscontinuityWaitsForPipeline, IInv, TypeOK
<1>34. CASE AbortWaitForCachedAndFreeFragment
  BY <1>34
  DEF AbortWaitForCachedAndFreeFragment, NotifyInjected, NotifyFetched,
      ringVars, switchVars, trackVars, ghostVars, countVars, QuietInv,
      StoppedInv, StopInv, Ending, DiscontinuityWaitsForPipeline, IInv,
      TypeOK
<1>35. CASE JoinFetcher
  BY <1>35
  DEF JoinFetcher, ringVars, flagVars, switchVars, trackVars, fetchVars,
      injectVars, ghostVars, countVars, QuietInv, StoppedInv, StopInv,
      Ending, DiscontinuityWaitsForPipeline, IInv, TypeOK
<1>36. CASE Stop
  BY <1>36
  DEF Stop, ringVars, flagVars, switchVars, trackVars, fetchVars, injectVars,
      ghostVars, countVars, QuietInv, StoppedInv, StopInv, Ending,
      DiscontinuityWaitsForPipeline, IInv, TypeOK
<1>37. CASE Detach
  BY <1>37
  DEF Detach, ringVars, flagVars, switchVars, trackVars, fetchVars,
      injectVars, ghostVars, countVars, QuietInv, StoppedInv, StopInv,
      Ending, DiscontinuityWaitsForPipeline, IInv, TypeOK
<1>38. CASE RefreshTrack
  BY <1>38
  DEF RefreshTrack, ringVars, flagVars, trackVars, fetchVars, injectVars,
      ghostVars, QuietInv, StoppedInv, StopInv, Ending,
      DiscontinuityWaitsForPipeline, IInv, TypeOK
<1>39. CASE RestartForOtherTracks
  BY <1>39
  DEF RestartForOtherTracks, ringVars, flagVars, switchVars, trackVars,
      fetchVars, injectVars, ghostVars, QuietInv, StoppedInv, StopInv,
      Ending, DiscontinuityWaitsForPipeline, IInv, TypeOK
<1>40. CASE SpuriousWakeup
  BY <1>40
  DEF SpuriousWakeup, ringVars, flagVars, switchVars, trackVars, fetchVars,
      controlVars, ghostVars, QuietInv, StoppedInv, StopInv, Ending,
      DiscontinuityWaitsForPipeline, IInv, TypeOK
<1>41. CASE UNCHANGED vars
  BY <1>41
  DEF vars, trackVars, ringVars, flagVars, switchVars, fetchVars, injectVars,
      controlVars, ghostVars, countVars, QuietInv, StoppedInv, StopInv,
      Ending, DiscontinuityWaitsForPipeline, IInv, TypeOK
<1> QED
  BY <1>1, <1>2, <1>3, <1>4, <1>5, <1>6, <1>7, <1>8, <1>9, <1>10, <1>11,
     <1>12, <1>13, <1>14, <1>15, <1>16, <1>17, <1>18, <1>19, <1>20, <1>21,
     <1>22, <1>23, <1>24, <1>25, <1>26, <1>27, <1>28, <1>29, <1>30, <1>31,
     <1>32, <1>33, <1>34, <1>35, <1>36, <1>37, <1>38, <1>39, <1>40, <1>41
  DEF Next, FetcherStep, InjectorStep, ControllerStep, Request

LEMMA EosStep ==
  ASSUME IInv, QuietInv, RingInv, NextInv, StoppedInv, EosAfterLastFragment,
         MaxSwitches = 0, [Next]_vars
  PROVE  EosAfterLastFragment'
<1> USE MediaTrackAssumption
<1>1. CASE DownloadFragment
  BY <1>1
  DEF DownloadFragment, IsInit, IsFragmentCacheFull, ringVars, flagVars,
      switchVars, trackVars, injectVars, controlVars, ghostVars, countVars,
      QuietInv, EosAfterLastFragment, IInv, TypeOK
<1>2. CASE SkipDownload
  BY <1>2
  DEF SkipDownload, IsInit, NextJob, ringVars, flagVars, switchVars,
      trackVars, injectVars, controlVars, ghostVars, countVars, QuietInv,
      EosAfterLastFragment, IInv, TypeOK
<1>3. CASE FetcherExit
  BY <1>3
  DEF FetcherExit, ringVars, flagVars, switchVars, trackVars, injectVars,
      controlVars, ghostVars, countVars, QuietInv, EosAfterLastFragment,
      IInv, TypeOK
<1>4. CASE OnFragmentDownloadSuccess
  BY <1>4
  DEF OnFragmentDownloadSuccess, NextJob, ringVars, flagVars, switchVars,
      trackVars, injectVars, controlVars, ghostVars, countVars, QuietInv,
      EosAfterLastFragment, IInv, TypeOK
<1>5. CASE WaitForCachedFragmentInjected
  BY <1>5
  DEF WaitForCachedFragmentInjected, IsFragmentCacheFull, ringVars, flagVars,
      switchVars, trackVars, injectVars, controlVars, ghostVars, countVars,
      QuietInv, EosAfterLastFragment, IInv, TypeOK
<1>6. CASE GetFetchBuffer
  BY <1>6
  DEF GetFetchBuffer, flagVars, switchVars, trackVars, injectVars,
      controlVars, ghostVars, countVars, QuietInv, EosAfterLastFragment,
      IInv, TypeOK
<1>7. CASE UpdateTSAfterFetch
  BY <1>7
  DEF UpdateTSAfterFetch, NotifyFetched, flagVars, switchVars, trackVars,
      controlVars, ghostVars, countVars, QuietInv, EosAfterLastFragment,
      IInv, TypeOK
<1>8. CASE UpdateTSAfterFetchStats
  BY <1>8
  DEF UpdateTSAfterFetchStats, IsInit, NotifyCachedAudioFragmentAvailable,
      NextJob, ringVars, flagVars, switchVars, trackVars, controlVars,
      ghostVars, countVars, QuietInv, EosAfterLastFragment, IInv, TypeOK
<1>9. CASE ClearLoadNewAudio
  BY <1>9 DEF ClearLoadNewAudio, QuietInv
<1>10. CASE SetEosReached
  BY <1>10
  DEF SetEosReached, ringVars, flagVars, switchVars, trackVars, injectVars,
      controlVars, ghostVars, countVars, QuietInv, EosAfterLastFragment,
      IInv, TypeOK
<1>11. CASE AbortWaitAfterEos
  BY <1>11
  DEF AbortWaitAfterEos, NotifyFetched, ringVars, flagVars, switchVars,
      trackVars, controlVars, ghostVars, countVars, QuietInv,
      EosAfterLastFragment, IInv, TypeOK
<1>12. CASE SwitchAudioTrack
  BY <1>12 DEF SwitchAudioTrack, QuietInv
<1>13. CASE FlushFragments
  BY <1>13 DEF FlushFragments, QuietInv
<1>14. CASE FlushCount
  BY <1>14 DEF FlushCount, QuietInv
<1>15. CASE Retarget
  BY <1>15 DEF Retarget, QuietInv
<1>16. CASE RetargetFails
  BY <1>16 DEF RetargetFails, QuietInv
<1>17. CASE ClearRefreshAudio
  BY <1>17 DEF ClearRefreshAudio, QuietInv
<1>18. CASE InjectorTop
  BY <1>18
  DEF InjectorTop, ringVars, switchVars, trackVars, fetchVars, controlVars,
      ghostVars, countVars, QuietInv, EosAfterLastFragment, IInv, TypeOK
<1>19. CASE CheckLoading
  BY <1>19
  DEF CheckLoading, Loading, ringVars, flagVars, switchVars, trackVars,
      fetchVars, controlVars, ghostVars, countVars, QuietInv,
      EosAfterLastFragment, IInv, TypeOK
<1>20. CASE WaitForCachedAudioFragmentAvailable
  BY <1>20
  DEF WaitForCachedAudioFragmentAvailable, ringVars, flagVars, switchVars,
      trackVars, fetchVars, controlVars, ghostVars, countVars, QuietInv,
      EosAfterLastFragment, IInv, TypeOK
<1>21. CASE WaitForCachedFragmentAvailable
  <2>1. /\ UNCHANGED <<injected, controlVars, numberOfFragmentsCached>>
        /\ ~ Ending /\ Left = Len(injected)
        /\ eosSignalled' =>
             (eosSignalled \/ (eosReached /\ type # "subtitle" /\ ~ Available))
    BY <1>21
    DEF WaitForCachedFragmentAvailable, FragmentAvailable, Ending, Left,
        ringVars
  <2>2. ASSUME eosReached, type # "subtitle", ~ Available
        PROVE  Len(injected) = LastFragment \/ operation \in {"stop", "detach"}
    <3>1. CASE numberOfFragmentsCached = 0
      BY <2>1, <2>2, <3>1, RingTypes DEF NextInv, Accepted
    <3>2. CASE abort \/ abortInject
      BY <2>1, <2>2, <3>2 DEF QuietInv, StoppedInv, StopInv
    <3> QED BY <2>2, <3>1, <3>2 DEF Available
  <2> QED BY <2>1, <2>2 DEF EosAfterLastFragment, controlVars
<1>22. CASE WaitComplete
  <2>1. /\ UNCHANGED <<injected, controlVars, numberOfFragmentsCached>>
        /\ ~ Ending /\ Left = Len(injected)
        /\ eosSignalled' =>
             (eosSignalled \/ (eosReached /\ type # "subtitle" /\ ~ Available))
    BY <1>22
    DEF WaitComplete, FragmentAvailable, Ending, Left, ringVars
  <2>2. ASSUME eosReached, type # "subtitle", ~ Available
        PROVE  Len(injected) = LastFragment \/ operation \in {"stop", "detach"}
    <3>1. CASE numberOfFragmentsCached = 0
      BY <2>1, <2>2, <3>1, RingTypes DEF NextInv, Accepted
    <3>2. CASE abort \/ abortInject
      BY <2>1, <2>2, <3>2 DEF QuietInv, StoppedInv, StopInv
    <3> QED BY <2>2, <3>1, <3>2 DEF Available
  <2> QED BY <2>1, <2>2 DEF EosAfterLastFragment, controlVars
<1>23. CASE NullFragment
  BY <1>23, CurrentIsNext, RingTypes
  DEF NullFragment, RingInv, NoFragment
<1>24. CASE CheckForDiscontinuity
  BY <1>24
  DEF CheckForDiscontinuity, Current, MarkSeen, switchVars, trackVars,
      fetchVars, controlVars, countVars, QuietInv, EosAfterLastFragment,
      IInv, TypeOK
<1>25. CASE ProcessAndInjectFragment
  <2>1. numberOfFragmentsCached > 0 /\ Left = Len(injected)
    BY <1>25 DEF ProcessAndInjectFragment, RingInv, Left
  <2>2. Len(injected) # LastFragment
    BY <2>1, RingTypes, MediaTrackAssumption DEF NextInv
  <2> QED BY <1>25, <2>2 DEF ProcessAndInjectFragment, EosAfterLastFragment, controlVars
<1>26. CASE DiscardFragment
  <2>1. numberOfFragmentsCached > 0 /\ Left = Len(injected)
    BY <1>26 DEF DiscardFragment, RingInv, Left
  <2>2. Len(injected) # LastFragment
    BY <2>1, RingTypes, MediaTrackAssumption DEF NextInv
  <2> QED BY <1>26, <2>2 DEF DiscardFragment, EosAfterLastFragment, controlVars
<1>27. CASE UpdateTSAfterInject
  BY <1>27
  DEF UpdateTSAfterInject, NotifyInjected, flagVars, switchVars, trackVars,
      controlVars, ghostVars, countVars, QuietInv, EosAfterLastFragment,
      IInv, TypeOK
<1>28. CASE InjectorEnd
  BY <1>28
  DEF InjectorEnd, Loading, ringVars, flagVars, switchVars, trackVars,
      fetchVars, controlVars, ghostVars, countVars, QuietInv,
      EosAfterLastFragment, IInv, TypeOK
<1>29. CASE StartInjectLoop
  BY <1>29
  DEF StartInjectLoop, ringVars, switchVars, trackVars, fetchVars, countVars,
      QuietInv, EosAfterLastFragment, IInv, TypeOK
<1>30. CASE ProcessPendingDiscontinuity
  BY <1>30
  DEF ProcessPendingDiscontinuity, ringVars, flagVars, switchVars, trackVars,
      fetchVars, injectVars, ghostVars, countVars, QuietInv,
      EosAfterLastFragment, IInv, TypeOK
<1>31. CASE AbortWaitForCachedFragment
  BY <1>31
  DEF AbortWaitForCachedFragment, NotifyFetched, ringVars, switchVars,
      trackVars, fetchVars, ghostVars, countVars, QuietInv,
      EosAfterLastFragment, IInv, TypeOK
<1>32. CASE StopInjectLoop
  BY <1>32
  DEF StopInjectLoop, NotifyCachedAudioFragmentAvailable, ringVars, flagVars,
      switchVars, trackVars, fetchVars, ghostVars, countVars, QuietInv,
      EosAfterLastFragment, IInv, TypeOK
<1>33. CASE JoinInjector
  BY <1>33
  DEF JoinInjector, ringVars, flagVars, switchVars, trackVars, fetchVars,
      ghostVars, countVars, QuietInv, EosAfterLastFragment, IInv, TypeOK
<1>34. CASE AbortWaitForCachedAndFreeFragment
  BY <1>34
  DEF AbortWaitForCachedAndFreeFragment, NotifyInjected, NotifyFetched,
      ringVars, switchVars, trackVars, ghostVars, countVars, QuietInv,
      EosAfterLastFragment, IInv, TypeOK
<1>35. CASE JoinFetcher
  BY <1>35
  DEF JoinFetcher, ringVars, flagVars, switchVars, trackVars, fetchVars,
      injectVars, ghostVars, countVars, QuietInv, EosAfterLastFragment, IInv,
      TypeOK
<1>36. CASE Stop
  BY <1>36
  DEF Stop, ringVars, flagVars, switchVars, trackVars, fetchVars, injectVars,
      ghostVars, countVars, QuietInv, EosAfterLastFragment, IInv, TypeOK
<1>37. CASE Detach
  BY <1>37
  DEF Detach, ringVars, flagVars, switchVars, trackVars, fetchVars,
      injectVars, ghostVars, countVars, QuietInv, EosAfterLastFragment, IInv,
      TypeOK
<1>38. CASE RefreshTrack
  BY <1>38
  DEF RefreshTrack, ringVars, flagVars, trackVars, fetchVars, injectVars,
      ghostVars, QuietInv, EosAfterLastFragment, IInv, TypeOK
<1>39. CASE RestartForOtherTracks
  BY <1>39
  DEF RestartForOtherTracks, ringVars, flagVars, switchVars, trackVars,
      fetchVars, injectVars, ghostVars, QuietInv, EosAfterLastFragment, IInv,
      TypeOK
<1>40. CASE SpuriousWakeup
  BY <1>40
  DEF SpuriousWakeup, ringVars, flagVars, switchVars, trackVars, fetchVars,
      controlVars, ghostVars, QuietInv, EosAfterLastFragment, IInv, TypeOK
<1>41. CASE UNCHANGED vars
  BY <1>41
  DEF vars, trackVars, ringVars, flagVars, switchVars, fetchVars, injectVars,
      controlVars, ghostVars, countVars, QuietInv, EosAfterLastFragment,
      IInv, TypeOK
<1> QED
  BY <1>1, <1>2, <1>3, <1>4, <1>5, <1>6, <1>7, <1>8, <1>9, <1>10, <1>11,
     <1>12, <1>13, <1>14, <1>15, <1>16, <1>17, <1>18, <1>19, <1>20, <1>21,
     <1>22, <1>23, <1>24, <1>25, <1>26, <1>27, <1>28, <1>29, <1>30, <1>31,
     <1>32, <1>33, <1>34, <1>35, <1>36, <1>37, <1>38, <1>39, <1>40, <1>41
  DEF Next, FetcherStep, InjectorStep, ControllerStep, Request

LEMMA OrderInit ==
  ASSUME Init
  PROVE  QuietInv /\ RingInv /\ NextInv /\ StoppedInv /\ EosAfterLastFragment
<1> USE MediaTrackAssumption
<1>1. Left = 0 /\ Accepted = 0 /\ 0 % CacheSize = 0
  BY DEF Init, Left, Accepted
<1>2. QuietInv
  BY DEF Init, QuietInv
<1>3. RingInv
  BY <1>1 DEF Init, RingInv
<1>4. NextInv
  BY <1>1 DEF Init, NextInv
<1>5. StoppedInv /\ EosAfterLastFragment
  BY DEF Init, StoppedInv, StopInv, Ending, DiscontinuityWaitsForPipeline,
         EosAfterLastFragment
<1> QED BY <1>2, <1>3, <1>4, <1>5

(* The inductive invariant.                                               *)
OrderInv ==
  IInv /\ QuietInv /\ RingInv /\ NextInv /\ StoppedInv /\ EosAfterLastFragment

LEMMA OrderHolds ==
  ASSUME MaxSwitches = 0
  PROVE  Spec => []OrderInv
<1>1. Init => OrderInv
  BY InitInv, OrderInit DEF OrderInv
<1>2. OrderInv /\ [Next]_vars => OrderInv'
  BY StepInv, QuietStep, RingStep, StoppedStep, EosStep DEF OrderInv
<1> QED BY <1>1, <1>2, PTL DEF Spec

(* Without audio switches, a fragment at which injection stopped for a     *)
(* discontinuity reaches the pipeline only after the restart that follows  *)
(* its reconfiguration, and nothing behind it overtakes it.                *)
THEOREM DiscontinuityIsABarrier ==
  ASSUME MaxSwitches = 0
  PROVE  Spec => []DiscontinuityWaitsForPipeline
<1>1. OrderInv => DiscontinuityWaitsForPipeline
  BY DEF OrderInv, StoppedInv
<1> QED BY <1>1, OrderHolds, PTL

(* Without audio switches, EndOfStreamReached is called after the last     *)
(* fragment was injected, or while playback is being ended: an injector    *)
(* that is told to give up for a restart signals nothing.                  *)
THEOREM EosIsLast ==
  ASSUME MaxSwitches = 0
  PROVE  Spec => []EosAfterLastFragment
<1>1. OrderInv => EosAfterLastFragment
  BY DEF OrderInv
<1> QED BY <1>1, OrderHolds, PTL

------------------------------------------------------------------------------
(* The ring implements the bounded queue of FragmentQueue.                 *)

(* The queue, from the two numbers: the fragments injected are the first   *)
(* ones, and those that wait are the ones that follow.                     *)
QueueView ==
  /\ Len(injected) \in Nat /\ Accepted - Len(injected) \in 0 .. CacheSize
  /\ Handled = [i \in 1 .. Len(injected) |-> i]
  /\ Waiting = [i \in 1 .. Accepted - Len(injected) |-> Len(injected) + i]

LEMMA QueueIs ==
  ASSUME IInv, RingInv
  PROVE  QueueView
<1>1. Handled = [i \in 1 .. Len(injected) |-> i]
  BY DEF Handled, RingInv
<1> DEFINE h == IF injector = "update" THEN 1 ELSE 0
<1>2. h \in {0, 1} /\ Len(injected) = Left + h
  BY RingTypes DEF Left
<1>3. h <= numberOfFragmentsCached
  BY RingTypes DEF RingInv
<1>4. Waiting = [i \in 1 .. numberOfFragmentsCached - h |->
        mCachedFragment[(fragmentIdxToInject + h + i - 1) % CacheSize].number]
  BY DEF Waiting
<1> HIDE DEF h
<1>5. numberOfFragmentsCached - h = Accepted - Len(injected)
  BY <1>2, RingTypes
<1>6. ASSUME NEW i \in 1 .. numberOfFragmentsCached - h
      PROVE  mCachedFragment[(fragmentIdxToInject + h + i - 1) % CacheSize].number
               = Len(injected) + i
  <2> DEFINE x == h + i - 1
             k == Len(injected) + i
  <2>0. Left \in Nat /\ numberOfFragmentsCached \in Nat
    BY RingTypes
  <2>1. x \in Nat /\ k \in Left + 1 .. Accepted /\ Left + x = k - 1
    BY <1>2, <2>0 DEF Accepted
  <2>2. fragmentIdxToInject + h + i - 1 = (Left % CacheSize) + x
    BY <1>2, RingTypes, RemainderInRange DEF RingInv
  <2> HIDE DEF x, k
  <2>3. ((Left % CacheSize) + x) % CacheSize = (Left + x) % CacheSize
    BY <2>1, RingTypes, RemainderPlus
  <2>4. mCachedFragment[(k - 1) % CacheSize].number = k
    BY <2>1 DEF RingInv
  <2> QED BY <2>1, <2>2, <2>3, <2>4 DEF k
<1>7. Waiting = [i \in 1 .. Accepted - Len(injected) |-> Len(injected) + i]
  BY <1>4, <1>5, <1>6
<1>8. Accepted - Len(injected) \in 0 .. CacheSize
  BY <1>2, <1>3, <1>5, RingTypes
<1> QED BY <1>1, <1>7, <1>8, RingTypes DEF QueueView

(* Each way in which the two numbers move is a step of the queue.          *)
LEMMA QueueStep ==
  ASSUME QueueView, QueueView', RingMove, Accepted \in Nat,
         Accepted' <= LastFragment
  PROVE  [Queue!QueueNext]_(Queue!queueVars)
<1> DEFINE n == Len(injected)
           w == Accepted - n
<1>1. n \in Nat /\ w \in 0 .. CacheSize /\ n + w = Accepted
  BY DEF QueueView
<1>2. /\ Handled = [i \in 1 .. n |-> i] /\ Waiting = [i \in 1 .. w |-> n + i]
      /\ Len(Handled) = n /\ Len(Waiting) = w
  BY <1>1 DEF QueueView
<1>3. CASE Len(injected') = n /\ Accepted' = Accepted
  BY <1>2, <1>3 DEF QueueView, Queue!queueVars
<1>4. CASE Len(injected') = n /\ Accepted' = Accepted + 1
  <2>1. Accepted' - Len(injected') = w + 1
    BY <1>1, <1>4
  <2>2. Handled' = Handled /\ Waiting' = [i \in 1 .. w + 1 |-> n + i]
    BY <1>2, <1>4, <2>1 DEF QueueView
  <2>3. w < CacheSize /\ n + w < LastFragment
    BY <1>1, <1>4, <2>1, MediaTrackAssumption DEF QueueView
  <2> HIDE DEF n, w
  <2>4. Waiting' = Append(Waiting, n + w + 1)
    BY <1>1, <1>2, <2>2
  <2>5. Queue!Accept
    BY <1>2, <2>2, <2>3, <2>4 DEF Queue!Accept
  <2> QED BY <2>5 DEF Queue!QueueNext
<1>5. CASE Len(injected') = n + 1 /\ Accepted' = Accepted
  <2>1. Accepted' - Len(injected') = w - 1 /\ w - 1 \in Nat
    BY <1>1, <1>5 DEF QueueView
  <2>2. /\ Handled' = [i \in 1 .. n + 1 |-> i]
        /\ Waiting' = [i \in 1 .. w - 1 |-> n + 1 + i]
    BY <1>5, <2>1 DEF QueueView
  <2> HIDE DEF n, w
  <2>3. Waiting # <<>> /\ Head(Waiting) = n + 1
    <3>1. w >= 1
      BY <1>1, <2>1
    <3>2. Waiting # <<>>
      BY <1>2, <3>1
    <3>3. Waiting[1] = n + 1
      BY <1>1, <1>2, <3>1
    <3> QED BY <1>2, <3>2, <3>3
  <2>4. Tail(Waiting) = Waiting'
    BY <1>1, <1>2, <2>1, <2>2
  <2>5. Append(Handled, n + 1) = Handled'
    BY <1>1, <1>2, <2>2
  <2>6. Queue!Deliver
    BY <2>3, <2>4, <2>5 DEF Queue!Deliver
  <2> QED BY <2>6 DEF Queue!QueueNext
<1> QED BY <1>3, <1>4, <1>5 DEF RingMove

(* Without audio switches the ring, its two indices and its count, which   *)
(* three threads work on with and without the mutex, implement the bounded *)
(* queue: no fragment that was cached is lost, repeated or overtaken.      *)
THEOREM RingIsAQueue ==
  ASSUME MaxSwitches = 0
  PROVE  Spec => ImplementsFragmentQueue
<1>1. Init => Queue!QueueInit
  BY DEF Init, Queue!QueueInit, Waiting, Handled
<1>2. OrderInv => QueueView
  BY QueueIs DEF OrderInv
<1>3. OrderInv /\ [Next]_vars => RingMove
  BY RingStep DEF OrderInv
<1>4. OrderInv /\ OrderInv' /\ QueueView /\ QueueView' /\ RingMove
        => [Queue!QueueNext]_(Queue!queueVars)
  <2> SUFFICES ASSUME OrderInv, OrderInv', QueueView, QueueView', RingMove
               PROVE  [Queue!QueueNext]_(Queue!queueVars)
    OBVIOUS
  <2>1. Accepted \in Nat /\ Accepted' <= LastFragment
    BY RingTypes DEF OrderInv, NextInv
  <2> QED BY <2>1, QueueStep
<1> QED BY <1>1, <1>2, <1>3, <1>4, OrderHolds, PTL
      DEF Spec, ImplementsFragmentQueue, Queue!QueueSpec
=============================================================================
