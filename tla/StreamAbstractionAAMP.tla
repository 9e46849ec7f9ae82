----------------------- MODULE StreamAbstractionAAMP -----------------------
(***************************************************************************)
(* How the audio and the video injector of a stream take a discontinuity   *)
(* together (streamabstraction.cpp).  Where two periods do not join, the   *)
(* pipeline has to be drained and configured anew, so each injector stops  *)
(* at its first fragment of the new period, waits in ProcessDiscontinuity  *)
(* for the other, and sends an end of stream into the sink.  When the sink *)
(* has played both out, ProcessPendingDiscontinuity joins the injectors,   *)
(* configures the pipeline and starts them again.  A track that has        *)
(* nothing in the pipeline ignores its discontinuity and leaves a note for *)
(* the other; the buffer monitor of a track lets it go when no partner     *)
(* comes; the fetcher waits before a period until the discontinuity before *)
(* the last one has been dealt with.                                       *)
(*                                                                         *)
(* DASH at normal rate, without PTS restamping (the default) and with both *)
(* tracks enabled.  A media fragment lasts one unit, an init fragment      *)
(* none.  The waits for fragments and for free slots are those of          *)
(* MediaTrack, the threads that tear a stream down those of                *)
(* PrivateInstanceAAMP; here Stop and processing exclude each other.       *)
(***************************************************************************)
EXTENDS Naturals, Sequences, SequencesExt, FiniteSets

CONSTANTS
  LastPeriod,   (* number of periods                                       *)
  MaxFragments, (* media fragments of a period, per track                  *)
  MaxFailures,  (* bound: periods of a track whose media does not arrive   *)
  CacheSize     (* slots of the ring of a track                            *)

ASSUME StreamAssumption ==
  /\ LastPeriod \in Nat \ {0} /\ CacheSize \in Nat \ {0}
  /\ MaxFragments \in Nat \ {0} /\ MaxFailures \in Nat

VARIABLES
  content,       (* per track: the media fragments of a period              *)
  failed,        (* <<track, period>>: their downloads fail                 *)
  discontinuities, (* the periods that begin with a discontinuity          *)
  codecChanges,  (* those among them with another audio codec              *)
  mCurrentPeriod, (* of the fetcher                                        *)
  fetched,       (* per track: fragments fetched of that period            *)
  mIsPeriodChangeMarked,
  eosReached,    (* the tracks that have fetched everything                *)
  mAudiostateChangeCount, (* mESChangeStatus is that it is not zero        *)
  mCachedFragment, (* per track: the fragments in the ring                 *)
  injector,      (* per track: where its inject loop is                    *)
  abort,         (* the tracks with abort or abortInject set               *)
  totalInjectedDuration,
  mTrackState,   (* the tracks whose discontinuity bit is set              *)
  mIsDiscontinuityIgnored,
  mProcessingDiscontinuity,
  firstBufferProcessed, (* sink: the tracks that have pushed media         *)
  sinkEos,       (* sink: the tracks that have been sent an end of stream  *)
  eosSignalled,  (* sink: the end of both has been reported                *)
  loop,          (* the main loop: what it does about it                   *)
  stop,          (* how far Stop has come                                  *)
  retune,        (* a retune is scheduled                                  *)
  configured,    (* history: the period the pipeline is configured for     *)
  lastInjected,  (* history: per track, period of the last fragment        *)
  gaveUp         (* history: a track was let go by a monitor or the sink   *)

contentVars == <<content, failed, discontinuities, codecChanges>>
fetchVars   == <<mCurrentPeriod, fetched, eosReached>>
pairVars    == <<mTrackState, mIsDiscontinuityIgnored>>
sinkVars    == <<firstBufferProcessed, sinkEos, eosSignalled>>
history     == <<configured, lastInjected, gaveUp>>
vars == <<contentVars, fetchVars, mIsPeriodChangeMarked,
          mAudiostateChangeCount, mCachedFragment, injector, abort,
          totalInjectedDuration, pairVars, mProcessingDiscontinuity, sinkVars,
          loop, stop, retune, history>>

Tracks   == {"video", "audio"}
Periods  == 1..LastPeriod
Other(t) == IF t = "video" THEN "audio" ELSE "video"

Init ==
  /\ content \in [Tracks -> 1..MaxFragments]
  /\ failed \in {f \in SUBSET (Tracks \X Periods) : Cardinality(f) <= MaxFailures}
  /\ discontinuities \in SUBSET (2..LastPeriod)
  /\ codecChanges \in {{}, discontinuities}
  /\ mCurrentPeriod = 1
  /\ fetched = [t \in Tracks |-> 0]
  /\ mIsPeriodChangeMarked = FALSE
  /\ eosReached = {}
  /\ mAudiostateChangeCount = 0
  /\ mCachedFragment = [t \in Tracks |-> <<>>]
  /\ injector = [t \in Tracks |-> "loop"]
  /\ abort = {}
  /\ totalInjectedDuration = [t \in Tracks |-> 0]
  /\ mTrackState = {}
  /\ mIsDiscontinuityIgnored = {}
  /\ mProcessingDiscontinuity = {}
  /\ firstBufferProcessed = {}
  /\ sinkEos = {}
  /\ eosSignalled = FALSE
  /\ loop = "idle"
  /\ stop = "no"
  /\ retune = FALSE
  /\ configured = 1
  /\ lastInjected = [t \in Tracks |-> 1]
  /\ gaveUp = FALSE

At(t, label)   == injector[t] = label
Goto(t, label) == [injector EXCEPT ![t] = label]

(* What notify_one on mStateCond makes of the injectors i.                 *)
NotifyOne(i) ==
  LET waiting == {t \in Tracks : i[t] = "wait"} IN
  IF waiting = {} THEN {i} ELSE {[i EXCEPT ![t] = "woken"] : t \in waiting}

GetESChangeStatus == mAudiostateChangeCount # 0

------------------------------------------------------------------------------
(* The fetcher and its workers.                                            *)

(* A period begins with its init fragments, which carry the discontinuity. *)
Fragment(t) ==
  [period |-> mCurrentPeriod, media |-> fetched[t] > 0,
   discontinuity |-> fetched[t] = 0 /\ mCurrentPeriod \in discontinuities]

MediaOf(t, period) == IF <<t, period>> \in failed THEN 0 ELSE content[t]
PeriodFetched(t) == fetched[t] = MediaOf(t, mCurrentPeriod) + 1

CacheFragment(t) ==
  /\ stop = "no"
  /\ ~PeriodFetched(t)
  /\ Len(mCachedFragment[t]) < CacheSize
  /\ mCachedFragment' = [mCachedFragment EXCEPT ![t] = Append(@, Fragment(t))]
  /\ fetched' = [fetched EXCEPT ![t] = @ + 1]
  /\ UNCHANGED <<contentVars, mCurrentPeriod, mIsPeriodChangeMarked,
                 eosReached, mAudiostateChangeCount, injector, abort,
                 totalInjectedDuration, pairVars, mProcessingDiscontinuity,
                 sinkVars, loop, stop, retune, history>>

(* The fetcher goes on to the next period when the discontinuity of this   *)
(* one is dealt with, and marks the change if there is one to wait for.    *)
SelectPeriod ==
  LET next == mCurrentPeriod + 1 IN
  /\ stop = "no"
  /\ mCurrentPeriod < LastPeriod
  /\ \A t \in Tracks : PeriodFetched(t)
  /\ ~mIsPeriodChangeMarked
  /\ mCurrentPeriod' = next
  /\ fetched' = [t \in Tracks |-> 0]
  /\ mIsPeriodChangeMarked' = (next \in discontinuities)
  /\ mAudiostateChangeCount' =
       mAudiostateChangeCount + (IF next \in codecChanges THEN 1 ELSE 0)
  /\ UNCHANGED <<contentVars, eosReached, mCachedFragment, injector, abort,
                 totalInjectedDuration, pairVars, mProcessingDiscontinuity,
                 sinkVars, loop, stop, retune, history>>

(* The last job of a track; AbortWaitForCachedAndFreeFragment(false) in it *)
(* also notifies whoever waits for a discontinuity.                        *)
MarkEosReached(t) ==
  /\ stop = "no"
  /\ mCurrentPeriod = LastPeriod
  /\ PeriodFetched(t)
  /\ t \notin eosReached
  /\ eosReached' = eosReached \union {t}
  /\ injector' \in NotifyOne(injector)
  /\ UNCHANGED <<contentVars, mCurrentPeriod, fetched, mIsPeriodChangeMarked,
                 mAudiostateChangeCount, mCachedFragment, abort,
                 totalInjectedDuration, pairVars, mProcessingDiscontinuity,
                 sinkVars, loop, stop, retune, history>>

------------------------------------------------------------------------------
(* The injectors.                                                          *)

Current(t) == Head(mCachedFragment[t])
Injecting(t) == At(t, "loop") /\ t \notin abort /\ mCachedFragment[t] # <<>>

ProcessAndInjectFragment(t) ==
  /\ Injecting(t)
  /\ ~Current(t).discontinuity
  /\ mCachedFragment' = [mCachedFragment EXCEPT ![t] = Tail(@)]
  /\ lastInjected' = [lastInjected EXCEPT ![t] = Current(t).period]
  /\ IF Current(t).media
     THEN /\ totalInjectedDuration' = [totalInjectedDuration EXCEPT ![t] = @ + 1]
          /\ firstBufferProcessed' = firstBufferProcessed \union {t}
     ELSE UNCHANGED <<totalInjectedDuration, firstBufferProcessed>>
  /\ UNCHANGED <<contentVars, fetchVars, mIsPeriodChangeMarked,
                 mAudiostateChangeCount, injector, abort, pairVars,
                 mProcessingDiscontinuity, sinkEos, eosSignalled, loop, stop,
                 retune, configured, gaveUp>>

(* The loop ends when it is aborted or has injected everything; the end of *)
(* the stream is then signalled if it has been fetched.                    *)
InjectorDone(t) ==
  /\ At(t, "loop")
  /\ t \in abort \/ (t \in eosReached /\ mCachedFragment[t] = <<>>)
  /\ injector' = Goto(t, "done")
  /\ abort' = abort \union {t}
  /\ sinkEos' = IF t \notin eosReached THEN sinkEos
                ELSE IF t \in firstBufferProcessed THEN sinkEos \union {t}
                ELSE Tracks
  /\ UNCHANGED <<contentVars, fetchVars, mIsPeriodChangeMarked,
                 mAudiostateChangeCount, mCachedFragment,
                 totalInjectedDuration, pairVars, mProcessingDiscontinuity,
                 firstBufferProcessed, eosSignalled, loop, stop, retune,
                 history>>

(* Mutant: the fetcher goes on at once, and no note is left.              *)
NoteIgnoredNowhere(t) ==
  mIsPeriodChangeMarked' = FALSE /\ UNCHANGED mIsDiscontinuityIgnored

(* The first of a pair leaves a note, the second takes it away and lets    *)
(* the fetcher go on.                                                      *)
NoteIgnored(t) ==
  IF Other(t) \in mIsDiscontinuityIgnored
  THEN mIsPeriodChangeMarked' = FALSE /\ mIsDiscontinuityIgnored' = {}
  ELSE /\ mIsDiscontinuityIgnored' = mIsDiscontinuityIgnored \union {t}
       /\ UNCHANGED mIsPeriodChangeMarked

(* CheckForDiscontinuity: nothing in the pipeline, or a note of the other  *)
(* track, and the discontinuity is ignored; unless the codec changes.      *)
CheckForDiscontinuity(t) ==
  LET ignored == /\ ~GetESChangeStatus
                 /\ \/ totalInjectedDuration[t] = 0
                    \/ Other(t) \in mIsDiscontinuityIgnored
  IN
  /\ Injecting(t)
  /\ Current(t).discontinuity
  /\ mCachedFragment' =
       [mCachedFragment EXCEPT ![t][1].discontinuity = FALSE]
  /\ IF ignored
     THEN NoteIgnored(t) /\ UNCHANGED injector
     ELSE /\ injector' = Goto(t, "process")
          /\ UNCHANGED <<mIsDiscontinuityIgnored, mIsPeriodChangeMarked>>
  /\ UNCHANGED <<contentVars, fetchVars, mAudiostateChangeCount, abort,
                 totalInjectedDuration, mTrackState, mProcessingDiscontinuity,
                 sinkVars, loop, stop, retune, history>>

(* ProcessDiscontinuity, under mStateLock: the first of the two waits.     *)
ProcessDiscontinuity(t) ==
  /\ At(t, "process")
  /\ mTrackState' = mTrackState \union {t}
  /\ injector' = Goto(t, IF mTrackState' = {t} THEN "wait" ELSE "signal")
  /\ UNCHANGED <<contentVars, fetchVars, mIsPeriodChangeMarked,
                 mAudiostateChangeCount, mCachedFragment, abort,
                 totalInjectedDuration, mIsDiscontinuityIgnored,
                 mProcessingDiscontinuity, sinkVars, loop, stop, retune,
                 history>>

SpuriousWakeup(t) ==
  /\ At(t, "wait")
  /\ injector' = Goto(t, "woken")
  /\ UNCHANGED <<contentVars, fetchVars, mIsPeriodChangeMarked,
                 mAudiostateChangeCount, mCachedFragment, abort,
                 totalInjectedDuration, pairVars, mProcessingDiscontinuity,
                 sinkVars, loop, stop, retune, history>>

(* After the wait, whoever ended it: an aborted injector stops, one whose  *)
(* bit the monitor has cleared goes on (video only where a retune does not *)
(* take care of it), and the others signal the discontinuity.              *)
AfterWait(t) ==
  LET aborted == t \in abort \/ (t = "audio" /\ "video" \in abort) IN
  /\ At(t, "woken")
  /\ \/ /\ mTrackState = Tracks \/ (~aborted /\ (t = "audio" => t \in mTrackState))
        /\ injector' = Goto(t, "signal")
        /\ UNCHANGED abort
     \/ /\ mTrackState # Tracks /\ aborted
        /\ injector' = Goto(t, "done")
        /\ abort' = abort \union {t}
     \/ /\ ~aborted /\ t = "audio" /\ t \notin mTrackState
        /\ injector' = Goto(t, "loop")
        /\ UNCHANGED abort
  /\ UNCHANGED <<contentVars, fetchVars, mIsPeriodChangeMarked,
                 mAudiostateChangeCount, mCachedFragment,
                 totalInjectedDuration, pairVars, mProcessingDiscontinuity,
                 sinkVars, loop, stop, retune, history>>

(* aamp->Discontinuity, without mStateLock: an end of stream for the sink, *)
(* which refuses it before the first buffer.                               *)
Discontinuity(t) ==
  /\ At(t, "signal")
  /\ IF t \in firstBufferProcessed
     THEN /\ sinkEos' = sinkEos \union {t}
          /\ mProcessingDiscontinuity' = mProcessingDiscontinuity \union {t}
          /\ injector' = Goto(t, "notify")
          /\ UNCHANGED <<mTrackState, mIsPeriodChangeMarked, gaveUp>>
     ELSE /\ mTrackState' = mTrackState \ {t}
          /\ mIsPeriodChangeMarked' = FALSE
          /\ injector' = Goto(t, "refused")
          /\ gaveUp' = TRUE
          /\ UNCHANGED <<sinkEos, mProcessingDiscontinuity>>
  /\ UNCHANGED <<contentVars, fetchVars, mAudiostateChangeCount,
                 mCachedFragment, abort, totalInjectedDuration,
                 mIsDiscontinuityIgnored, firstBufferProcessed, eosSignalled,
                 loop, stop, retune, configured, lastInjected>>

(* Mutant: the other track is not woken.                                   *)
NotifyNobody(t) ==
  /\ At(t, "notify") \/ At(t, "refused")
  /\ injector' = Goto(t, IF At(t, "notify") THEN "done" ELSE "loop")
  /\ abort' = IF At(t, "notify") THEN abort \union {t} ELSE abort
  /\ UNCHANGED <<contentVars, fetchVars, mIsPeriodChangeMarked,
                 mAudiostateChangeCount, mCachedFragment,
                 totalInjectedDuration, pairVars, mProcessingDiscontinuity,
                 sinkVars, loop, stop, retune, history>>

(* Mutant: the inject loop goes on after the discontinuity was signalled.  *)
NotifyOtherAndGoOn(t) ==
  /\ At(t, "notify") \/ At(t, "refused")
  /\ injector' \in NotifyOne(Goto(t, "loop"))
  /\ UNCHANGED <<contentVars, fetchVars, mIsPeriodChangeMarked,
                 mAudiostateChangeCount, mCachedFragment, abort,
                 totalInjectedDuration, pairVars, mProcessingDiscontinuity,
                 sinkVars, loop, stop, retune, history>>

(* The end of ProcessDiscontinuity, under mStateLock again: the other      *)
(* track is woken and the inject loop ends, unless the sink has refused.   *)
NotifyOther(t) ==
  /\ At(t, "notify") \/ At(t, "refused")
  /\ injector' \in NotifyOne(Goto(t, IF At(t, "notify") THEN "done" ELSE "loop"))
  /\ abort' = IF At(t, "notify") THEN abort \union {t} ELSE abort
  /\ UNCHANGED <<contentVars, fetchVars, mIsPeriodChangeMarked,
                 mAudiostateChangeCount, mCachedFragment,
                 totalInjectedDuration, pairVars, mProcessingDiscontinuity,
                 sinkVars, loop, stop, retune, history>>

------------------------------------------------------------------------------
(* The buffer monitor of track t, which runs every few seconds.            *)

IsMedia(fragment) == fragment.media
CachedDuration(t) == Len(SelectSeq(mCachedFragment[t], IsMedia))
CheckForFutureDiscontinuity(t) ==
  \E i \in DOMAIN mCachedFragment[t] : mCachedFragment[t][i].discontinuity

(* Duration of the fragment that was fetched last.                         *)
FragmentDurationSeconds(t) ==
  IF fetched[t] > 0 THEN fetched[t] > 1
  ELSE mCurrentPeriod > 1 /\ MediaOf(t, mCurrentPeriod - 1) > 0

(* The other track is so far past the discontinuity, or so far behind,     *)
(* that it cannot have one.                                                *)
HasNoPartner(t) ==
  LET mine  == totalInjectedDuration[t]
      other == totalInjectedDuration[Other(t)]
  IN
  /\ FragmentDurationSeconds(Other(t))
  /\ IF other >= mine
     THEN /\ ~CheckForFutureDiscontinuity(Other(t))
          /\ other - mine + CachedDuration(Other(t)) > 2
     ELSE mine - other > 2

(* Under mStateLock: the audio track is let go with a note for the video,  *)
(* for the video a retune is scheduled once the pipeline has stalled.      *)
CheckForMediaTrackInjectionStall(t) ==
  /\ stop = "no" /\ t \notin abort
  /\ mTrackState = {t}
  /\ HasNoPartner(t)
  /\ IF t = "video"
     THEN /\ retune' = TRUE
          /\ UNCHANGED <<mTrackState, mIsDiscontinuityIgnored, injector, gaveUp>>
     ELSE /\ mIsDiscontinuityIgnored' = mIsDiscontinuityIgnored \union {t}
          /\ mTrackState' = {}
          /\ injector' \in NotifyOne(injector)
          /\ gaveUp' = TRUE
          /\ UNCHANGED retune
  /\ UNCHANGED <<contentVars, fetchVars, mIsPeriodChangeMarked,
                 mAudiostateChangeCount, mCachedFragment, abort,
                 totalInjectedDuration, mProcessingDiscontinuity, sinkVars,
                 loop, stop, configured, lastInjected>>

(* One track has been drained for its discontinuity, the other has nothing *)
(* to inject, and the position does not change: a retune is scheduled.     *)
CheckForDiscontinuityStall(t) ==
  /\ stop = "no" /\ loop = "idle"
  /\ mProcessingDiscontinuity = {t}
  /\ \/ At(Other(t), "done")
     \/ At(Other(t), "loop") /\ mCachedFragment[Other(t)] = <<>>
  /\ mProcessingDiscontinuity' = {}
  /\ mIsDiscontinuityIgnored' = {}
  /\ retune' = TRUE
  /\ UNCHANGED <<contentVars, fetchVars, mIsPeriodChangeMarked,
                 mAudiostateChangeCount, mCachedFragment, injector, abort,
                 totalInjectedDuration, mTrackState, sinkVars, loop, stop,
                 history>>

------------------------------------------------------------------------------
(* The sink has played out both tracks, and the main loop is told.         *)

NotifyEOSReached ==
  /\ loop = "idle" /\ stop = "no"
  /\ sinkEos = Tracks
  /\ ~eosSignalled
  /\ eosSignalled' = TRUE
  /\ IF mProcessingDiscontinuity = {}
     THEN /\ loop' = IF eosReached = Tracks THEN "complete" ELSE "idle"
          /\ UNCHANGED <<mProcessingDiscontinuity, mIsDiscontinuityIgnored,
                         mIsPeriodChangeMarked>>
     ELSE IF mProcessingDiscontinuity = Tracks
     THEN /\ loop' = "abortVideo"
          /\ mProcessingDiscontinuity' = {}
          /\ mIsDiscontinuityIgnored' = {}
          /\ UNCHANGED mIsPeriodChangeMarked
     ELSE /\ mIsPeriodChangeMarked' = FALSE
          /\ UNCHANGED <<loop, mProcessingDiscontinuity,
                         mIsDiscontinuityIgnored>>
  /\ UNCHANGED <<contentVars, fetchVars, mAudiostateChangeCount,
                 mCachedFragment, injector, abort, totalInjectedDuration,
                 mTrackState, firstBufferProcessed, sinkEos, stop, retune,
                 history>>

(* StopInjection and Stop abort and join the injectors, video first; Stop  *)
(* aborts both before it joins.                                            *)
AbortInjection(t) ==
  /\ abort' = abort \union {t}
  /\ injector' \in NotifyOne(injector)
  /\ UNCHANGED <<contentVars, fetchVars, mIsPeriodChangeMarked,
                 mAudiostateChangeCount, mCachedFragment,
                 totalInjectedDuration, pairVars, mProcessingDiscontinuity,
                 sinkVars, retune, history>>

StopInjection ==
  \/ /\ loop = "abortVideo" /\ loop' = "joinVideo"
     /\ AbortInjection("video") /\ UNCHANGED stop
  \/ /\ loop = "joinVideo" /\ At("video", "done") /\ loop' = "joinAudio"
     /\ AbortInjection("audio") /\ UNCHANGED stop

StartInjection == mTrackState' = {}

(* The rest of ProcessPendingDiscontinuity: Configure, Flush,              *)
(* ResetESChangeStatus and StartInjection.                                 *)
Reconfigure ==
  /\ loop = "joinAudio" /\ At("audio", "done")
  /\ loop' = "idle"
  /\ firstBufferProcessed' = {}
  /\ sinkEos' = {}
  /\ eosSignalled' = FALSE
  /\ mAudiostateChangeCount' =
       IF mAudiostateChangeCount = 0 THEN 0 ELSE mAudiostateChangeCount - 1
  /\ StartInjection
  /\ abort' = {}
  /\ injector' = [t \in Tracks |-> "loop"]
  /\ totalInjectedDuration' = [t \in Tracks |-> 0]
  /\ mIsPeriodChangeMarked' = FALSE
  /\ configured' = Current("video").period
  /\ UNCHANGED <<contentVars, fetchVars, mCachedFragment,
                 mIsDiscontinuityIgnored, mProcessingDiscontinuity, stop,
                 retune, lastInjected, gaveUp>>

------------------------------------------------------------------------------
(* TeardownStream and Stop.                                                *)

BeginStop ==
  /\ stop = "no" /\ loop \in {"idle", "complete"}
  /\ stop' = "abortVideo"
  /\ mProcessingDiscontinuity' = {}
  /\ mIsDiscontinuityIgnored' = {}
  /\ mIsPeriodChangeMarked' = FALSE
  /\ UNCHANGED <<contentVars, fetchVars, mAudiostateChangeCount,
                 mCachedFragment, injector, abort, totalInjectedDuration,
                 mTrackState, sinkVars, loop, retune, history>>

AbortTracks ==
  \/ /\ stop = "abortVideo" /\ stop' = "abortAudio"
     /\ AbortInjection("video") /\ UNCHANGED loop
  \/ /\ stop = "abortAudio" /\ stop' = "join"
     /\ AbortInjection("audio") /\ UNCHANGED loop

JoinInjectors ==
  /\ stop = "join"
  /\ \A t \in Tracks : At(t, "done")
  /\ stop' = "stopped"
  /\ UNCHANGED <<contentVars, fetchVars, mIsPeriodChangeMarked,
                 mAudiostateChangeCount, mCachedFragment, injector, abort,
                 totalInjectedDuration, pairVars, mProcessingDiscontinuity,
                 sinkVars, loop, retune, history>>

------------------------------------------------------------------------------
Monitor(t)  == CheckForMediaTrackInjectionStall(t) \/ CheckForDiscontinuityStall(t)
Fetcher     == SelectPeriod \/ \E t \in Tracks : CacheFragment(t) \/ MarkEosReached(t)
Injector(t) ==
  \/ ProcessAndInjectFragment(t) \/ InjectorDone(t) \/ CheckForDiscontinuity(t)
  \/ ProcessDiscontinuity(t) \/ AfterWait(t) \/ Discontinuity(t)
  \/ NotifyOther(t)
MainLoop    == NotifyEOSReached \/ StopInjection \/ Reconfigure
Stopping    == AbortTracks \/ JoinInjectors

Next ==
  \/ Fetcher \/ MainLoop \/ BeginStop \/ Stopping
  \/ \E t \in Tracks : Injector(t) \/ SpuriousWakeup(t)
                       \/ Monitor(t)

(* Every thread goes on, the monitors look again and again, and a retune   *)
(* that is scheduled stops the stream.  Nobody has to call Stop, and no    *)
(* wake-up is spurious unless it happens.                                  *)
Fairness ==
  /\ WF_vars(SelectPeriod)
  /\ WF_vars(MainLoop)
  /\ WF_vars(Stopping)
  /\ WF_vars(retune /\ BeginStop)
  /\ \A t \in Tracks :
       /\ WF_vars(CacheFragment(t)) /\ WF_vars(MarkEosReached(t))
       /\ WF_vars(Injector(t))
       /\ WF_vars(Monitor(t))

Spec == Init /\ [][Next]_vars
FairSpec == Spec /\ Fairness

------------------------------------------------------------------------------
Labels == {"loop", "process", "wait", "woken", "signal", "notify", "refused",
           "done"}

CachedFragments == [period : Periods, media : BOOLEAN, discontinuity : BOOLEAN]

(* Every variable has a value of its kind, and the rings keep within their *)
(* size.                                                                   *)
TypeOK ==
  /\ content \in [Tracks -> 1..MaxFragments]
  /\ codecChanges \subseteq discontinuities
  /\ discontinuities \subseteq 2..LastPeriod
  /\ mCurrentPeriod \in Periods
  /\ fetched \in [Tracks -> 0..MaxFragments + 1]
  /\ mAudiostateChangeCount \in 0..LastPeriod
  /\ mCachedFragment \in [Tracks -> Seq(CachedFragments)]
  /\ \A t \in Tracks : Len(mCachedFragment[t]) <= CacheSize
  /\ injector \in [Tracks -> Labels]
  /\ totalInjectedDuration \in [Tracks -> Nat]
  /\ eosReached \subseteq Tracks /\ abort \subseteq Tracks
  /\ mTrackState \subseteq Tracks /\ mIsDiscontinuityIgnored \subseteq Tracks
  /\ mProcessingDiscontinuity \subseteq Tracks
  /\ firstBufferProcessed \subseteq Tracks /\ sinkEos \subseteq Tracks
  /\ mIsPeriodChangeMarked \in BOOLEAN /\ eosSignalled \in BOOLEAN
  /\ retune \in BOOLEAN /\ gaveUp \in BOOLEAN
  /\ loop \in {"idle", "abortVideo", "joinVideo", "joinAudio", "complete"}
  /\ stop \in {"no", "abortVideo", "abortAudio", "join", "stopped"}
  /\ configured \in Periods /\ lastInjected \in [Tracks -> Periods]

(* When ProcessPendingDiscontinuity has drained the sink and configures it *)
(* anew, both tracks stand at the discontinuity of the same period.        *)
ConfiguredTogether ==
  loop = "joinAudio" /\ At("audio", "done") =>
    /\ \A t \in Tracks : mCachedFragment[t] # <<>>
    /\ Current("video").period = Current("audio").period

(* As long as no track has been let go by a monitor or by the sink, the    *)
(* bits of mTrackState and the notes of CheckForDiscontinuity pair every   *)
(* discontinuity with its own, however injectors, wake-ups and failed      *)
(* downloads fall: the pipeline is never configured for two periods.       *)
PairedWhenConfigured == ~gaveUp => ConfiguredTogether

(* With every fragment downloaded, none enters a pipeline configured for   *)
(* what comes before a discontinuity of its track, unless the track was    *)
(* let go: CheckForDiscontinuity lets no fragment slip past a              *)
(* discontinuity that has to be processed.                                 *)
NoneAcrossDiscontinuity ==
  ~gaveUp /\ failed = {} =>
    \A t \in Tracks : \A d \in discontinuities :
      ~(configured < d /\ d <= lastInjected[t])

(* With every fragment downloaded, playback comes to its end, or to a      *)
(* retune or Stop: no injector waits in ProcessDiscontinuity for a partner *)
(* that does not come, and the fetcher is never left waiting for a         *)
(* discontinuity that nobody processes.  A track that was let go is left   *)
(* to the underflow that follows.                                          *)
PlaybackEnds ==
  failed = {} => <>(loop = "complete" \/ stop # "no" \/ gaveUp)

(* Stop returns: no injector it joins is left in ProcessDiscontinuity.     *)
StopReturns == stop = "abortVideo" ~> stop = "stopped"
==============================================================================
