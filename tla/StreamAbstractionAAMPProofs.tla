-------------------- MODULE StreamAbstractionAAMPProofs --------------------
(***************************************************************************)
(* Proofs about StreamAbstractionAAMP, for any number of periods,          *)
(* fragments and failed downloads and any size of the rings: the types,    *)
(* that the pipeline is configured for one period, and that no fragment    *)
(* slips past a discontinuity.                                             *)
(***************************************************************************)
EXTENDS StreamAbstractionAAMP, SequenceTheorems, TLAPS

(* ProcessPendingDiscontinuity is under way.                               *)
Draining == {"abortVideo", "joinVideo", "joinAudio"}

Ring(t)   == mCachedFragment[t]
Slots(t)  == 1..Len(mCachedFragment[t])
Flag(t, i) == mCachedFragment[t][i].discontinuity

(* Nothing is ahead of the fetcher, and it has fetched no more of a period *)
(* than there is.                                                          *)
CountInv ==
  /\ mAudiostateChangeCount < mCurrentPeriod
  /\ configured <= mCurrentPeriod
  /\ \A t \in Tracks :
       /\ fetched[t] <= MediaOf(t, mCurrentPeriod) + 1
       /\ lastInjected[t] <= mCurrentPeriod
       /\ \A i \in Slots(t) : Ring(t)[i].period <= mCurrentPeriod

(* An injector that is at a discontinuity has its fragment at the head of  *)
(* the ring, and both are there when the pipeline is drained.              *)
StandInv ==
  /\ \A t \in Tracks :
       /\ injector[t] \notin {"loop", "done"} => Ring(t) # <<>>
       /\ t \in mProcessingDiscontinuity \/ loop \in Draining =>
            injector[t] \in {"notify", "done"} /\ Ring(t) # <<>>
  /\ loop \in Draining => mProcessingDiscontinuity = {} /\ stop = "no"

TInv == TypeOK /\ CountInv /\ StandInv

(* Unless a track was let go, an injector that waits has its bit set.      *)
BitInv ==
  ~gaveUp => \A t \in Tracks : /\ injector[t] # "refused"
                               /\ injector[t] \in {"wait", "woken"} => t \in mTrackState

(* The pipeline may still be configured for the discontinuity at hand: no  *)
(* track was let go, the stream is neither stopped nor at its end, and an  *)
(* injector that has ended counts as processing its discontinuity.         *)
Live ==
  /\ ~gaveUp /\ stop = "no" /\ loop # "complete"
  /\ loop = "idle" => \A t \in Tracks :
                        injector[t] \in {"notify", "done"} => t \in mProcessingDiscontinuity

(* The flags of track t: there is one at most, it belongs to the period of *)
(* the fetcher, which waits for it, and the media of that period follow.   *)
FlagInv(t) ==
  \A i \in Slots(t) : Flag(t, i) =>
    /\ mIsPeriodChangeMarked /\ fetched[t] > 0 /\ injector[t] = "loop"
    /\ t \notin mIsDiscontinuityIgnored
    /\ Ring(t)[i].period = mCurrentPeriod
    /\ \A j \in Slots(t) : Flag(t, j) => i = j
    /\ fetched[t] >= 2 => \E j \in Slots(t) : j > i /\ Ring(t)[j].media

(* An injector that has left its loop is at the discontinuity of the       *)
(* fetcher's period, which is the head of its ring.                        *)
HeldInv(t) ==
  injector[t] # "loop" =>
    /\ mIsPeriodChangeMarked /\ fetched[t] > 0
    /\ t \notin mIsDiscontinuityIgnored
    /\ Ring(t) # <<>> /\ Ring(t)[1].period = mCurrentPeriod
    /\ fetched[t] >= 2 => \E j \in Slots(t) : Ring(t)[j].media

(* At most one discontinuity is unsettled: that of the fetcher's period.   *)
PairInv ==
  Live =>
    /\ mIsDiscontinuityIgnored # {} => mIsPeriodChangeMarked /\ loop \notin Draining
    /\ \A t \in Tracks :
         /\ mCurrentPeriod \in discontinuities /\ fetched[t] = 0 => mIsPeriodChangeMarked
         /\ t \in mIsDiscontinuityIgnored => fetched[t] > 0
         /\ loop = "idle" /\ t \in sinkEos => t \in mProcessingDiscontinuity
         /\ FlagInv(t) /\ HeldInv(t)

(* Until track t has pushed media, there is a media fragment before its    *)
(* next flag: an injector that has nothing in the pipeline meets none.     *)
MediaFirst(t) ==
  totalInjectedDuration[t] = 0 /\ (fetched[t] >= 2 \/ mCurrentPeriod > configured) =>
    \E i \in Slots(t) : Ring(t)[i].media /\ \A j \in Slots(t) : j <= i => ~Flag(t, j)

(* Flags are of periods the pipeline is not yet configured for.            *)
FlagAhead(t) ==
  /\ fetched[t] = 0 => mCurrentPeriod > configured \/ mCurrentPeriod \notin discontinuities
  /\ \A i \in Slots(t) : Flag(t, i) => mCurrentPeriod > configured

(* In front of what lies beyond a discontinuity d there is a flag in the   *)
(* ring of a track, or its injector has stopped.                           *)
Barrier(t) ==
  \A d \in discontinuities : d > configured =>
    /\ lastInjected[t] < d
    /\ injector[t] = "loop" =>
         /\ \A i \in Slots(t) : Ring(t)[i].period >= d =>
              \E j \in Slots(t) : j <= i /\ Flag(t, j)
         /\ d < mCurrentPeriod \/ (d = mCurrentPeriod /\ fetched[t] > 0) =>
              \E j \in Slots(t) : Flag(t, j)

(* With every fragment downloaded no discontinuity is ignored.             *)
NoneInv ==
  failed = {} /\ ~gaveUp =>
    /\ mIsDiscontinuityIgnored = {}
    /\ \A t \in Tracks : MediaFirst(t) /\ FlagAhead(t) /\ Barrier(t)

------------------------------------------------------------------------------
(* What the operators on rings do.                                         *)

LEMMA HeadOfRing ==
  ASSUME NEW q \in Seq(CachedFragments), q # <<>>
  PROVE  /\ Head(q) = q[1] /\ q[1] \in CachedFragments /\ 1 \in 1..Len(q)
         /\ Tail(q) \in Seq(CachedFragments) /\ Len(Tail(q)) = Len(q) - 1
         /\ \A i \in 1..Len(Tail(q)) : Tail(q)[i] = q[i + 1] /\ i + 1 \in 1..Len(q)
BY HeadTailProperties, EmptySeq, LenProperties

(* Clearing the flag of the head changes nothing else.                     *)
LEMMA ClearHead ==
  ASSUME NEW q \in Seq(CachedFragments), q # <<>>
  PROVE  LET r == [q EXCEPT ![1].discontinuity = FALSE] IN
         /\ r \in Seq(CachedFragments) /\ Len(r) = Len(q) /\ r # <<>>
         /\ r[1].period = q[1].period /\ r[1].media = q[1].media
         /\ r[1].discontinuity = FALSE
         /\ \A i \in 1..Len(q) : i # 1 => r[i] = q[i]
<1> DEFINE e == [q[1] EXCEPT !.discontinuity = FALSE]
           r == [q EXCEPT ![1] = e]
<1>1. q[1] \in CachedFragments /\ 1 \in 1..Len(q) /\ Len(q) \in Nat
  BY HeadOfRing, LenProperties
<1>2. /\ e \in CachedFragments /\ e.period = q[1].period /\ e.media = q[1].media
      /\ e.discontinuity = FALSE
  BY <1>1 DEF CachedFragments
<1> HIDE DEF e
<1>3. r \in Seq(CachedFragments) /\ Len(r) = Len(q)
  BY <1>1, <1>2
<1>4. r[1] = e /\ \A i \in 1..Len(q) : i # 1 => r[i] = q[i]
  BY <1>1
<1>5. r # <<>>
  BY <1>1, <1>3
<1> QED BY <1>2, <1>3, <1>4, <1>5 DEF e

(* notify_one moves at most one injector, from the wait to after it.       *)
LEMMA NotifyOneMoves ==
  ASSUME NEW i \in [Tracks -> Labels], NEW j \in NotifyOne(i)
  PROVE  /\ j \in [Tracks -> Labels]
         /\ \A t \in Tracks : j[t] = i[t] \/ (i[t] = "wait" /\ j[t] = "woken")
BY DEF NotifyOne, Labels

(* What each step of a ring does to it.                                    *)
LEMMA RingCached ==
  ASSUME TypeOK, NEW t \in Tracks, CacheFragment(t)
  PROVE  /\ Fragment(t) \in CachedFragments
         /\ Fragment(t).period = mCurrentPeriod /\ (Fragment(t).media <=> fetched[t] > 0)
         /\ (Fragment(t).discontinuity <=> fetched[t] = 0 /\ mCurrentPeriod \in discontinuities)
         /\ \A u \in Tracks : u # t => mCachedFragment'[u] = mCachedFragment[u]
         /\ Len(mCachedFragment'[t]) = Len(mCachedFragment[t]) + 1
         /\ mCachedFragment'[t] # <<>>
         /\ \A i \in Slots(t) : mCachedFragment'[t][i] = mCachedFragment[t][i]
         /\ mCachedFragment'[t][Len(mCachedFragment[t]) + 1] = Fragment(t)
         /\ mCachedFragment' \in [Tracks -> Seq(CachedFragments)]
<1>1. Fragment(t) \in CachedFragments
  BY DEF Fragment, TypeOK, CachedFragments
<1>2. Fragment(t).period = mCurrentPeriod
  BY DEF Fragment
<1>3. Fragment(t).media <=> fetched[t] > 0
  BY DEF Fragment
<1>4. Fragment(t).discontinuity <=> fetched[t] = 0 /\ mCurrentPeriod \in discontinuities
  BY DEF Fragment
<1>5. mCachedFragment[t] \in Seq(CachedFragments)
  BY DEF TypeOK
<1> DEFINE q == Append(mCachedFragment[t], Fragment(t))
<1>6. /\ q \in Seq(CachedFragments) /\ q # <<>> /\ Len(q) = Len(mCachedFragment[t]) + 1
      /\ \A i \in 1..Len(mCachedFragment[t]) : q[i] = mCachedFragment[t][i]
      /\ q[Len(mCachedFragment[t]) + 1] = Fragment(t)
  BY <1>1, <1>5, AppendProperties
<1>7. mCachedFragment' = [mCachedFragment EXCEPT ![t] = q]
  BY DEF CacheFragment
<1> HIDE DEF q
<1>8. /\ \A u \in Tracks : u # t => mCachedFragment'[u] = mCachedFragment[u]
      /\ mCachedFragment'[t] = q
      /\ mCachedFragment' \in [Tracks -> Seq(CachedFragments)]
  BY <1>6, <1>7 DEF TypeOK
<1> QED BY <1>1, <1>2, <1>3, <1>4, <1>6, <1>8 DEF Slots

LEMMA RingInjected ==
  ASSUME TypeOK, NEW t \in Tracks, ProcessAndInjectFragment(t)
  PROVE  /\ Current(t) = mCachedFragment[t][1] /\ Current(t) \in CachedFragments
         /\ 1 \in Slots(t) /\ ~Flag(t, 1)
         /\ \A u \in Tracks : u # t => mCachedFragment'[u] = mCachedFragment[u]
         /\ Len(mCachedFragment'[t]) = Len(mCachedFragment[t]) - 1
         /\ \A i \in 1..Len(mCachedFragment'[t]) :
              mCachedFragment'[t][i] = mCachedFragment[t][i + 1] /\ i + 1 \in Slots(t)
         /\ mCachedFragment' \in [Tracks -> Seq(CachedFragments)]
<1>1. mCachedFragment[t] \in Seq(CachedFragments) /\ mCachedFragment[t] # <<>>
  BY DEF ProcessAndInjectFragment, Injecting, TypeOK
<1> DEFINE q == Tail(mCachedFragment[t])
<1>2. /\ Current(t) = mCachedFragment[t][1] /\ Current(t) \in CachedFragments /\ 1 \in Slots(t)
      /\ q \in Seq(CachedFragments) /\ Len(q) = Len(mCachedFragment[t]) - 1
      /\ \A i \in 1..Len(q) : q[i] = mCachedFragment[t][i + 1] /\ i + 1 \in Slots(t)
  BY <1>1, HeadOfRing DEF Current, Slots
<1>3. mCachedFragment' = [mCachedFragment EXCEPT ![t] = q] /\ ~Flag(t, 1)
  BY <1>2 DEF ProcessAndInjectFragment, Flag
<1> HIDE DEF q
<1> QED BY <1>2, <1>3 DEF TypeOK

LEMMA RingChecked ==
  ASSUME TypeOK, NEW t \in Tracks, CheckForDiscontinuity(t)
  PROVE  /\ mCachedFragment[t] # <<>> /\ 1 \in Slots(t) /\ Flag(t, 1)
         /\ \A u \in Tracks : u # t => mCachedFragment'[u] = mCachedFragment[u]
         /\ Len(mCachedFragment'[t]) = Len(mCachedFragment[t]) /\ mCachedFragment'[t] # <<>>
         /\ \A i \in Slots(t) :
              /\ mCachedFragment'[t][i].period = mCachedFragment[t][i].period
              /\ mCachedFragment'[t][i].media = mCachedFragment[t][i].media
              /\ mCachedFragment'[t][i].discontinuity <=> i # 1 /\ Flag(t, i)
         /\ mCachedFragment' \in [Tracks -> Seq(CachedFragments)]
<1> DEFINE r == [mCachedFragment[t] EXCEPT ![1].discontinuity = FALSE]
<1>1. mCachedFragment[t] \in Seq(CachedFragments) /\ mCachedFragment[t] # <<>>
  BY DEF CheckForDiscontinuity, Injecting, TypeOK
<1>2. /\ r \in Seq(CachedFragments) /\ Len(r) = Len(mCachedFragment[t]) /\ r # <<>>
      /\ \A i \in Slots(t) : /\ r[i].period = mCachedFragment[t][i].period
                             /\ r[i].media = mCachedFragment[t][i].media
                             /\ r[i].discontinuity <=> i # 1 /\ Flag(t, i)
  BY <1>1, ClearHead DEF Slots, Flag
<1>3. mCachedFragment' = [mCachedFragment EXCEPT ![t] = r]
  BY DEF CheckForDiscontinuity
<1>4. 1 \in Slots(t) /\ Flag(t, 1)
  BY <1>1, HeadOfRing DEF CheckForDiscontinuity, Current, Slots, Flag
<1> HIDE DEF r
<1> QED BY <1>1, <1>2, <1>3, <1>4 DEF TypeOK

LEMMA NotifyOtherMoves ==
  ASSUME TypeOK, NEW t \in Tracks, NotifyOther(t)
  PROVE  /\ injector' \in [Tracks -> Labels]
         /\ \A u \in Tracks : \/ injector'[u] = injector[u]
                              \/ injector[u] = "wait" /\ injector'[u] = "woken"
                              \/ injector[u] = "notify" /\ injector'[u] = "done"
                              \/ injector[u] = "refused" /\ injector'[u] = "loop"
<1> DEFINE g == Goto(t, IF At(t, "notify") THEN "done" ELSE "loop")
<1>1. g \in [Tracks -> Labels] /\ injector' \in NotifyOne(g)
  BY DEF NotifyOther, Goto, Labels, TypeOK
<1>2. \A u \in Tracks : g[u] = IF u # t THEN injector[u]
                               ELSE IF injector[t] = "notify" THEN "done" ELSE "loop"
  BY DEF Goto, At, TypeOK
<1> HIDE DEF g
<1>3. /\ injector' \in [Tracks -> Labels]
      /\ \A u \in Tracks : g[u] = injector'[u] \/ (g[u] = "wait" /\ injector'[u] = "woken")
  BY <1>1, NotifyOneMoves
<1>4. injector[t] \in {"notify", "refused"}
  BY DEF NotifyOther, At
<1> QED BY <1>2, <1>3, <1>4

LEMMA MediaBound ==
  ASSUME TypeOK, NEW t \in Tracks, NEW p \in Periods
  PROVE  MediaOf(t, p) \in 0..MaxFragments
BY StreamAssumption DEF TypeOK, MediaOf

LEMMA NumberFacts ==
  ASSUME TypeOK
  PROVE  /\ LastPeriod \in Nat /\ mCurrentPeriod \in Nat /\ configured \in Nat
         /\ mCurrentPeriod >= 1 /\ mCurrentPeriod <= LastPeriod
         /\ discontinuities \subseteq Nat /\ 1 \notin discontinuities
         /\ \A t \in Tracks :
              /\ fetched[t] \in Nat /\ lastInjected[t] \in Nat
              /\ totalInjectedDuration[t] \in Nat
              /\ mCachedFragment[t] \in Seq(CachedFragments)
              /\ Len(mCachedFragment[t]) \in Nat
              /\ \A i \in 1..Len(mCachedFragment[t]) :
                   mCachedFragment[t][i] \in CachedFragments /\ mCachedFragment[t][i].period \in Nat
<1> USE StreamAssumption
<1>1. \A t \in Tracks :
        /\ mCachedFragment[t] \in Seq(CachedFragments) /\ Len(mCachedFragment[t]) \in Nat
        /\ \A i \in 1..Len(mCachedFragment[t]) : mCachedFragment[t][i] \in CachedFragments
  BY ElementOfSeq, LenProperties DEF TypeOK
<1>2. \A x \in CachedFragments : x.period \in Nat
  BY DEF CachedFragments, Periods
<1>3. /\ Periods \subseteq Nat /\ 2..LastPeriod \subseteq Nat /\ 1 \notin 2..LastPeriod
      /\ 0..MaxFragments + 1 \subseteq Nat
  BY DEF Periods
<1>4. mCurrentPeriod \in Nat /\ mCurrentPeriod >= 1 /\ mCurrentPeriod <= LastPeriod
  BY DEF TypeOK, Periods
<1>5. \A t \in Tracks : /\ fetched[t] \in Nat /\ lastInjected[t] \in Nat
                        /\ totalInjectedDuration[t] \in Nat
  BY <1>3 DEF TypeOK
<1> QED BY <1>1, <1>2, <1>3, <1>4, <1>5 DEF TypeOK

------------------------------------------------------------------------------
(* Types.                                                                  *)

LEMMA TypeInit == Init => TInv
<1> SUFFICES ASSUME Init PROVE TInv OBVIOUS
<1> USE StreamAssumption
<1>1. discontinuities \subseteq 2..LastPeriod /\ codecChanges \subseteq discontinuities
  BY DEF Init
<1>2. /\ mCachedFragment \in [Tracks -> Seq(CachedFragments)]
      /\ \A t \in Tracks : Ring(t) = <<>> /\ Len(Ring(t)) = 0
  BY DEF Init, Ring
<1>3. TypeOK
  <2>1. 1 \in Periods /\ 0 \in 0..LastPeriod /\ 0 \in 0..MaxFragments + 1 /\ "loop" \in Labels
    BY DEF Periods, Labels
  <2>2. \A t \in Tracks : Len(mCachedFragment[t]) <= CacheSize
    BY <1>2 DEF Ring
  <2>3. /\ fetched \in [Tracks -> 0..MaxFragments + 1] /\ injector \in [Tracks -> Labels]
        /\ totalInjectedDuration \in [Tracks -> Nat] /\ lastInjected \in [Tracks -> Periods]
    BY <2>1 DEF Init
  <2> QED BY <1>1, <1>2, <2>1, <2>2, <2>3 DEF Init, TypeOK
<1>4. CountInv
  BY <1>2, <1>3, MediaBound DEF Init, CountInv, Slots, Ring, Periods
<1>5. StandInv
  BY DEF Init, StandInv, Draining
<1> QED BY <1>3, <1>4, <1>5 DEF TInv

LEMMA CountKept ==
  ASSUME CountInv,
         UNCHANGED <<contentVars, mCurrentPeriod, fetched, mAudiostateChangeCount,
                     mCachedFragment, configured, lastInjected>>
  PROVE  CountInv'
BY DEF CountInv, MediaOf, Slots, Ring, contentVars

LEMMA TypeFetch ==
  ASSUME TInv, Fetcher
  PROVE  TInv'
<1> USE StreamAssumption
<1>1. CASE SelectPeriod
  <2>1. mCurrentPeriod + 1 \in Periods /\ mCurrentPeriod \in Nat
    BY <1>1 DEF SelectPeriod, TInv, TypeOK, Periods
  <2>2. mAudiostateChangeCount' \in 0..LastPeriod /\ mAudiostateChangeCount' < mCurrentPeriod'
    BY <1>1, <2>1 DEF SelectPeriod, TInv, TypeOK, CountInv, Periods
  <2>3. TypeOK'
    BY <1>1, <2>1, <2>2
    DEF SelectPeriod, TInv, TypeOK, contentVars, pairVars, sinkVars, history
  <2>4. ASSUME NEW t \in Tracks PROVE MediaOf(t, mCurrentPeriod)' \in 0..MaxFragments
    BY <1>1, <2>1, MediaBound DEF SelectPeriod, TInv, MediaOf, contentVars
  <2>5. CountInv'
    <3>1. \A t \in Tracks :
            /\ lastInjected[t] <= mCurrentPeriod + 1
            /\ \A i \in Slots(t) : Ring(t)[i].period <= mCurrentPeriod + 1
      BY NumberFacts DEF TInv, CountInv, Slots, Ring
    <3>2. configured <= mCurrentPeriod + 1
      BY NumberFacts DEF TInv, CountInv
    <3> QED BY <1>1, <2>2, <2>4, <3>1, <3>2 DEF SelectPeriod, CountInv, Slots, Ring, history
  <2>6. StandInv'
    BY <1>1 DEF SelectPeriod, TInv, StandInv, Ring
  <2> QED BY <2>3, <2>5, <2>6 DEF TInv
<1>2. ASSUME NEW t \in Tracks, CacheFragment(t) PROVE TInv'
  <2>1. Fragment(t) \in CachedFragments /\ Fragment(t).period = mCurrentPeriod
    BY DEF Fragment, TInv, TypeOK, CachedFragments
  <2> DEFINE q == Append(mCachedFragment[t], Fragment(t))
  <2>2. /\ q \in Seq(CachedFragments) /\ q # <<>> /\ Len(q) = Len(mCachedFragment[t]) + 1
        /\ \A i \in Slots(t) : q[i] = mCachedFragment[t][i]
        /\ q[Len(mCachedFragment[t]) + 1] = Fragment(t)
        /\ mCachedFragment[t] \in Seq(CachedFragments)
        /\ Len(mCachedFragment[t]) \in Nat
    BY <2>1, AppendProperties DEF TInv, TypeOK, Slots
  <2>3. mCachedFragment' = [mCachedFragment EXCEPT ![t] = q]
    BY <1>2 DEF CacheFragment
  <2> HIDE DEF q
  <2>4. \A u \in Tracks : mCachedFragment'[u] = IF u = t THEN q ELSE mCachedFragment[u]
    BY <2>3 DEF TInv, TypeOK
  <2>5. MediaOf(t, mCurrentPeriod) \in 0..MaxFragments
    BY MediaBound DEF TInv, TypeOK
  <2>6. fetched' \in [Tracks -> 0..MaxFragments + 1]
        /\ \A u \in Tracks : fetched'[u] <= MediaOf(u, mCurrentPeriod) + 1
    <3>1. /\ fetched' = [fetched EXCEPT ![t] = @ + 1]
          /\ fetched[t] # MediaOf(t, mCurrentPeriod) + 1
          /\ \A u \in Tracks : fetched[u] <= MediaOf(u, mCurrentPeriod) + 1
      BY <1>2 DEF CacheFragment, PeriodFetched, TInv, CountInv
    <3>2. fetched \in [Tracks -> 0..MaxFragments + 1] /\ MaxFragments \in Nat
      BY StreamAssumption DEF TInv, TypeOK
    <3>3. fetched[t] + 1 <= MediaOf(t, mCurrentPeriod) + 1
          /\ fetched[t] + 1 \in 0..MaxFragments + 1
      BY <2>5, <3>1, <3>2
    <3> QED BY <3>1, <3>2, <3>3
  <2>7. /\ mCachedFragment' \in [Tracks -> Seq(CachedFragments)]
        /\ \A u \in Tracks : Len(mCachedFragment'[u]) <= CacheSize
    <3>1. Len(q) <= CacheSize
      BY <1>2, <2>2 DEF CacheFragment
    <3> QED BY <2>2, <2>3, <3>1 DEF TInv, TypeOK
  <2>8. TypeOK'
    BY <1>2, <2>6, <2>7
    DEF CacheFragment, TInv, TypeOK, contentVars, pairVars, sinkVars, history
  <2>9. \A u \in Tracks : \A i \in 1..Len(mCachedFragment'[u]) :
           mCachedFragment'[u][i].period <= mCurrentPeriod
    <3> SUFFICES ASSUME NEW u \in Tracks, NEW i \in 1..Len(mCachedFragment'[u])
                 PROVE  mCachedFragment'[u][i].period <= mCurrentPeriod
      OBVIOUS
    <3>1. CASE u = t
      <4>1. CASE i \in Slots(t)
        BY <2>2, <2>4, <3>1, <4>1 DEF TInv, CountInv, Ring
      <4>2. CASE i \notin Slots(t)
        <5>1. i = Len(mCachedFragment[t]) + 1
          BY <2>2, <2>4, <3>1, <4>2 DEF Slots
        <5> QED BY <2>1, <2>2, <2>4, <3>1, <5>1, NumberFacts DEF TInv
      <4> QED BY <4>1, <4>2
    <3>2. CASE u # t
      BY <2>4, <3>2 DEF TInv, CountInv, Slots, Ring
    <3> QED BY <3>1, <3>2
  <2>10. CountInv'
    BY <1>2, <2>6, <2>9
    DEF CacheFragment, TInv, CountInv, Slots, Ring, MediaOf, contentVars, history
  <2>11. StandInv'
    BY <1>2, <2>2, <2>4 DEF CacheFragment, TInv, StandInv, Ring
  <2> QED BY <2>8, <2>10, <2>11 DEF TInv
<1>3. ASSUME NEW t \in Tracks, MarkEosReached(t) PROVE TInv'
  <2>1. /\ injector' \in [Tracks -> Labels]
        /\ \A u \in Tracks :
             injector'[u] = injector[u] \/ (injector[u] = "wait" /\ injector'[u] = "woken")
    BY <1>3, NotifyOneMoves DEF MarkEosReached, TInv, TypeOK
  <2>2. TypeOK'
    BY <1>3, <2>1
    DEF MarkEosReached, TInv, TypeOK, contentVars, pairVars, sinkVars, history
  <2>3. CountInv'
    BY <1>3 DEF MarkEosReached, TInv, CountInv, Slots, Ring, MediaOf, contentVars, history
  <2>4. StandInv'
    BY <1>3, <2>1 DEF MarkEosReached, TInv, StandInv, Ring
  <2> QED BY <2>2, <2>3, <2>4 DEF TInv
<1> QED BY <1>1, <1>2, <1>3 DEF Fetcher

LEMMA TypeInject ==
  ASSUME TInv, NEW t \in Tracks, Injector(t)
  PROVE  TInv'
<1> USE StreamAssumption
<1>1. CASE ProcessAndInjectFragment(t)
  <2>1. mCachedFragment[t] \in Seq(CachedFragments) /\ mCachedFragment[t] # <<>>
    BY <1>1 DEF ProcessAndInjectFragment, Injecting, TInv, TypeOK
  <2>2. /\ Current(t) = mCachedFragment[t][1] /\ Current(t) \in CachedFragments /\ 1 \in Slots(t)
        /\ Tail(mCachedFragment[t]) \in Seq(CachedFragments)
        /\ Len(Tail(mCachedFragment[t])) = Len(mCachedFragment[t]) - 1
        /\ \A i \in 1..Len(Tail(mCachedFragment[t])) :
             Tail(mCachedFragment[t])[i] = mCachedFragment[t][i + 1] /\ i + 1 \in Slots(t)
    BY <2>1, HeadOfRing DEF Current, Slots
  <2>3. Current(t).period \in Periods /\ Current(t).period <= mCurrentPeriod
    BY <2>2 DEF TInv, CountInv, Ring, CachedFragments
  <2>4. /\ mCachedFragment' = [mCachedFragment EXCEPT ![t] = Tail(mCachedFragment[t])]
        /\ lastInjected' = [lastInjected EXCEPT ![t] = Current(t).period]
    BY <1>1 DEF ProcessAndInjectFragment
  <2>5. /\ mCachedFragment' \in [Tracks -> Seq(CachedFragments)]
        /\ lastInjected' \in [Tracks -> Periods]
        /\ \A u \in Tracks : Len(mCachedFragment'[u]) <= CacheSize
    BY <2>2, <2>3, <2>4, NumberFacts DEF TInv, TypeOK
  <2>6. totalInjectedDuration' \in [Tracks -> Nat] /\ firstBufferProcessed' \subseteq Tracks
    <3>1. totalInjectedDuration[t] + 1 \in Nat
      BY NumberFacts DEF TInv
    <3>2. totalInjectedDuration' \in
            {totalInjectedDuration,
             [totalInjectedDuration EXCEPT ![t] = totalInjectedDuration[t] + 1]}
      BY <1>1 DEF ProcessAndInjectFragment
    <3>3. firstBufferProcessed' \in {firstBufferProcessed, firstBufferProcessed \union {t}}
      BY <1>1 DEF ProcessAndInjectFragment
    <3> QED BY <3>1, <3>2, <3>3 DEF TInv, TypeOK
  <2>7. TypeOK'
    BY <1>1, <2>5, <2>6
    DEF ProcessAndInjectFragment, TInv, TypeOK, contentVars, fetchVars, pairVars
  <2>8. \A u \in Tracks : \A i \in 1..Len(mCachedFragment'[u]) :
           mCachedFragment'[u][i].period <= mCurrentPeriod
    BY <2>2, <2>4 DEF TInv, TypeOK, CountInv, Slots, Ring
  <2>9. CountInv'
    BY <1>1, <2>3, <2>4, <2>8
    DEF ProcessAndInjectFragment, TInv, TypeOK, CountInv, Slots, Ring, MediaOf, contentVars,
        fetchVars
  <2>10. StandInv'
    BY <1>1, <2>4
    DEF ProcessAndInjectFragment, Injecting, At, TInv, TypeOK, StandInv, Ring
  <2> QED BY <2>7, <2>9, <2>10 DEF TInv
<1>2. CASE InjectorDone(t)
  <2>1. TypeOK'
    BY <1>2 DEF InjectorDone, Goto, Labels, TInv, TypeOK, contentVars, fetchVars, pairVars, history
  <2>2. CountInv'
    BY <1>2, CountKept DEF InjectorDone, TInv, fetchVars, history
  <2>3. StandInv'
    BY <1>2 DEF InjectorDone, At, Goto, TInv, TypeOK, StandInv, Ring
  <2> QED BY <2>1, <2>2, <2>3 DEF TInv
<1>3. CASE CheckForDiscontinuity(t)
  <2> DEFINE r == [mCachedFragment[t] EXCEPT ![1].discontinuity = FALSE]
  <2>1. mCachedFragment[t] \in Seq(CachedFragments) /\ mCachedFragment[t] # <<>>
    BY <1>3 DEF CheckForDiscontinuity, Injecting, TInv, TypeOK
  <2>2. /\ r \in Seq(CachedFragments) /\ Len(r) = Len(mCachedFragment[t]) /\ r # <<>>
        /\ \A i \in Slots(t) : r[i].period = mCachedFragment[t][i].period
    BY <2>1, ClearHead DEF Slots
  <2>3. mCachedFragment' = [mCachedFragment EXCEPT ![t] = r]
    BY <1>3 DEF CheckForDiscontinuity
  <2> HIDE DEF r
  <2>4. \A u \in Tracks : mCachedFragment'[u] = IF u = t THEN r ELSE mCachedFragment[u]
    BY <2>3 DEF TInv, TypeOK
  <2>5. /\ mCachedFragment' \in [Tracks -> Seq(CachedFragments)]
        /\ \A u \in Tracks : Len(mCachedFragment'[u]) <= CacheSize
    BY <2>2, <2>3 DEF TInv, TypeOK
  <2>6. /\ injector' \in [Tracks -> Labels] /\ mIsDiscontinuityIgnored' \subseteq Tracks
        /\ mIsPeriodChangeMarked' \in BOOLEAN
    BY <1>3 DEF CheckForDiscontinuity, NoteIgnored, Goto, Labels, TInv, TypeOK
  <2>7. TypeOK'
    BY <1>3, <2>5, <2>6
    DEF CheckForDiscontinuity, TInv, TypeOK, contentVars, fetchVars, sinkVars, history
  <2>8. CountInv'
    BY <1>3, <2>2, <2>4
    DEF CheckForDiscontinuity, TInv, CountInv, Slots, Ring, MediaOf, contentVars, fetchVars, history
  <2>9. StandInv'
    BY <1>3, <2>2, <2>4
    DEF CheckForDiscontinuity, Injecting, At, Goto, TInv, TypeOK, StandInv, Ring
  <2> QED BY <2>7, <2>8, <2>9 DEF TInv
<1>4. CASE ProcessDiscontinuity(t)
  <2>1. TypeOK'
    BY <1>4
    DEF ProcessDiscontinuity, Goto, Labels, TInv, TypeOK, contentVars, fetchVars, sinkVars, history
  <2>2. CountInv'
    BY <1>4, CountKept DEF ProcessDiscontinuity, TInv, fetchVars, history
  <2>3. StandInv'
    BY <1>4 DEF ProcessDiscontinuity, At, Goto, TInv, TypeOK, StandInv, Ring
  <2> QED BY <2>1, <2>2, <2>3 DEF TInv
<1>5. CASE AfterWait(t)
  <2>1. TypeOK'
    <3>1. injector' \in [Tracks -> Labels] /\ abort' \subseteq Tracks
      BY <1>5 DEF AfterWait, Goto, Labels, TInv, TypeOK
    <3> QED BY <1>5, <3>1
          DEF AfterWait, TInv, TypeOK, contentVars, fetchVars, pairVars, sinkVars, history
  <2>2. CountInv'
    BY <1>5, CountKept DEF AfterWait, TInv, fetchVars, history
  <2>3. StandInv'
    BY <1>5 DEF AfterWait, At, Goto, TInv, TypeOK, StandInv, Ring
  <2> QED BY <2>1, <2>2, <2>3 DEF TInv
<1>6. CASE Discontinuity(t)
  <2>1. TypeOK'
    <3>1. injector' \in [Tracks -> Labels]
      BY <1>6 DEF Discontinuity, Goto, Labels, TInv, TypeOK
    <3>2. /\ sinkEos' \subseteq Tracks /\ mProcessingDiscontinuity' \subseteq Tracks
          /\ mTrackState' \subseteq Tracks
          /\ mIsPeriodChangeMarked' \in BOOLEAN /\ gaveUp' \in BOOLEAN
      BY <1>6 DEF Discontinuity, TInv, TypeOK
    <3> QED BY <1>6, <3>1, <3>2 DEF Discontinuity, TInv, TypeOK, contentVars, fetchVars
  <2>2. CountInv'
    BY <1>6, CountKept DEF Discontinuity, TInv, fetchVars
  <2>3. StandInv'
    BY <1>6 DEF Discontinuity, At, Goto, TInv, TypeOK, StandInv, Ring
  <2> QED BY <2>1, <2>2, <2>3 DEF TInv
<1>7. CASE NotifyOther(t)
  <2>1. /\ injector' \in [Tracks -> Labels]
        /\ \A u \in Tracks : \/ injector'[u] = injector[u]
                             \/ injector[u] = "wait" /\ injector'[u] = "woken"
                             \/ injector[u] = "notify" /\ injector'[u] = "done"
                             \/ injector[u] = "refused" /\ injector'[u] = "loop"
    BY <1>7, NotifyOtherMoves DEF TInv
  <2>2. TypeOK'
    BY <1>7, <2>1
    DEF NotifyOther, TInv, TypeOK, contentVars, fetchVars, pairVars, sinkVars, history
  <2>3. CountInv'
    BY <1>7, CountKept DEF NotifyOther, TInv, fetchVars, history
  <2>4. StandInv'
    BY <1>7, <2>1 DEF NotifyOther, TInv, StandInv, Ring
  <2> QED BY <2>2, <2>3, <2>4 DEF TInv
<1> QED BY <1>1, <1>2, <1>3, <1>4, <1>5, <1>6, <1>7 DEF Injector

LEMMA TypeMonitor ==
  ASSUME TInv, NEW t \in Tracks, SpuriousWakeup(t) \/ Monitor(t)
  PROVE  TInv'
<1> USE StreamAssumption
<1>1. CASE SpuriousWakeup(t)
  <2>1. TypeOK'
    BY <1>1
    DEF SpuriousWakeup, Goto, Labels, TInv, TypeOK, contentVars, fetchVars, pairVars, sinkVars,
        history
  <2>2. CountInv'
    BY <1>1, CountKept DEF SpuriousWakeup, TInv, fetchVars, history
  <2>3. StandInv'
    BY <1>1 DEF SpuriousWakeup, At, Goto, TInv, TypeOK, StandInv, Ring
  <2> QED BY <2>1, <2>2, <2>3 DEF TInv
<1>2. CASE CheckForMediaTrackInjectionStall(t)
  <2>1. /\ injector' \in [Tracks -> Labels]
        /\ \A u \in Tracks :
             injector'[u] = injector[u] \/ (injector[u] = "wait" /\ injector'[u] = "woken")
    <3>1. injector' = injector \/ injector' \in NotifyOne(injector)
      BY <1>2 DEF CheckForMediaTrackInjectionStall
    <3>2. CASE injector' = injector
      BY <3>2 DEF TInv, TypeOK
    <3>3. CASE injector' \in NotifyOne(injector)
      BY <3>3, NotifyOneMoves DEF TInv, TypeOK
    <3> QED BY <3>1, <3>2, <3>3
  <2>2. TypeOK'
    BY <1>2, <2>1
    DEF CheckForMediaTrackInjectionStall, TInv, TypeOK, contentVars, fetchVars, sinkVars
  <2>3. CountInv'
    BY <1>2, CountKept DEF CheckForMediaTrackInjectionStall, TInv, fetchVars
  <2>4. StandInv'
    BY <1>2, <2>1 DEF CheckForMediaTrackInjectionStall, TInv, StandInv, Ring
  <2> QED BY <2>2, <2>3, <2>4 DEF TInv
<1>3. CASE CheckForDiscontinuityStall(t)
  <2>1. TypeOK'
    BY <1>3
    DEF CheckForDiscontinuityStall, TInv, TypeOK, contentVars, fetchVars, sinkVars, history
  <2>2. CountInv'
    BY <1>3, CountKept DEF CheckForDiscontinuityStall, TInv, fetchVars, history
  <2>3. StandInv'
    BY <1>3 DEF CheckForDiscontinuityStall, TInv, StandInv, Ring
  <2> QED BY <2>1, <2>2, <2>3 DEF TInv
<1> QED BY <1>1, <1>2, <1>3 DEF Monitor

LEMMA TypeLoop ==
  ASSUME TInv, MainLoop \/ BeginStop \/ Stopping
  PROVE  TInv'
<1> USE StreamAssumption
<1>1. CASE NotifyEOSReached
  <2>1. TypeOK'
    BY <1>1 DEF NotifyEOSReached, TInv, TypeOK, contentVars, fetchVars, history
  <2>2. CountInv'
    BY <1>1, CountKept DEF NotifyEOSReached, TInv, fetchVars, history
  <2>3. StandInv'
    BY <1>1 DEF NotifyEOSReached, TInv, StandInv, Ring, Draining
  <2> QED BY <2>1, <2>2, <2>3 DEF TInv
<1>2. ASSUME NEW t \in Tracks, AbortInjection(t),
             \/ loop' = loop /\ loop \notin Draining
             \/ stop' = stop /\ loop \in Draining /\ loop' \in Draining,
             loop' \in {"idle", "abortVideo", "joinVideo", "joinAudio", "complete"},
             stop' \in {"no", "abortVideo", "abortAudio", "join", "stopped"}
      PROVE  TInv'
  <2>1. /\ injector' \in [Tracks -> Labels]
        /\ \A u \in Tracks :
             injector'[u] = injector[u] \/ (injector[u] = "wait" /\ injector'[u] = "woken")
    BY <1>2, NotifyOneMoves DEF AbortInjection, TInv, TypeOK
  <2>2. TypeOK'
    BY <1>2, <2>1
    DEF AbortInjection, TInv, TypeOK, contentVars, fetchVars, pairVars, sinkVars, history
  <2>3. CountInv'
    BY <1>2, CountKept DEF AbortInjection, TInv, fetchVars, history
  <2>4. StandInv'
    BY <1>2, <2>1 DEF AbortInjection, TInv, StandInv, Ring
  <2> QED BY <2>2, <2>3, <2>4 DEF TInv
<1>3. CASE StopInjection
  BY <1>2, <1>3 DEF StopInjection, Tracks, Draining, TInv, TypeOK
<1>4. CASE AbortTracks
  <2>1. loop' = loop /\ loop \notin Draining
    BY <1>4 DEF AbortTracks, TInv, StandInv
  <2> QED BY <1>2, <1>4, <2>1 DEF AbortTracks, Tracks, TInv, TypeOK
<1>5. CASE Reconfigure
  <2>1. \A t \in Tracks : mCachedFragment[t] # <<>>
    BY <1>5 DEF Reconfigure, Draining, TInv, StandInv, Ring
  <2>2. /\ Current("video") = mCachedFragment["video"][1] /\ 1 \in Slots("video")
        /\ Current("video") \in CachedFragments
    BY <2>1, HeadOfRing DEF Current, Slots, Tracks, TInv, TypeOK
  <2>3. configured' \in Periods /\ configured' <= mCurrentPeriod
    BY <1>5, <2>2 DEF Reconfigure, CachedFragments, Tracks, TInv, CountInv, Ring
  <2>4. /\ mAudiostateChangeCount' \in 0..LastPeriod
        /\ mAudiostateChangeCount' < mCurrentPeriod
    BY <1>5, NumberFacts DEF Reconfigure, TInv, TypeOK, CountInv
  <2>5. TypeOK'
    <3>1. /\ injector' \in [Tracks -> Labels] /\ totalInjectedDuration' \in [Tracks -> Nat]
          /\ loop' = "idle" /\ mIsPeriodChangeMarked' = FALSE /\ eosSignalled' = FALSE
          /\ abort' = {} /\ mTrackState' = {} /\ firstBufferProcessed' = {} /\ sinkEos' = {}
      BY <1>5 DEF Reconfigure, StartInjection, Labels
    <3>2. UNCHANGED <<contentVars, fetchVars, mCachedFragment, mIsDiscontinuityIgnored,
                      mProcessingDiscontinuity, stop, retune, lastInjected, gaveUp>>
      BY <1>5 DEF Reconfigure
    <3> QED BY <2>3, <2>4, <3>1, <3>2 DEF TInv, TypeOK, contentVars, fetchVars
  <2>6. CountInv'
    BY <1>5, <2>3, <2>4
    DEF Reconfigure, TInv, CountInv, MediaOf, Slots, Ring, contentVars, fetchVars
  <2>7. StandInv'
    BY <1>5 DEF Reconfigure, TInv, StandInv, Ring, Draining
  <2> QED BY <2>5, <2>6, <2>7 DEF TInv
<1>6. CASE BeginStop
  <2>1. TypeOK'
    BY <1>6 DEF BeginStop, TInv, TypeOK, contentVars, fetchVars, sinkVars, history
  <2>2. CountInv'
    BY <1>6, CountKept DEF BeginStop, TInv, fetchVars, history
  <2>3. StandInv'
    BY <1>6 DEF BeginStop, TInv, StandInv, Ring, Draining
  <2> QED BY <2>1, <2>2, <2>3 DEF TInv
<1>7. CASE JoinInjectors
  <2>1. TypeOK'
    BY <1>7 DEF JoinInjectors, TInv, TypeOK, contentVars, fetchVars, pairVars, sinkVars, history
  <2>2. CountInv'
    BY <1>7, CountKept DEF JoinInjectors, TInv, fetchVars, history
  <2>3. StandInv'
    BY <1>7 DEF JoinInjectors, TInv, StandInv, Ring
  <2> QED BY <2>1, <2>2, <2>3 DEF TInv
<1> QED BY <1>1, <1>3, <1>4, <1>5, <1>6, <1>7 DEF MainLoop, Stopping

LEMMA TypeStep == TInv /\ [Next]_vars => TInv'
<1> SUFFICES ASSUME TInv, [Next]_vars PROVE TInv' OBVIOUS
<1>1. CASE UNCHANGED vars
  <2>1. TypeOK'
    BY <1>1
    DEF vars, TInv, TypeOK, contentVars, fetchVars, pairVars, sinkVars, history
  <2>2. CountInv'
    BY <1>1, CountKept DEF vars, TInv, fetchVars, history
  <2>3. StandInv'
    BY <1>1 DEF vars, TInv, StandInv, Ring
  <2> QED BY <2>1, <2>2, <2>3 DEF TInv
<1> QED BY <1>1, TypeFetch, TypeInject, TypeMonitor, TypeLoop DEF Next

(* Every variable has a value of its kind, the rings stay within their     *)
(* size, and the fragment the pipeline is configured for is there.         *)
THEOREM StreamTypesCorrect == Spec => []TypeOK
<1>1. TInv => TypeOK
  BY DEF TInv
<1> QED BY <1>1, TypeInit, TypeStep, PTL DEF Spec

------------------------------------------------------------------------------
(* One discontinuity at a time.                                            *)

LEMMA BitStep == TInv /\ BitInv /\ [Next]_vars => BitInv'
<1> SUFFICES ASSUME TInv, BitInv, [Next]_vars PROVE BitInv' OBVIOUS
<1> USE DEF BitInv
<1>1. CASE Fetcher
  <2>1. UNCHANGED <<gaveUp, mTrackState>>
    BY <1>1 DEF Fetcher, SelectPeriod, CacheFragment, MarkEosReached, history, pairVars
  <2>2. injector' = injector \/ injector' \in NotifyOne(injector)
    BY <1>1 DEF Fetcher, SelectPeriod, CacheFragment, MarkEosReached
  <2> QED BY <2>1, <2>2, NotifyOneMoves DEF TInv, TypeOK
<1>2. ASSUME NEW t \in Tracks, Injector(t) \/ SpuriousWakeup(t) PROVE BitInv'
  <2>1. CASE ProcessAndInjectFragment(t)
    BY <2>1 DEF ProcessAndInjectFragment, pairVars
  <2>2. CASE InjectorDone(t)
    BY <2>2 DEF InjectorDone, Goto, TInv, TypeOK, pairVars, history
  <2>3. CASE CheckForDiscontinuity(t)
    BY <2>3 DEF CheckForDiscontinuity, Goto, TInv, TypeOK, history
  <2>4. CASE ProcessDiscontinuity(t)
    BY <2>4 DEF ProcessDiscontinuity, Goto, TInv, TypeOK, history
  <2>5. CASE AfterWait(t)
    BY <2>5 DEF AfterWait, Goto, TInv, TypeOK, pairVars, history
  <2>6. CASE Discontinuity(t)
    BY <2>6 DEF Discontinuity, Goto, TInv, TypeOK
  <2>7. CASE NotifyOther(t)
    BY <2>7, NotifyOtherMoves DEF NotifyOther, TInv, pairVars, history
  <2>8. CASE SpuriousWakeup(t)
    BY <2>8 DEF SpuriousWakeup, At, Goto, TInv, TypeOK, pairVars, history
  <2> QED BY <1>2, <2>1, <2>2, <2>3, <2>4, <2>5, <2>6, <2>7, <2>8 DEF Injector
<1>3. ASSUME NEW t \in Tracks, Monitor(t) PROVE BitInv'
  BY <1>3
  DEF Monitor, CheckForMediaTrackInjectionStall, CheckForDiscontinuityStall, TInv, TypeOK, history
<1>4. CASE MainLoop \/ BeginStop \/ Stopping
  <2>1. CASE Reconfigure
    BY <2>1 DEF Reconfigure
  <2>2. CASE ~Reconfigure
    <3>1. UNCHANGED <<gaveUp, mTrackState>>
      BY <1>4, <2>2
      DEF MainLoop, Stopping, BeginStop, NotifyEOSReached, StopInjection, AbortTracks,
          AbortInjection, JoinInjectors, history, pairVars
    <3>2. injector' = injector \/ injector' \in NotifyOne(injector)
      BY <1>4, <2>2
      DEF MainLoop, Stopping, BeginStop, NotifyEOSReached, StopInjection, AbortTracks,
          AbortInjection, JoinInjectors
    <3> QED BY <3>1, <3>2, NotifyOneMoves DEF TInv, TypeOK
  <2> QED BY <2>1, <2>2
<1>5. CASE UNCHANGED vars
  BY <1>5 DEF vars, pairVars, history
<1> QED BY <1>1, <1>2, <1>3, <1>4, <1>5 DEF Next

(* What a step needs that leaves the fetcher and the rings alone.          *)
LEMMA PairKept ==
  ASSUME PairInv,
         UNCHANGED <<discontinuities, mCurrentPeriod, fetched, mIsPeriodChangeMarked,
                     mCachedFragment>>,
         Live' => /\ Live
                  /\ mIsDiscontinuityIgnored' \subseteq mIsDiscontinuityIgnored
                  /\ mIsDiscontinuityIgnored' # {} => loop' \notin Draining
                  /\ \A t \in Tracks : /\ injector'[t] = "loop" <=> injector[t] = "loop"
                                       /\ loop' = "idle" /\ t \in sinkEos' =>
                                            t \in mProcessingDiscontinuity'
  PROVE  PairInv'
<1> SUFFICES ASSUME Live' PROVE PairInv' BY DEF PairInv
<1>1. \A t \in Tracks : FlagInv(t)'
  BY DEF PairInv, FlagInv, Slots, Flag, Ring
<1>2. \A t \in Tracks : HeldInv(t)'
  BY DEF PairInv, HeldInv, Slots, Flag, Ring
<1>3. mIsDiscontinuityIgnored' # {} => mIsDiscontinuityIgnored # {}
  OBVIOUS
<1> QED BY <1>1, <1>2, <1>3 DEF PairInv

LEMMA PairInit == Init => BitInv /\ PairInv
<1> SUFFICES ASSUME Init PROVE BitInv /\ PairInv OBVIOUS
<1>1. \A t \in Tracks : Slots(t) = {} /\ injector[t] = "loop"
  BY DEF Init, Slots
<1>2. 1 \notin discontinuities
  BY StreamAssumption DEF Init
<1> QED BY <1>1, <1>2 DEF Init, BitInv, PairInv, FlagInv, HeldInv

(* An injector that is not in its loop stays out of it, and one that has   *)
(* ended or is about to stays so.                                          *)
LEMMA PairInject ==
  ASSUME TInv, BitInv, PairInv, NEW t \in Tracks,
         \/ InjectorDone(t) \/ ProcessDiscontinuity(t) \/ AfterWait(t) \/ Discontinuity(t)
         \/ NotifyOther(t) \/ SpuriousWakeup(t)
  PROVE  PairInv'
<1> USE DEF Live
<1>1. CASE InjectorDone(t)
  <2>1. ~Live'
    BY <1>1 DEF InjectorDone, At, Goto, TInv, TypeOK, StandInv, Draining
  <2> QED BY <2>1 DEF PairInv
<1>2. CASE ProcessDiscontinuity(t)
  <2>1. Live' => /\ Live
                 /\ \A u \in Tracks : injector'[u] = "loop" <=> injector[u] = "loop"
    BY <1>2 DEF ProcessDiscontinuity, At, Goto, TInv, TypeOK, history
  <2> QED
    BY <1>2, <2>1, PairKept
    DEF ProcessDiscontinuity, PairInv, contentVars, fetchVars, sinkVars
<1>3. CASE AfterWait(t)
  <2>1. Live' => /\ Live
                 /\ \A u \in Tracks : injector'[u] = "loop" <=> injector[u] = "loop"
    BY <1>3 DEF AfterWait, At, Goto, TInv, TypeOK, BitInv, history
  <2> QED
    BY <1>3, <2>1, PairKept DEF AfterWait, PairInv, contentVars, fetchVars, pairVars, sinkVars
<1>4. CASE Discontinuity(t)
  <2> SUFFICES ASSUME t \in firstBufferProcessed PROVE PairInv'
    BY <1>4 DEF Discontinuity, PairInv
  <2>1. Live' => /\ Live
                 /\ \A u \in Tracks : injector'[u] = "loop" <=> injector[u] = "loop"
    BY <1>4 DEF Discontinuity, At, Goto, TInv, TypeOK
  <2>2. \A u \in Tracks : Live /\ loop' = "idle" /\ u \in sinkEos' =>
                            u \in mProcessingDiscontinuity'
    BY <1>4 DEF Discontinuity, PairInv
  <2> QED
    BY <1>4, <2>1, <2>2, PairKept DEF Discontinuity, PairInv, contentVars, fetchVars
<1>5. CASE NotifyOther(t)
  <2>1. Live' => /\ Live
                 /\ \A u \in Tracks : injector'[u] = "loop" <=> injector[u] = "loop"
    BY <1>5, NotifyOtherMoves DEF NotifyOther, TInv, BitInv, history
  <2> QED
    BY <1>5, <2>1, PairKept DEF NotifyOther, PairInv, contentVars, fetchVars, pairVars, sinkVars
<1>6. CASE SpuriousWakeup(t)
  <2>1. Live' => /\ Live
                 /\ \A u \in Tracks : injector'[u] = "loop" <=> injector[u] = "loop"
    BY <1>6 DEF SpuriousWakeup, At, Goto, TInv, TypeOK, history
  <2> QED
    BY <1>6, <2>1, PairKept
    DEF SpuriousWakeup, PairInv, contentVars, fetchVars, pairVars, sinkVars
<1> QED BY <1>1, <1>2, <1>3, <1>4, <1>5, <1>6

LEMMA PairMonitor ==
  ASSUME TInv, PairInv, NEW t \in Tracks, Monitor(t)
  PROVE  PairInv'
<1> USE DEF Live
<1>1. CASE CheckForMediaTrackInjectionStall(t)
  <2>1. CASE t = "video"
    BY <1>1, <2>1, PairKept
    DEF CheckForMediaTrackInjectionStall, PairInv, contentVars, fetchVars, sinkVars
  <2>2. CASE t # "video"
    BY <1>1, <2>2 DEF CheckForMediaTrackInjectionStall, PairInv
  <2> QED BY <2>1, <2>2
<1>2. CASE CheckForDiscontinuityStall(t)
  <2>1. ~Live'
    BY <1>2 DEF CheckForDiscontinuityStall, TInv, StandInv
  <2> QED BY <2>1 DEF PairInv
<1> QED BY <1>1, <1>2 DEF Monitor

LEMMA PairLoop ==
  ASSUME TInv, PairInv, MainLoop \/ BeginStop \/ Stopping
  PROVE  PairInv'
<1>1. CASE NotifyEOSReached
  <2>1. Live' => Live
    BY <1>1 DEF NotifyEOSReached, Live, history
  <2>2. Live => mProcessingDiscontinuity = Tracks
    BY <1>1 DEF NotifyEOSReached, PairInv, TInv, TypeOK
  <2>3. Live => /\ loop' = "abortVideo" /\ mIsDiscontinuityIgnored' = {}
                /\ UNCHANGED mIsPeriodChangeMarked
    BY <1>1, <2>2 DEF NotifyEOSReached, Tracks
  <2>4. CASE Live
    BY <1>1, <2>1, <2>3, <2>4, PairKept DEF NotifyEOSReached, contentVars, fetchVars
  <2>5. CASE ~Live
    BY <2>1, <2>5 DEF PairInv
  <2> QED BY <2>4, <2>5
<1>2. CASE StopInjection
  <2>1. /\ loop \in Draining /\ loop' \in Draining /\ UNCHANGED stop
        /\ \E t \in Tracks : AbortInjection(t)
    BY <1>2 DEF StopInjection, Draining, Tracks
  <2>2. PICK t \in Tracks : AbortInjection(t)
    BY <2>1
  <2>3. \A u \in Tracks : injector'[u] = "loop" <=> injector[u] = "loop"
    BY <2>2, NotifyOneMoves DEF AbortInjection, TInv, TypeOK
  <2>4. Live' => Live
    BY <2>1, <2>2 DEF Live, Draining, AbortInjection, history
  <2> QED
    BY <2>1, <2>2, <2>3, <2>4, PairKept
    DEF AbortInjection, PairInv, Draining, contentVars, fetchVars, pairVars, sinkVars
<1>3. CASE Reconfigure
  <2>1. CASE gaveUp
    BY <1>3, <2>1 DEF Reconfigure, PairInv, Live
  <2>2. CASE ~gaveUp
    <3>1. Live
      BY <1>3, <2>2 DEF Reconfigure, Live, TInv, StandInv, Draining
    <3>2. \A t \in Tracks : injector[t] # "loop"
      BY <1>3 DEF Reconfigure, TInv, StandInv, Draining
    <3>3. /\ mIsDiscontinuityIgnored = {}
          /\ \A t \in Tracks : /\ fetched[t] > 0
                               /\ \A i \in Slots(t) : ~Flag(t, i)
      BY <1>3, <3>1, <3>2 DEF Reconfigure, PairInv, FlagInv, HeldInv, Draining
    <3>4. \A t \in Tracks : FlagInv(t)' /\ HeldInv(t)'
      BY <1>3, <3>3 DEF Reconfigure, FlagInv, HeldInv, Slots, Flag
    <3> QED
      BY <1>3, <3>3, <3>4, NumberFacts
      DEF Reconfigure, PairInv, Draining, fetchVars, TInv
  <2> QED BY <2>1, <2>2
<1>4. CASE BeginStop \/ AbortTracks \/ JoinInjectors
  BY <1>4 DEF BeginStop, AbortTracks, JoinInjectors, PairInv, Live
<1> QED BY <1>1, <1>2, <1>3, <1>4 DEF MainLoop, Stopping

(* A flag enters a ring when the fetcher has begun its period, and at the  *)
(* beginning of a period there is none.                                    *)
LEMMA PairFetch ==
  ASSUME TInv, PairInv, Fetcher
  PROVE  PairInv'
<1>1. CASE SelectPeriod
  <2>1. Live' => Live
    BY <1>1 DEF SelectPeriod, Live, history
  <2> SUFFICES ASSUME Live PROVE PairInv'
    BY <2>1 DEF PairInv
  <2>2. ~mIsPeriodChangeMarked
    BY <1>1 DEF SelectPeriod
  <2>3. /\ mIsDiscontinuityIgnored = {}
        /\ \A t \in Tracks : /\ injector[t] = "loop"
                             /\ \A i \in Slots(t) : ~Flag(t, i)
    BY <2>2 DEF PairInv, FlagInv, HeldInv
  <2>4. \A t \in Tracks : FlagInv(t)' /\ HeldInv(t)'
    BY <1>1, <2>3 DEF SelectPeriod, FlagInv, HeldInv, Slots, Flag
  <2> QED BY <1>1, <2>3, <2>4 DEF SelectPeriod, PairInv, contentVars, pairVars, sinkVars
<1>2. ASSUME NEW t \in Tracks, CacheFragment(t) PROVE PairInv'
  <2>1. Live' => Live
    BY <1>2 DEF CacheFragment, Live, history
  <2> SUFFICES ASSUME Live PROVE PairInv'
    BY <2>1 DEF PairInv
  <2>2. /\ UNCHANGED <<mIsPeriodChangeMarked, mIsDiscontinuityIgnored, injector,
                       mCurrentPeriod, discontinuities, loop, sinkEos, mProcessingDiscontinuity>>
        /\ \A u \in Tracks : /\ u # t => fetched'[u] = fetched[u]
                             /\ u = t => fetched'[u] = fetched[u] + 1
    BY <1>2 DEF CacheFragment, contentVars, pairVars, sinkVars, TInv, TypeOK
  <2>3. ASSUME NEW u \in Tracks, u # t PROVE FlagInv(u)' /\ HeldInv(u)'
    <3>1. mCachedFragment'[u] = mCachedFragment[u] /\ fetched'[u] = fetched[u]
      BY <1>2, <2>2, <2>3, RingCached DEF TInv
    <3>2. FlagInv(u) /\ HeldInv(u)
      BY DEF PairInv
    <3>3. FlagInv(u)'
      BY <2>2, <3>1, <3>2 DEF FlagInv, Slots, Flag, Ring
    <3> QED BY <2>2, <3>1, <3>2, <3>3 DEF HeldInv, Slots, Ring
  <2>n. PICK n \in Nat : n = Len(mCachedFragment[t])
    BY NumberFacts DEF TInv
  <2>4. /\ Len(mCachedFragment'[t]) = n + 1 /\ mCachedFragment'[t] # <<>> /\ n \in Nat
        /\ \A i \in 1..n : mCachedFragment'[t][i] = mCachedFragment[t][i]
        /\ mCachedFragment'[t][n + 1] = Fragment(t) /\ Fragment(t).period = mCurrentPeriod
        /\ fetched[t] \in Nat /\ Slots(t) = 1..n /\ Slots(t)' = 1..n + 1
    BY <1>2, <2>n, RingCached, NumberFacts DEF Slots, TInv
  <2>5. FlagInv(t)'
    <3>0. /\ \A i \in 1..n + 1 : i \in 1..n \/ i = n + 1
          /\ \A i \in 1..n : n + 1 > i /\ i \in 1..n + 1
          /\ n + 1 \in 1..n + 1
      BY <2>4
    <3>1. CASE fetched[t] = 0
      <4>1. \A i \in 1..n : ~Flag(t, i)'
        <5>1. \A i \in 1..n : ~Flag(t, i)
          BY <2>4, <3>1 DEF PairInv, FlagInv
        <5> QED BY <2>4, <5>1 DEF Flag
      <4>2. CASE mCurrentPeriod \notin discontinuities
        <5>1. ~Flag(t, n + 1)'
          BY <1>2, <2>4, <4>2, RingCached DEF Flag, TInv
        <5> QED BY <2>4, <3>0, <4>1, <5>1 DEF FlagInv
      <4>3. CASE mCurrentPeriod \in discontinuities
        <5>1. mIsPeriodChangeMarked /\ injector[t] = "loop" /\ t \notin mIsDiscontinuityIgnored
          BY <2>4, <3>1, <4>3 DEF PairInv, HeldInv
        <5>2. fetched'[t] = 1 /\ Ring(t)'[n + 1].period = mCurrentPeriod'
          BY <2>2, <2>4, <3>1 DEF Ring
        <5> QED BY <2>2, <2>4, <3>0, <4>1, <5>1, <5>2 DEF FlagInv
      <4> QED BY <4>2, <4>3
    <3>2. CASE fetched[t] > 0
      <4>1. ~Flag(t, n + 1)' /\ Ring(t)'[n + 1].media
        BY <1>2, <2>4, <3>2, RingCached DEF Flag, Ring, TInv
      <4>2. \A i \in 1..n : Flag(t, i)' <=> Flag(t, i)
        BY <2>4 DEF Flag
      <4>3. \A i \in 1..n : Flag(t, i) =>
              /\ mIsPeriodChangeMarked /\ injector[t] = "loop" /\ t \notin mIsDiscontinuityIgnored
              /\ Ring(t)'[i].period = mCurrentPeriod'
              /\ \A j \in 1..n : Flag(t, j) => i = j
        <5>1. FlagInv(t)
          BY DEF PairInv
        <5>2. \A i \in 1..n : Ring(t)'[i] = Ring(t)[i]
          BY <2>4 DEF Ring
        <5> QED BY <2>2, <2>4, <5>1, <5>2 DEF FlagInv
      <4>4. fetched'[t] > 0
        BY <2>2, <2>4
      <4> QED BY <2>2, <2>4, <3>0, <4>1, <4>2, <4>3, <4>4 DEF FlagInv
    <3> QED BY <2>4, <3>1, <3>2
  <2>6. HeldInv(t)'
    <3> SUFFICES ASSUME injector[t] # "loop" PROVE HeldInv(t)'
      BY <2>2 DEF HeldInv
    <3>1. /\ mIsPeriodChangeMarked /\ fetched[t] > 0 /\ t \notin mIsDiscontinuityIgnored
          /\ mCachedFragment[t] # <<>> /\ mCachedFragment[t][1].period = mCurrentPeriod
      BY DEF PairInv, HeldInv, Ring
    <3>2. 1 \in 1..n /\ n + 1 \in 1..n + 1
      BY <2>n, <3>1, EmptySeq, NumberFacts DEF TInv
    <3>3. Ring(t)'[1].period = mCurrentPeriod' /\ Ring(t)'[n + 1].media
      BY <1>2, <2>2, <2>4, <3>1, <3>2, RingCached DEF Ring, TInv
    <3> QED BY <2>2, <2>4, <3>1, <3>2, <3>3 DEF HeldInv, Ring
  <2>7. /\ mCurrentPeriod' \in discontinuities' /\ fetched'[t] = 0 => mIsPeriodChangeMarked'
        /\ t \in mIsDiscontinuityIgnored' => fetched'[t] > 0
    BY <2>2, <2>4
  <2> QED BY <2>2, <2>3, <2>5, <2>6, <2>7 DEF PairInv
<1>3. ASSUME NEW t \in Tracks, MarkEosReached(t) PROVE PairInv'
  <2>1. \A u \in Tracks :
          injector'[u] = injector[u] \/ (injector[u] = "wait" /\ injector'[u] = "woken")
    BY <1>3, NotifyOneMoves DEF MarkEosReached, TInv, TypeOK
  <2>2. Live' => /\ Live
                 /\ \A u \in Tracks : injector'[u] = "loop" <=> injector[u] = "loop"
    BY <1>3, <2>1 DEF MarkEosReached, Live, history
  <2> QED
    BY <1>3, <2>2, PairKept DEF MarkEosReached, PairInv, contentVars, pairVars, sinkVars
<1> QED BY <1>1, <1>2, <1>3 DEF Fetcher

(* Fragments without a flag leave the ring from the front; the media that  *)
(* follow a flag stay behind it.                                           *)
LEMMA PairProcess ==
  ASSUME TInv, PairInv, NEW t \in Tracks, ProcessAndInjectFragment(t)
  PROVE  PairInv'
<1>1. Live' => Live
  BY DEF ProcessAndInjectFragment, Live
<1> SUFFICES ASSUME Live PROVE PairInv'
  BY <1>1 DEF PairInv
<1>2. /\ UNCHANGED <<mIsPeriodChangeMarked, mIsDiscontinuityIgnored, injector, fetched,
                     mCurrentPeriod, discontinuities, loop, sinkEos, mProcessingDiscontinuity>>
      /\ injector[t] = "loop"
  BY DEF ProcessAndInjectFragment, Injecting, At, contentVars, fetchVars, pairVars
<1>3. \A u \in Tracks : FlagInv(u) /\ HeldInv(u)
  BY DEF PairInv
<1>4. ASSUME NEW u \in Tracks, u # t PROVE FlagInv(u)' /\ HeldInv(u)'
  <2>1. mCachedFragment'[u] = mCachedFragment[u]
    BY <1>4, RingInjected DEF TInv
  <2>2. FlagInv(u)'
    BY <1>2, <1>3, <2>1 DEF FlagInv, Slots, Flag, Ring
  <2> QED BY <1>2, <1>3, <2>1, <2>2 DEF HeldInv, Slots, Ring
<1>5. HeldInv(t)'
  BY <1>2 DEF HeldInv
<1>6. FlagInv(t)'
  <2>1. PICK n \in Nat : n = Len(mCachedFragment[t])
    BY NumberFacts DEF TInv
  <2>2. /\ Slots(t) = 1..n /\ Slots(t)' = 1..n - 1
        /\ \A i \in 1..n - 1 : /\ i + 1 \in 1..n
                               /\ Ring(t)'[i] = Ring(t)[i + 1]
                               /\ Flag(t, i)' <=> Flag(t, i + 1)
    BY <2>1, RingInjected DEF Slots, Ring, Flag, TInv
  <2> SUFFICES ASSUME NEW i \in 1..n - 1, Flag(t, i + 1)
               PROVE  /\ mIsPeriodChangeMarked /\ fetched[t] > 0
                      /\ t \notin mIsDiscontinuityIgnored
                      /\ Ring(t)'[i].period = mCurrentPeriod
                      /\ \A j \in 1..n - 1 : Flag(t, j)' => i = j
                      /\ fetched[t] >= 2 => \E j \in 1..n - 1 : j > i /\ Ring(t)'[j].media
    BY <1>2, <2>2 DEF FlagInv
  <2>3. /\ mIsPeriodChangeMarked /\ fetched[t] > 0 /\ t \notin mIsDiscontinuityIgnored
        /\ Ring(t)'[i].period = mCurrentPeriod
        /\ \A j \in 1..n : Flag(t, j) => i + 1 = j
        /\ fetched[t] >= 2 => \E j \in 1..n : j > i + 1 /\ Ring(t)[j].media
    BY <1>3, <2>2 DEF FlagInv
  <2>4. \A j \in 1..n - 1 : Flag(t, j)' => i = j
    BY <2>2, <2>3
  <2>5. ASSUME fetched[t] >= 2 PROVE \E j \in 1..n - 1 : j > i /\ Ring(t)'[j].media
    <3>1. PICK j \in 1..n : j > i + 1 /\ Ring(t)[j].media
      BY <2>3, <2>5
    <3>2. j - 1 \in 1..n - 1 /\ j - 1 > i /\ (j - 1) + 1 = j
      BY <3>1
    <3> QED BY <2>2, <3>1, <3>2
  <2> QED BY <2>3, <2>4, <2>5
<1> QED BY <1>2, <1>4, <1>5, <1>6 DEF PairInv

(* CheckForDiscontinuity takes the only flag from the ring.  The second    *)
(* track to ignore a discontinuity finds the note of the first, which has  *)
(* passed it, and with it settled the fetcher may go on.                   *)
LEMMA PairCheck ==
  ASSUME TInv, PairInv, NEW t \in Tracks, CheckForDiscontinuity(t)
  PROVE  PairInv'
<1>1. Live' => Live
  BY DEF CheckForDiscontinuity, Injecting, At, Goto, Live, history, TInv, TypeOK
<1> SUFFICES ASSUME Live PROVE PairInv'
  BY <1>1 DEF PairInv
<1>2. /\ UNCHANGED <<fetched, mCurrentPeriod, discontinuities, loop, sinkEos,
                     mProcessingDiscontinuity>>
      /\ injector[t] = "loop" /\ loop \notin Draining
      /\ \A u \in Tracks : u # t => injector'[u] = injector[u]
  BY DEF CheckForDiscontinuity, Injecting, At, Goto, contentVars, fetchVars, sinkVars, TInv,
         TypeOK, StandInv
<1>3. /\ Flag(t, 1) /\ 1 \in Slots(t) /\ Slots(t)' = Slots(t) /\ Ring(t)' # <<>>
      /\ \A i \in Slots(t) : /\ Ring(t)'[i].period = Ring(t)[i].period
                             /\ Ring(t)'[i].media = Ring(t)[i].media
                             /\ Flag(t, i)' <=> i # 1 /\ Flag(t, i)
      /\ \A u \in Tracks : u # t => mCachedFragment'[u] = mCachedFragment[u]
  BY RingChecked DEF Slots, Ring, Flag, TInv
<1>4. \A u \in Tracks : FlagInv(u) /\ HeldInv(u)
  BY DEF PairInv
<1>5. /\ mIsPeriodChangeMarked /\ fetched[t] > 0 /\ t \notin mIsDiscontinuityIgnored
      /\ Ring(t)[1].period = mCurrentPeriod
      /\ \A j \in Slots(t) : Flag(t, j) => 1 = j
      /\ fetched[t] >= 2 => \E j \in Slots(t) : Ring(t)[j].media
  BY <1>3, <1>4 DEF FlagInv
<1>6. FlagInv(t)'
  BY <1>3, <1>5 DEF FlagInv
<1>7. CASE injector' = Goto(t, "process") /\ UNCHANGED <<mIsDiscontinuityIgnored, mIsPeriodChangeMarked>>
  <2>1. HeldInv(t)'
    BY <1>2, <1>3, <1>5, <1>7 DEF HeldInv
  <2>2. ASSUME NEW u \in Tracks, u # t PROVE FlagInv(u)' /\ HeldInv(u)'
    <3>1. mCachedFragment'[u] = mCachedFragment[u] /\ injector'[u] = injector[u]
      BY <1>2, <1>3, <2>2
    <3>2. FlagInv(u)'
      BY <1>2, <1>4, <1>7, <3>1 DEF FlagInv, Slots, Flag, Ring
    <3> QED BY <1>2, <1>4, <1>7, <3>1, <3>2 DEF HeldInv, Slots, Ring
  <2> QED BY <1>2, <1>6, <1>7, <2>1, <2>2 DEF PairInv
<1>8. CASE NoteIgnored(t) /\ UNCHANGED injector
  <2>1. HeldInv(t)'
    BY <1>2, <1>8 DEF HeldInv
  <2>2. CASE Other(t) \in mIsDiscontinuityIgnored
    <3>1. mIsPeriodChangeMarked' = FALSE /\ mIsDiscontinuityIgnored' = {}
      BY <1>8, <2>2 DEF NoteIgnored
    <3>2. /\ Other(t) \in Tracks /\ \A u \in Tracks : u # t => u = Other(t)
      BY DEF Other, Tracks
    <3>3. /\ fetched[Other(t)] > 0 /\ injector[Other(t)] = "loop"
          /\ \A i \in Slots(Other(t)) : ~Flag(Other(t), i)
      BY <1>4, <2>2, <3>2 DEF PairInv, FlagInv, HeldInv
    <3>4. FlagInv(Other(t))' /\ HeldInv(Other(t))'
      <4>1. mCachedFragment'[Other(t)] = mCachedFragment[Other(t)] \/ Other(t) = t
        BY <1>3, <3>2
      <4> QED BY <1>6, <1>8, <2>1, <3>3, <4>1 DEF FlagInv, HeldInv, Slots, Flag
    <3>5. \A u \in Tracks : FlagInv(u)' /\ HeldInv(u)'
      BY <1>6, <2>1, <3>2, <3>4
    <3>6. \A u \in Tracks : ~(fetched[u] = 0)
      BY <1>5, <3>2, <3>3, NumberFacts DEF TInv
    <3> QED BY <1>2, <3>1, <3>5, <3>6 DEF PairInv
  <2>3. CASE Other(t) \notin mIsDiscontinuityIgnored
    <3>1. /\ mIsDiscontinuityIgnored' = mIsDiscontinuityIgnored \union {t}
          /\ UNCHANGED mIsPeriodChangeMarked
      BY <1>8, <2>3 DEF NoteIgnored
    <3>2. ASSUME NEW u \in Tracks, u # t PROVE FlagInv(u)' /\ HeldInv(u)'
      <4>1. mCachedFragment'[u] = mCachedFragment[u] /\ injector'[u] = injector[u]
        BY <1>2, <1>3, <3>2
      <4>2. u \in mIsDiscontinuityIgnored' <=> u \in mIsDiscontinuityIgnored
        BY <3>1, <3>2
      <4>3. FlagInv(u)'
        BY <1>2, <1>4, <3>1, <4>1, <4>2 DEF FlagInv, Slots, Flag, Ring
      <4> QED BY <1>2, <1>4, <3>1, <4>1, <4>2, <4>3 DEF HeldInv, Slots, Ring
    <3> QED BY <1>2, <1>5, <1>6, <2>1, <3>1, <3>2 DEF PairInv
  <2> QED BY <2>2, <2>3
<1> QED BY <1>7, <1>8 DEF CheckForDiscontinuity

LEMMA PairStep == TInv /\ BitInv /\ PairInv /\ [Next]_vars => PairInv'
<1> SUFFICES ASSUME TInv, BitInv, PairInv, [Next]_vars PROVE PairInv' OBVIOUS
<1>1. CASE UNCHANGED vars
  <2>1. Live' => Live
    BY <1>1 DEF vars, Live, history
  <2> QED
    BY <1>1, <2>1, PairKept
    DEF vars, PairInv, contentVars, fetchVars, pairVars, sinkVars
<1>2. ASSUME NEW t \in Tracks, Injector(t) \/ SpuriousWakeup(t) \/ Monitor(t) PROVE PairInv'
  BY <1>2, PairInject, PairProcess, PairCheck, PairMonitor DEF Injector
<1> QED BY <1>1, <1>2, PairFetch, PairLoop DEF Next

(* Both tracks stand at the discontinuity of one period when               *)
(* ProcessPendingDiscontinuity configures the pipeline, unless one of them *)
(* was let go: for any number of periods, any discontinuities and codec    *)
(* changes, any failed downloads and any wake-ups, the bits of mTrackState *)
(* and the notes of CheckForDiscontinuity pair like with like.             *)
THEOREM TracksArePaired == Spec => []PairedWhenConfigured
<1>1. TInv /\ PairInv => PairedWhenConfigured
  <2> SUFFICES ASSUME TInv, PairInv, ~gaveUp, loop = "joinAudio"
               PROVE  /\ \A t \in Tracks : mCachedFragment[t] # <<>>
                      /\ Current("video").period = Current("audio").period
    BY DEF PairedWhenConfigured, ConfiguredTogether
  <2>1. Live /\ \A t \in Tracks : injector[t] # "loop"
    BY DEF Live, TInv, StandInv, Draining
  <2>2. \A t \in Tracks : /\ mCachedFragment[t] # <<>>
                          /\ mCachedFragment[t][1].period = mCurrentPeriod
    BY <2>1 DEF PairInv, HeldInv, Ring
  <2>3. \A t \in Tracks : Current(t) = mCachedFragment[t][1]
    BY <2>2, HeadOfRing DEF Current, TInv, TypeOK
  <2> QED BY <2>2, <2>3 DEF Tracks
<1> QED BY <1>1, TypeInit, PairInit, TypeStep, BitStep, PairStep, PTL DEF Spec

------------------------------------------------------------------------------
(* Nothing slips past a discontinuity.                                     *)

LEMMA NoneInit == Init => NoneInv
<1> SUFFICES ASSUME Init PROVE NoneInv OBVIOUS
<1>1. \A t \in Tracks : Slots(t) = {} /\ injector[t] = "loop"
  BY DEF Init, Slots
<1>2. 1 \notin discontinuities /\ \A d \in discontinuities : d \in Nat /\ d > 1
  BY StreamAssumption DEF Init
<1> QED BY <1>1, <1>2 DEF Init, NoneInv, MediaFirst, FlagAhead, Barrier

LEMMA NoneKept ==
  ASSUME NoneInv,
         UNCHANGED <<failed, discontinuities, mCurrentPeriod, fetched, mCachedFragment,
                     totalInjectedDuration, configured, lastInjected>>,
         ~gaveUp' => /\ ~gaveUp
                     /\ mIsDiscontinuityIgnored' \subseteq mIsDiscontinuityIgnored
                     /\ \A t \in Tracks : injector'[t] = "loop" => injector[t] = "loop"
  PROVE  NoneInv'
<1> SUFFICES ASSUME failed = {}, ~gaveUp' PROVE NoneInv' BY DEF NoneInv
<1>1. \A t \in Tracks : MediaFirst(t)'
  BY DEF NoneInv, MediaFirst, Slots, Flag, Ring
<1>2. \A t \in Tracks : FlagAhead(t)'
  BY DEF NoneInv, FlagAhead, Slots, Flag
<1>3. \A t \in Tracks : Barrier(t)'
  BY DEF NoneInv, Barrier, Slots, Flag, Ring
<1>4. mIsDiscontinuityIgnored' = {}
  BY DEF NoneInv
<1> QED BY <1>1, <1>2, <1>3, <1>4 DEF NoneInv

LEMMA NoneFetch ==
  ASSUME TInv, NoneInv, Fetcher
  PROVE  NoneInv'
<1>1. CASE SelectPeriod
  <2> SUFFICES ASSUME failed = {}, ~gaveUp PROVE NoneInv'
    BY <1>1 DEF SelectPeriod, NoneInv, contentVars, history
  <2>1. /\ UNCHANGED <<discontinuities, mCachedFragment, injector, totalInjectedDuration,
                       configured, lastInjected, mIsDiscontinuityIgnored>>
        /\ mCurrentPeriod' = mCurrentPeriod + 1
        /\ \A t \in Tracks : fetched'[t] = 0
    BY <1>1 DEF SelectPeriod, contentVars, pairVars, history
  <2>2. mCurrentPeriod' > configured
    BY <2>1, NumberFacts DEF TInv, CountInv
  <2>3. \A t \in Tracks : fetched[t] >= 2
    <3> SUFFICES ASSUME NEW t \in Tracks PROVE fetched[t] >= 2 OBVIOUS
    <3>1. fetched[t] = content[t] + 1
      BY <1>1 DEF SelectPeriod, PeriodFetched, MediaOf
    <3>2. content[t] \in Nat /\ content[t] >= 1
      BY StreamAssumption DEF TInv, TypeOK
    <3> QED BY <3>1, <3>2
  <2>4. ASSUME NEW t \in Tracks PROVE MediaFirst(t)' /\ FlagAhead(t)'
    BY <2>1, <2>2, <2>3 DEF NoneInv, MediaFirst, FlagAhead, Slots, Flag, Ring
  <2>5. ASSUME NEW t \in Tracks PROVE Barrier(t)'
    <3>1. \A d \in discontinuities : d < mCurrentPeriod' =>
             d < mCurrentPeriod \/ (d = mCurrentPeriod /\ fetched[t] > 0)
      BY <2>1, <2>3, NumberFacts DEF TInv
    <3>2. Barrier(t) /\ fetched'[t] = 0
      BY <2>1 DEF NoneInv
    <3> QED BY <2>1, <3>1, <3>2 DEF Barrier, Slots, Flag, Ring
  <2> QED BY <2>1, <2>4, <2>5 DEF NoneInv
<1>2. ASSUME NEW t \in Tracks, CacheFragment(t) PROVE NoneInv'
  <2> SUFFICES ASSUME failed = {}, ~gaveUp PROVE NoneInv'
    BY <1>2 DEF CacheFragment, NoneInv, contentVars, history
  <2>1. /\ UNCHANGED <<discontinuities, mCurrentPeriod, injector, totalInjectedDuration,
                       configured, lastInjected, mIsDiscontinuityIgnored>>
        /\ \A u \in Tracks : /\ u # t => fetched'[u] = fetched[u]
                             /\ u = t => fetched'[u] = fetched[u] + 1
    BY <1>2 DEF CacheFragment, contentVars, pairVars, history, TInv, TypeOK
  <2>2. \A u \in Tracks : MediaFirst(u) /\ FlagAhead(u) /\ Barrier(u)
    BY DEF NoneInv
  <2>3. ASSUME NEW u \in Tracks, u # t PROVE MediaFirst(u)' /\ FlagAhead(u)' /\ Barrier(u)'
    <3>1. mCachedFragment'[u] = mCachedFragment[u] /\ fetched'[u] = fetched[u]
      BY <1>2, <2>1, <2>3, RingCached DEF TInv
    <3>2. MediaFirst(u)'
      BY <2>1, <2>2, <3>1 DEF MediaFirst, Slots, Flag, Ring
    <3>3. FlagAhead(u)'
      BY <2>1, <2>2, <3>1 DEF FlagAhead, Slots, Flag
    <3>4. Barrier(u)'
      BY <2>1, <2>2, <3>1 DEF Barrier, Slots, Flag, Ring
    <3> QED BY <3>2, <3>3, <3>4
  <2>n. PICK n \in Nat : n = Len(mCachedFragment[t])
    BY NumberFacts DEF TInv
  <2>4. /\ Slots(t) = 1..n /\ Slots(t)' = 1..n + 1
        /\ \A i \in 1..n : Ring(t)'[i] = Ring(t)[i] /\ (Flag(t, i)' <=> Flag(t, i))
        /\ fetched[t] \in Nat
    BY <1>2, <2>n, RingCached, NumberFacts DEF Slots, Ring, Flag, TInv
  <2>5. /\ Ring(t)'[n + 1].period = mCurrentPeriod
        /\ Ring(t)'[n + 1].media <=> fetched[t] > 0
        /\ Flag(t, n + 1)' <=> fetched[t] = 0 /\ mCurrentPeriod \in discontinuities
    BY <1>2, <2>n, RingCached DEF Ring, Flag, TInv
  <2>6. /\ \A i \in 1..n + 1 : i \in 1..n \/ i = n + 1
        /\ \A i \in 1..n : i < n + 1 /\ ~(n + 1 <= i) /\ i \in 1..n + 1
        /\ n + 1 \in 1..n + 1
    OBVIOUS
  <2>7. MediaFirst(t)'
    <3> SUFFICES ASSUME totalInjectedDuration[t] = 0,
                        fetched[t] + 1 >= 2 \/ mCurrentPeriod > configured
                 PROVE  \E i \in 1..n + 1 : /\ Ring(t)'[i].media
                                            /\ \A j \in 1..n + 1 : j <= i => ~Flag(t, j)'
      BY <2>1, <2>4 DEF MediaFirst
    <3>1. CASE fetched[t] >= 2 \/ mCurrentPeriod > configured
      <4>1. PICK i \in 1..n : Ring(t)[i].media /\ \A j \in 1..n : j <= i => ~Flag(t, j)
        BY <2>2, <2>4, <3>1 DEF MediaFirst
      <4> QED BY <2>4, <2>6, <4>1
    <3>2. CASE ~(fetched[t] >= 2 \/ mCurrentPeriod > configured)
      <4>1. fetched[t] = 1
        BY <2>4, <3>2
      <4>2. \A j \in 1..n : ~Flag(t, j)
        BY <2>2, <2>4, <3>2 DEF FlagAhead
      <4> QED BY <2>4, <2>5, <2>6, <4>1, <4>2
    <3> QED BY <3>1, <3>2
  <2>8. FlagAhead(t)'
    BY <2>1, <2>2, <2>4, <2>5, <2>6 DEF FlagAhead
  <2>9. Barrier(t)'
    <3> SUFFICES ASSUME NEW d \in discontinuities, d > configured
                 PROVE  /\ lastInjected[t] < d
                        /\ injector[t] = "loop" =>
                             /\ \A i \in 1..n + 1 : Ring(t)'[i].period >= d =>
                                  \E j \in 1..n + 1 : j <= i /\ Flag(t, j)'
                             /\ d < mCurrentPeriod \/ (d = mCurrentPeriod /\ fetched'[t] > 0) =>
                                  \E j \in 1..n + 1 : Flag(t, j)'
      BY <2>1, <2>4 DEF Barrier
    <3>1. lastInjected[t] < d
      BY <2>2 DEF Barrier
    <3> SUFFICES ASSUME injector[t] = "loop"
                 PROVE  /\ \A i \in 1..n + 1 : Ring(t)'[i].period >= d =>
                             \E j \in 1..n + 1 : j <= i /\ Flag(t, j)'
                        /\ d < mCurrentPeriod \/ (d = mCurrentPeriod /\ fetched'[t] > 0) =>
                             \E j \in 1..n + 1 : Flag(t, j)'
      BY <3>1
    <3>2. ASSUME mCurrentPeriod >= d PROVE \E j \in 1..n + 1 : j <= n + 1 /\ Flag(t, j)'
      <4>1. CASE d < mCurrentPeriod \/ (d = mCurrentPeriod /\ fetched[t] > 0)
        <5>1. PICK j \in 1..n : Flag(t, j)
          BY <2>2, <2>4, <4>1 DEF Barrier
        <5> QED BY <2>4, <2>6, <5>1
      <4>2. CASE d = mCurrentPeriod /\ fetched[t] = 0
        BY <2>5, <2>6, <4>2
      <4> QED BY <2>4, <3>2, <4>1, <4>2, NumberFacts DEF TInv
    <3>3. ASSUME NEW i \in 1..n + 1, Ring(t)'[i].period >= d
          PROVE  \E j \in 1..n + 1 : j <= i /\ Flag(t, j)'
      <4>1. CASE i \in 1..n
        <5>1. PICK j \in 1..n : j <= i /\ Flag(t, j)
          BY <2>2, <2>4, <3>3, <4>1 DEF Barrier
        <5> QED BY <2>4, <2>6, <5>1
      <4>2. CASE i = n + 1
        BY <2>5, <3>2, <3>3, <4>2
      <4> QED BY <2>6, <4>1, <4>2
    <3>4. d < mCurrentPeriod \/ d = mCurrentPeriod => mCurrentPeriod >= d
      BY NumberFacts DEF TInv
    <3> QED BY <3>2, <3>3, <3>4
  <2> QED BY <2>1, <2>3, <2>7, <2>8, <2>9 DEF NoneInv
<1>3. ASSUME NEW t \in Tracks, MarkEosReached(t) PROVE NoneInv'
  <2>1. \A u \in Tracks : injector'[u] = "loop" => injector[u] = "loop"
    BY <1>3, NotifyOneMoves DEF MarkEosReached, TInv, TypeOK
  <2> QED BY <1>3, <2>1, NoneKept DEF MarkEosReached, contentVars, pairVars, history
<1> QED BY <1>1, <1>2, <1>3 DEF Fetcher

(* An injected fragment carries no flag, so with what is configured it     *)
(* lies before every discontinuity.                                        *)
LEMMA NoneProcess ==
  ASSUME TInv, NoneInv, NEW t \in Tracks, ProcessAndInjectFragment(t)
  PROVE  NoneInv'
<1> SUFFICES ASSUME failed = {}, ~gaveUp PROVE NoneInv'
  BY DEF ProcessAndInjectFragment, NoneInv, contentVars
<1>1. /\ UNCHANGED <<discontinuities, mCurrentPeriod, fetched, injector, configured,
                     mIsDiscontinuityIgnored>>
      /\ injector[t] = "loop"
  BY DEF ProcessAndInjectFragment, Injecting, At, contentVars, fetchVars, pairVars
<1>2. \A u \in Tracks : MediaFirst(u) /\ FlagAhead(u) /\ Barrier(u)
  BY DEF NoneInv
<1>3. /\ lastInjected'[t] = Ring(t)[1].period
      /\ \A u \in Tracks : u # t => /\ lastInjected'[u] = lastInjected[u]
                                    /\ totalInjectedDuration'[u] = totalInjectedDuration[u]
      /\ totalInjectedDuration'[t] =
           totalInjectedDuration[t] + (IF Ring(t)[1].media THEN 1 ELSE 0)
  <2>1. Current(t) = Ring(t)[1]
    BY RingInjected DEF Ring, TInv
  <2> QED BY <2>1, NumberFacts DEF ProcessAndInjectFragment, TInv, TypeOK
<1>4. ASSUME NEW u \in Tracks, u # t PROVE MediaFirst(u)' /\ FlagAhead(u)' /\ Barrier(u)'
  <2>1. mCachedFragment'[u] = mCachedFragment[u]
    BY <1>4, RingInjected DEF TInv
  <2>2. MediaFirst(u)'
    BY <1>1, <1>2, <1>3, <1>4, <2>1 DEF MediaFirst, Slots, Flag, Ring
  <2>3. FlagAhead(u)'
    BY <1>1, <1>2, <2>1 DEF FlagAhead, Slots, Flag
  <2>4. Barrier(u)'
    BY <1>1, <1>2, <1>3, <1>4, <2>1 DEF Barrier, Slots, Flag, Ring
  <2> QED BY <2>2, <2>3, <2>4
<1>n. PICK n \in Nat : n = Len(mCachedFragment[t])
  BY NumberFacts DEF TInv
<1>5. /\ Slots(t) = 1..n /\ Slots(t)' = 1..n - 1 /\ 1 \in 1..n /\ ~Flag(t, 1)
      /\ \A i \in 1..n - 1 : /\ i + 1 \in 1..n
                             /\ Ring(t)'[i] = Ring(t)[i + 1]
                             /\ Flag(t, i)' <=> Flag(t, i + 1)
  BY <1>n, RingInjected DEF Slots, Ring, Flag, TInv
<1>6. \A j \in 1..n : j # 1 => j - 1 \in 1..n - 1 /\ (j - 1) + 1 = j
  OBVIOUS
<1>7. MediaFirst(t)'
  <2> SUFFICES ASSUME totalInjectedDuration'[t] = 0, fetched[t] >= 2 \/ mCurrentPeriod > configured
               PROVE  \E i \in 1..n - 1 : /\ Ring(t)'[i].media
                                          /\ \A j \in 1..n - 1 : j <= i => ~Flag(t, j)'
    BY <1>1, <1>5 DEF MediaFirst
  <2>1. totalInjectedDuration[t] = 0 /\ ~Ring(t)[1].media
    BY <1>3, NumberFacts DEF TInv
  <2>2. PICK i \in 1..n : Ring(t)[i].media /\ \A j \in 1..n : j <= i => ~Flag(t, j)
    BY <1>2, <1>5, <2>1 DEF MediaFirst
  <2>3. i - 1 \in 1..n - 1 /\ (i - 1) + 1 = i
    BY <1>6, <2>1, <2>2
  <2>4. \A j \in 1..n - 1 : j <= i - 1 => j + 1 <= i
    OBVIOUS
  <2> QED BY <1>5, <2>2, <2>3, <2>4
<1>8. FlagAhead(t)'
  BY <1>1, <1>2, <1>5 DEF FlagAhead
<1>9. Barrier(t)'
  <2> SUFFICES ASSUME NEW d \in discontinuities, d > configured
               PROVE  /\ lastInjected'[t] < d
                      /\ \A i \in 1..n - 1 : Ring(t)'[i].period >= d =>
                           \E j \in 1..n - 1 : j <= i /\ Flag(t, j)'
                      /\ d < mCurrentPeriod \/ (d = mCurrentPeriod /\ fetched[t] > 0) =>
                           \E j \in 1..n - 1 : Flag(t, j)'
    BY <1>1, <1>5 DEF Barrier
  <2>1. /\ \A i \in 1..n : Ring(t)[i].period >= d => \E j \in 1..n : j <= i /\ Flag(t, j)
        /\ d < mCurrentPeriod \/ (d = mCurrentPeriod /\ fetched[t] > 0) =>
             \E j \in 1..n : Flag(t, j)
    BY <1>1, <1>2, <1>5 DEF Barrier
  <2>2. Ring(t)[1].period < d
    <3>1. ~(\E j \in 1..n : j <= 1 /\ Flag(t, j))
      BY <1>5
    <3>2. d \in Nat /\ Ring(t)[1].period \in Nat /\ ~(Ring(t)[1].period >= d)
      <4>1. d \in Nat /\ Ring(t)[1].period \in Nat
        BY <1>5, <1>n, NumberFacts DEF TInv, Ring
      <4> QED BY <1>5, <2>1, <3>1, <4>1
    <3> QED BY <3>2
  <2>3. ASSUME NEW i \in 1..n - 1, Ring(t)'[i].period >= d
        PROVE  \E j \in 1..n - 1 : j <= i /\ Flag(t, j)'
    <3>1. PICK j \in 1..n : j <= i + 1 /\ Flag(t, j)
      BY <1>5, <2>1, <2>3
    <3>2. j - 1 \in 1..n - 1 /\ (j - 1) + 1 = j /\ j - 1 <= i
      BY <1>5, <1>6, <3>1
    <3> QED BY <1>5, <3>1, <3>2
  <2>4. ASSUME NEW j \in 1..n, Flag(t, j) PROVE \E k \in 1..n - 1 : Flag(t, k)'
    <3>1. j - 1 \in 1..n - 1 /\ (j - 1) + 1 = j
      BY <1>5, <1>6, <2>4
    <3> QED BY <1>5, <2>4, <3>1
  <2> QED BY <1>3, <2>1, <2>2, <2>3, <2>4
<1> QED BY <1>1, <1>4, <1>7, <1>8, <1>9 DEF NoneInv

(* A track that comes to a flag has media in the pipeline and there are no *)
(* notes, so the discontinuity is not ignored and the injector stops.      *)
LEMMA NoneCheck ==
  ASSUME TInv, NoneInv, NEW t \in Tracks, CheckForDiscontinuity(t)
  PROVE  NoneInv'
<1> SUFFICES ASSUME failed = {}, ~gaveUp PROVE NoneInv'
  BY DEF CheckForDiscontinuity, NoneInv, contentVars, history
<1>1. /\ UNCHANGED <<discontinuities, mCurrentPeriod, fetched, configured, lastInjected,
                     totalInjectedDuration>>
  BY DEF CheckForDiscontinuity, contentVars, fetchVars, history
<1>2. /\ mIsDiscontinuityIgnored = {}
      /\ \A u \in Tracks : MediaFirst(u) /\ FlagAhead(u) /\ Barrier(u)
  BY DEF NoneInv
<1>3. /\ Flag(t, 1) /\ 1 \in Slots(t) /\ Slots(t)' = Slots(t)
      /\ \A i \in Slots(t) : /\ Ring(t)'[i].media = Ring(t)[i].media
                             /\ Flag(t, i)' <=> i # 1 /\ Flag(t, i)
      /\ \A u \in Tracks : u # t => mCachedFragment'[u] = mCachedFragment[u]
  BY RingChecked DEF Slots, Ring, Flag, TInv
<1>4. totalInjectedDuration[t] # 0
  <2>1. mCurrentPeriod > configured
    BY <1>2, <1>3 DEF FlagAhead
  <2>2. \A i \in Slots(t) : 1 <= i
    BY DEF Slots
  <2> QED BY <1>2, <1>3, <2>1, <2>2 DEF MediaFirst
<1>5. /\ mIsDiscontinuityIgnored' = {} /\ injector'[t] = "process"
      /\ \A u \in Tracks : u # t => injector'[u] = injector[u]
  BY <1>2, <1>4 DEF CheckForDiscontinuity, Goto, TInv, TypeOK
<1>6. MediaFirst(t)' /\ FlagAhead(t)' /\ Barrier(t)'
  <2>1. MediaFirst(t)'
    BY <1>1, <1>4 DEF MediaFirst
  <2>2. FlagAhead(t)'
    BY <1>1, <1>2, <1>3 DEF FlagAhead
  <2>3. Barrier(t)'
    BY <1>1, <1>2, <1>5 DEF Barrier
  <2> QED BY <2>1, <2>2, <2>3
<1>7. ASSUME NEW u \in Tracks, u # t PROVE MediaFirst(u)' /\ FlagAhead(u)' /\ Barrier(u)'
  <2>1. mCachedFragment'[u] = mCachedFragment[u] /\ injector'[u] = injector[u]
    BY <1>3, <1>5, <1>7
  <2>2. MediaFirst(u)'
    BY <1>1, <1>2, <2>1 DEF MediaFirst, Slots, Flag, Ring
  <2>3. FlagAhead(u)'
    BY <1>1, <1>2, <2>1 DEF FlagAhead, Slots, Flag
  <2>4. Barrier(u)'
    BY <1>1, <1>2, <2>1 DEF Barrier, Slots, Flag, Ring
  <2> QED BY <2>2, <2>3, <2>4
<1> QED BY <1>5, <1>6, <1>7 DEF NoneInv

(* No other step of an injector or a monitor brings one back to its loop   *)
(* or leaves a note, unless a track is let go.                             *)
LEMMA NoneInject ==
  ASSUME TInv, BitInv, NoneInv, NEW t \in Tracks,
         \/ InjectorDone(t) \/ ProcessDiscontinuity(t) \/ AfterWait(t) \/ Discontinuity(t)
         \/ NotifyOther(t) \/ SpuriousWakeup(t) \/ Monitor(t)
  PROVE  NoneInv'
<1>1. CASE InjectorDone(t)
  BY <1>1, NoneKept DEF InjectorDone, Goto, TInv, TypeOK, contentVars, fetchVars, pairVars, history
<1>2. CASE ProcessDiscontinuity(t)
  BY <1>2, NoneKept DEF ProcessDiscontinuity, Goto, TInv, TypeOK, contentVars, fetchVars, history
<1>3. CASE AfterWait(t)
  <2>1. ~gaveUp => \A u \in Tracks : injector'[u] = "loop" => injector[u] = "loop"
    BY <1>3 DEF AfterWait, At, Goto, TInv, TypeOK, BitInv
  <2> QED BY <1>3, <2>1, NoneKept DEF AfterWait, contentVars, fetchVars, pairVars, history
<1>4. CASE Discontinuity(t)
  BY <1>4, NoneKept DEF Discontinuity, Goto, TInv, TypeOK, contentVars, fetchVars
<1>5. CASE NotifyOther(t)
  <2>1. ~gaveUp => \A u \in Tracks : injector'[u] = "loop" => injector[u] = "loop"
    BY <1>5, NotifyOtherMoves DEF TInv, BitInv
  <2> QED BY <1>5, <2>1, NoneKept DEF NotifyOther, contentVars, fetchVars, pairVars, history
<1>6. CASE SpuriousWakeup(t)
  BY <1>6, NoneKept DEF SpuriousWakeup, Goto, TInv, TypeOK, contentVars, fetchVars, pairVars, history
<1>7. CASE CheckForMediaTrackInjectionStall(t)
  <2>1. ~gaveUp' => UNCHANGED <<gaveUp, mIsDiscontinuityIgnored, injector>>
    BY <1>7 DEF CheckForMediaTrackInjectionStall
  <2> QED BY <1>7, <2>1, NoneKept DEF CheckForMediaTrackInjectionStall, contentVars, fetchVars
<1>8. CASE CheckForDiscontinuityStall(t)
  BY <1>8, NoneKept DEF CheckForDiscontinuityStall, contentVars, fetchVars, history
<1> QED BY <1>1, <1>2, <1>3, <1>4, <1>5, <1>6, <1>7, <1>8 DEF Monitor

(* When the pipeline is configured both tracks are at the discontinuity of *)
(* the fetcher's period, and there is none beyond it yet.                  *)
LEMMA NoneConfigured ==
  ASSUME TInv, PairInv, NoneInv, Reconfigure
  PROVE  NoneInv'
<1> SUFFICES ASSUME failed = {}, ~gaveUp PROVE NoneInv'
  BY DEF Reconfigure, NoneInv, contentVars
<1>1. Live /\ \A t \in Tracks : injector[t] # "loop"
  BY DEF Reconfigure, Live, TInv, StandInv, Draining
<1>2. \A t \in Tracks : /\ fetched[t] > 0 /\ Ring(t) # <<>> /\ Ring(t)[1].period = mCurrentPeriod
                        /\ fetched[t] >= 2 => \E j \in Slots(t) : Ring(t)[j].media
                        /\ \A i \in Slots(t) : ~Flag(t, i)
  BY <1>1 DEF PairInv, FlagInv, HeldInv
<1>3. Current("video") = Ring("video")[1]
  BY <1>2, HeadOfRing DEF Current, Ring, Tracks, TInv, TypeOK
<1>4. /\ UNCHANGED <<discontinuities, mCurrentPeriod, fetched, mCachedFragment, lastInjected,
                     mIsDiscontinuityIgnored>>
      /\ configured' = mCurrentPeriod
  BY <1>2, <1>3 DEF Reconfigure, Tracks, contentVars, fetchVars
<1>5. ASSUME NEW t \in Tracks PROVE MediaFirst(t)' /\ FlagAhead(t)' /\ Barrier(t)'
  <2>0. ~(mCurrentPeriod > mCurrentPeriod) /\ ~(fetched[t] = 0)
    BY <1>2, NumberFacts DEF TInv
  <2>1. MediaFirst(t)'
    BY <1>2, <1>4, <2>0 DEF MediaFirst, Slots, Flag, Ring
  <2>2. FlagAhead(t)'
    BY <1>2, <1>4, <2>0 DEF FlagAhead, Slots, Flag
  <2>3. \A d \in discontinuities : d > mCurrentPeriod =>
          /\ lastInjected[t] < d /\ ~(d < mCurrentPeriod) /\ d # mCurrentPeriod
          /\ \A i \in Slots(t) : ~(Ring(t)[i].period >= d)
    <3> SUFFICES ASSUME NEW d \in discontinuities, d > mCurrentPeriod
                 PROVE  /\ lastInjected[t] < d /\ ~(d < mCurrentPeriod) /\ d # mCurrentPeriod
                        /\ \A i \in Slots(t) : ~(Ring(t)[i].period >= d)
      OBVIOUS
    <3>1. d \in Nat /\ mCurrentPeriod \in Nat /\ lastInjected[t] \in Nat
      BY NumberFacts DEF TInv
    <3>2. \A i \in Slots(t) : Ring(t)[i].period \in Nat
      BY NumberFacts DEF TInv, Slots, Ring
    <3>3. /\ lastInjected[t] <= mCurrentPeriod
          /\ \A i \in Slots(t) : Ring(t)[i].period <= mCurrentPeriod
      BY DEF TInv, CountInv
    <3> QED BY <3>1, <3>2, <3>3
  <2>4. Barrier(t)'
    BY <1>4, <2>3 DEF Barrier, Slots, Ring
  <2> QED BY <2>1, <2>2, <2>4
<1> QED BY <1>4, <1>5 DEF NoneInv

LEMMA NoneStep == TInv /\ BitInv /\ PairInv /\ NoneInv /\ [Next]_vars => NoneInv'
<1> SUFFICES ASSUME TInv, BitInv, PairInv, NoneInv, [Next]_vars PROVE NoneInv' OBVIOUS
<1>1. CASE UNCHANGED vars
  BY <1>1, NoneKept DEF vars, contentVars, fetchVars, pairVars, history
<1>2. ASSUME NEW t \in Tracks, Injector(t) \/ SpuriousWakeup(t) \/ Monitor(t) PROVE NoneInv'
  BY <1>2, NoneInject, NoneProcess, NoneCheck DEF Injector
<1>3. CASE NotifyEOSReached
  BY <1>3, NoneKept DEF NotifyEOSReached, contentVars, fetchVars, history
<1>4. CASE BeginStop \/ JoinInjectors
  BY <1>4, NoneKept DEF BeginStop, JoinInjectors, contentVars, fetchVars, pairVars, history
<1>5. ASSUME NEW t \in Tracks, AbortInjection(t) PROVE NoneInv'
  <2>1. \A u \in Tracks : injector'[u] = "loop" => injector[u] = "loop"
    BY <1>5, NotifyOneMoves DEF AbortInjection, TInv, TypeOK
  <2> QED BY <1>5, <2>1, NoneKept DEF AbortInjection, contentVars, fetchVars, pairVars, history
<1>6. CASE StopInjection \/ AbortTracks
  BY <1>5, <1>6 DEF StopInjection, AbortTracks, Tracks
<1> QED
  BY <1>1, <1>2, <1>3, <1>4, <1>6, NoneFetch, NoneConfigured DEF Next, MainLoop, Stopping

(* With every fragment downloaded and no track let go, no fragment is      *)
(* injected into a pipeline that is configured for what comes before a     *)
(* discontinuity of its track: CheckForDiscontinuity never takes a         *)
(* discontinuity that has to be processed for one that may be ignored, for *)
(* any number of periods and fragments and any size of the rings.          *)
THEOREM NoneSlipsPast == Spec => []NoneAcrossDiscontinuity
<1>1. TInv /\ NoneInv => NoneAcrossDiscontinuity
  <2> SUFFICES ASSUME TInv, NoneInv, ~gaveUp, failed = {}, NEW t \in Tracks,
                      NEW d \in discontinuities, configured < d
               PROVE  ~(d <= lastInjected[t])
    BY DEF NoneAcrossDiscontinuity
  <2>1. d > configured /\ d \in Nat /\ lastInjected[t] \in Nat
    BY NumberFacts DEF TInv
  <2>2. lastInjected[t] < d
    BY <2>1 DEF NoneInv, Barrier
  <2> QED BY <2>1, <2>2
<1> QED
  BY <1>1, TypeInit, PairInit, NoneInit, TypeStep, BitStep, PairStep, NoneStep, PTL DEF Spec
=============================================================================
