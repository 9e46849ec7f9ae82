-------------------- MODULE AampTrackWorkerManagerProofs --------------------
(***************************************************************************)
(* Proofs about AampTrackWorkerManager, for any tracks in any order, any   *)
(* number of periods and segments and any bounds.                          *)
(***************************************************************************)
EXTENDS AampTrackWorkerManager, SequenceTheorems, TLAPS

(* What a worker has before it: the job it runs or is about to reschedule, *)
(* and its queue.                                                          *)
Live(t) == IF worker[t] \in {"running", "reschedule"}
           THEN <<currentJob[t]>> \o mJobQueue[t] ELSE mJobQueue[t]

Quiet(t)     == worker[t] \in {"idle", "exited"} /\ mJobQueue[t] = <<>>
Waiting      == fetcher \in {"completeWait", "resetWait"}
Resetting(t) == fetcher \in {"resetWait", "switch"} /\ t = Head(todo)
Steady(t)    == controller = "playing" /\ t \in Critical
IsSegment(job) == job.kind = "segment"

------------------------------------------------------------------------------
(* Jobs are for segments and periods the fetcher has come to.              *)
GoodJob ==
  {job \in Job : /\ IsSegment(job) => job.n \in 1 .. LastOf(currentPeriod)
                 /\ job.kind = "init" => job.period \in 1 .. currentPeriod}

JobInv ==
  /\ mJobQueue \in [Tracks -> Seq(GoodJob)]
  /\ \A t \in Tracks :
       /\ worker[t] \in {"running", "reschedule", "callback"} => currentJob[t] \in GoodJob
       /\ worker[t] \in {"reschedule", "callback"} =>
            currentJob[t].kind \in {"segment", "init"}

NumberInv ==
  \A t \in Tracks :
    /\ nextSegment[t] \in LastOf(currentPeriod - 1) + 1 .. LastOf(currentPeriod) + 1
    /\ done[t] \in 0 .. LastOf(currentPeriod)

TodoInv ==
  /\ fetcher \in {"initDone", "completeWait", "resetWait", "switch"} => todo # <<>>
  /\ fetcher \in {"resetWait", "switch"} => Len(todo) = 1
  /\ fetcher \in {"complete", "completeWait"} => currentPeriod < MaxPeriods
  /\ controller \in {"stop", "join"} => stopping # <<>>

TInv == TypeOK /\ JobInv /\ NumberInv /\ TodoInv

(* Stop: what it has come to.                                              *)
StopInv ==
  /\ controller \in {"playing", "removed"} => ~mStopInProgress
  /\ controller = "playing" => \A t \in Tracks : ~mStopped[t]
  /\ controller \in {"copy", "pause", "stop", "join", "joinFetcher"} => mStopInProgress
  /\ controller = "removed" => fetcher = "exited"
  /\ \A t \in Tracks : worker[t] = "exited" => mStopped[t]
  /\ controller \in {"pause", "stop", "join", "joinFetcher", "removed"} =>
       \A t \in Tracks : t \in ToSet(stopping) \/ (worker[t] = "exited" /\ mJobQueue[t] = <<>>)
  /\ controller \in {"joinFetcher", "removed"} => stopping = <<>>

(* The dummy job that is waited for is the last of its worker's jobs, and  *)
(* its worker has none left when its future has a value.                   *)
Queues(t, job) == \E i \in 1 .. Len(mJobQueue[t]) : mJobQueue[t][i] = job
Runs(t, job)   == worker[t] = "running" /\ currentJob[t] = job

FutureInv ==
  /\ future # "none" => Waiting
  /\ controller = "playing" => future # "cancelled" /\ fetcher # "terminated"

DummyInv ==
  \A t \in Tracks :
    /\ \A i \in 1 .. Len(mJobQueue[t]) : mJobQueue[t][i] = Dummy(1) =>
         Waiting /\ t = Head(todo) /\ future = "pending" /\ i = Len(mJobQueue[t])
    /\ Runs(t, Dummy(1)) =>
         Waiting /\ t = Head(todo) /\ future = "pending" /\ mJobQueue[t] = <<>>

ReplyInv ==
  /\ Waiting /\ future = "value" => Quiet(Head(todo))
  /\ fetcher = "resetWait" /\ future = "pending" =>
       \/ mJobQueue[Head(todo)] = <<Dummy(1)>>
       \/ mJobQueue[Head(todo)] = <<>> /\ Runs(Head(todo), Dummy(1))
  /\ ResetIsBarrier

WaitInv == FutureInv /\ DummyInv /\ ReplyInv

(* The queue of a track with another job at place k.                       *)
Inserted(s, r, k, job) ==
  /\ Len(s) \in Nat /\ Len(r) = Len(s) + 1 /\ k \in 1 .. Len(s) + 1 /\ r[k] = job
  /\ \A i \in 1 .. Len(s) : r[IF i < k THEN i ELSE i + 1] = s[i]

NoSegment(s) == \A i \in 1 .. Len(s) : ~IsSegment(s[i])

(* The segments among some jobs are those from lo to hi, in order.         *)
Run(s, lo, hi) ==
  /\ lo <= hi + 1
  /\ \A i \in 1 .. Len(s) : IsSegment(s[i]) => s[i].n \in lo .. hi
  /\ \A i, j \in 1 .. Len(s) : IsSegment(s[i]) /\ IsSegment(s[j]) /\ i < j => s[i].n < s[j].n
  /\ \A n \in lo .. hi : \E i \in 1 .. Len(s) : IsSegment(s[i]) /\ s[i].n = n

HasEos(s) == \E i \in 1 .. Len(s) : s[i].kind = "eos"

(* An EOS job has no segment behind it.                                    *)
EosLast(s) == \A i, j \in 1 .. Len(s) : s[i].kind = "eos" /\ i < j => ~IsSegment(s[j])

(* Between the periods the workers have been drained.                      *)
DrainInv(t) ==
  Steady(t) =>
    /\ fetcher \in {"complete", "completeWait"} =>
         nextSegment[t] = LastOf(currentPeriod) + 1
    /\ fetcher \in {"complete", "completeWait"} /\ t \notin ToSet(todo) => Quiet(t)
    /\ fetcher \in {"init", "initDone"} /\ t \in ToSet(todo) => NoSegment(Live(t))

(* A worker has all the segments before it that the fetcher has submitted  *)
(* and that are not done; while it is reset, at most the one it runs.      *)
OrderInv(t) ==
  /\ (Steady(t) /\ ~Resetting(t)) \/ (HasEos(Live(t)) /\ ~mStopped[t]) =>
       Run(Live(t), done[t] + 1, nextSegment[t] - 1)
  /\ Steady(t) /\ Resetting(t) =>
       \A i \in 1 .. Len(Live(t)) :
         IsSegment(Live(t)[i]) => i = 1 /\ Live(t)[i].n = done[t] + 1

(* The EOS job is the last but for jobs that are no segments.  Nothing is  *)
(* said of eosReached, which a switch leaves as it is; nor of a worker     *)
(* that is stopped, which ResetWorker does not wait for.                   *)
EosInv(t) ==
  /\ HasEos(Live(t)) => currentPeriod = MaxPeriods
  /\ HasEos(Live(t)) /\ ~mStopped[t] => nextSegment[t] = LastOf(MaxPeriods) + 1
  /\ EosLast(Live(t))
  /\ HasEos(Live(t)) /\ Resetting(t) => NoSegment(Live(t))

(* The init segment comes before what is at position i of Live(t).         *)
Covered(t, i) ==
  \/ initFor[t] = currentPeriod
  \/ \E j \in 1 .. Len(Live(t)) : j < i /\ Live(t)[j].kind = "init"
  \/ worker[t] = "callback"
  \/ worker[t] = "reschedule" /\ profileChanged[t]

Covers(t) ==
  \/ fetcher = "loop"
  \/ fetcher \in {"init", "initDone", "resetWait", "switch"} /\ t \notin ToSet(todo)
  \/ fetcher = "initDone" /\ t = Head(todo)

CoverInv(t) ==
  Steady(t) =>
    /\ \A i \in 1 .. Len(Live(t)) :
         Live(t)[i].kind \in {"segment", "init"} => Live(t)[i].period = currentPeriod
    /\ \A i \in 1 .. Len(Live(t)) : IsSegment(Live(t)[i]) => Covered(t, i)
    /\ Covers(t) => Covered(t, Len(Live(t)) + 1)

TrackInv(t) == DrainInv(t) /\ OrderInv(t) /\ EosInv(t) /\ CoverInv(t)

------------------------------------------------------------------------------
(* Facts about periods, tracks and queues.                                 *)
LEMMA PeriodEnds ==
  /\ \A p \in Nat : LastOf(p) \in Nat
  /\ \A p, q \in Nat : p <= q => LastOf(p) <= LastOf(q)
  /\ \A p \in Nat : p >= 1 => LastOf(p) >= LastOf(p - 1) + 1
<1>1. SegmentsPerPeriod \in Nat /\ SegmentsPerPeriod >= 1
  BY WorkerAssumption
<1>2. \A p \in Nat : LastOf(p) \in Nat
  BY <1>1 DEF LastOf
<1>3. ASSUME NEW p \in Nat, NEW q \in Nat, p <= q PROVE LastOf(p) <= LastOf(q)
  <2>1. (q - p) * SegmentsPerPeriod >= 0
    BY <1>1, <1>3
  <2>2. q * SegmentsPerPeriod = p * SegmentsPerPeriod + (q - p) * SegmentsPerPeriod
    BY <1>1, <1>3
  <2> QED BY <1>1, <2>1, <2>2 DEF LastOf
<1>4. ASSUME NEW p \in Nat, p >= 1 PROVE LastOf(p) >= LastOf(p - 1) + 1
  <2>1. p * SegmentsPerPeriod = (p - 1) * SegmentsPerPeriod + SegmentsPerPeriod
    BY <1>1, <1>4
  <2> QED BY <1>1, <1>4, <2>1 DEF LastOf
<1> QED BY <1>2, <1>3, <1>4

LEMMA TrackFacts ==
  /\ TrackOrder \in Seq(Tracks)
  /\ Critical \subseteq Tracks /\ Switchable \subseteq Tracks
<1>1. TrackOrder \in Seq(Tracks)
  <2>1. TrackOrder \in Seq({"video", "audio", "subtitle"})
    BY WorkerAssumption
  <2>2. \A i \in 1 .. Len(TrackOrder) : TrackOrder[i] \in Tracks
    BY <2>1 DEF Tracks, ToSet
  <2> QED BY <2>1, <2>2, SeqDef
<1> QED BY <1>1 DEF Critical, Switchable

LEMMA MembersOf ==
  ASSUME NEW S, NEW q \in Seq(S)
  PROVE  /\ \A x : x \in ToSet(q) <=> \E i \in 1 .. Len(q) : q[i] = x
         /\ ToSet(q) \subseteq S
         /\ q # <<>> => /\ Head(q) \in S /\ Tail(q) \in Seq(S)
                        /\ ToSet(q) = {Head(q)} \cup ToSet(Tail(q))
         /\ q = <<>> => ToSet(q) = {}
<1>1. \A s \in Seq(S) : \A x : x \in ToSet(s) <=> \E i \in 1 .. Len(s) : s[i] = x
  BY DEF ToSet
<1>2. ToSet(q) \subseteq S
  BY <1>1
<1>3. ASSUME q # <<>>
      PROVE  /\ Head(q) \in S /\ Tail(q) \in Seq(S)
             /\ ToSet(q) = {Head(q)} \cup ToSet(Tail(q))
  <2>1. /\ Head(q) \in S /\ Tail(q) \in Seq(S) /\ Head(q) = q[1]
        /\ Len(q) \in Nat \ {0} /\ Len(Tail(q)) = Len(q) - 1
        /\ \A i \in 1 .. Len(q) - 1 : Tail(q)[i] = q[i + 1]
    BY <1>3
  <2>2. ASSUME NEW x \in ToSet(q) PROVE x \in {Head(q)} \cup ToSet(Tail(q))
    <3>1. PICK i \in 1 .. Len(q) : q[i] = x
      BY <1>1
    <3>2. CASE i = 1
      BY <2>1, <3>1, <3>2
    <3>3. CASE i # 1
      <4>1. i - 1 \in 1 .. Len(Tail(q)) /\ Tail(q)[i - 1] = x
        BY <2>1, <3>1, <3>3
      <4> QED BY <1>1, <2>1, <4>1
    <3> QED BY <3>2, <3>3
  <2>3. ASSUME NEW x \in {Head(q)} \cup ToSet(Tail(q)) PROVE x \in ToSet(q)
    <3>1. CASE x = Head(q)
      <4>1. 1 \in 1 .. Len(q)
        BY <2>1
      <4> QED BY <1>1, <2>1, <3>1, <4>1
    <3>2. CASE x \in ToSet(Tail(q))
      <4>1. PICK i \in 1 .. Len(Tail(q)) : Tail(q)[i] = x
        BY <1>1, <2>1, <3>2
      <4>2. i + 1 \in 1 .. Len(q) /\ q[i + 1] = x
        BY <2>1, <4>1
      <4> QED BY <1>1, <4>2
    <3> QED BY <2>3, <3>1, <3>2
  <2> QED BY <2>1, <2>2, <2>3
<1>4. ASSUME q = <<>> PROVE ToSet(q) = {}
  <2>1. \A x : x \notin ToSet(q)
    <3>1. 1 .. Len(q) = {}
      BY <1>4
    <3> QED BY <1>1, <3>1
  <2> QED BY <2>1
<1> QED BY <1>1, <1>2, <1>3, <1>4

LEMMA SeqOfSubset ==
  ASSUME NEW S, NEW T, S \subseteq T, NEW q \in Seq(S)
  PROVE  q \in Seq(T)
<1>1. \A i \in 1 .. Len(q) : q[i] \in T
  BY ElementOfSeq
<1>2. q \in [1 .. Len(q) -> S] /\ Len(q) \in Nat
  BY SeqDef
<1>3. q \in [1 .. Len(q) -> T]
  BY <1>2
<1> QED BY <1>2, <1>3, SeqDef

(* What the queue operations of the model make of good jobs.               *)
LEMMA QueueType ==
  ASSUME NEW S, NEW q \in Seq(S), NEW j \in S
  PROVE  /\ Append(q, j) \in Seq(S) /\ <<j>> \o q \in Seq(S) /\ <<j>> \in Seq(S)
         /\ \A b \in BOOLEAN : Pushed(q, j, b) \in Seq(S)
         /\ Rescheduled(q, j) \in Seq(S)
  BY DEF Pushed, Rescheduled

LEMMA JobFacts ==
  ASSUME currentPeriod \in Nat, currentPeriod >= 1
  PROVE  /\ InitJob \in GoodJob /\ EosJob \in GoodJob
         /\ \A n \in {0, 1} : Dummy(n) \in GoodJob
         /\ \A n \in 1 .. LastOf(currentPeriod) : Segment(n) \in GoodJob
         /\ GoodJob \subseteq Job
         /\ NoJob \notin Job
  BY PeriodEnds DEF GoodJob, Job, InitJob, EosJob, Dummy, Segment, NoJob, IsSegment

LEMMA TypeInit == Init => TInv
<1> SUFFICES ASSUME Init PROVE TInv
  OBVIOUS
<1>1. /\ LastOf(0) = 0 /\ LastOf(MaxPeriods) \in Nat /\ LastOf(1) \in Nat
      /\ 1 <= MaxPeriods /\ MaxPeriods \in Nat
  BY PeriodEnds, WorkerAssumption DEF LastOf
<1>2. mJobQueue \in [Tracks -> Seq(Job)] /\ mJobQueue \in [Tracks -> Seq(GoodJob)]
  BY DEF Init
<1>3. TypeOK
  <2>1. /\ mStopped \in [Tracks -> BOOLEAN] /\ mPaused \in [Tracks -> BOOLEAN]
        /\ worker \in [Tracks -> {"idle", "running", "reschedule", "callback", "exited"}]
        /\ currentJob \in [Tracks -> Job \cup {NoJob}]
        /\ profileChanged \in [Tracks -> BOOLEAN]
        /\ eosSubmitted \in [Tracks -> BOOLEAN] /\ eosReached \in [Tracks -> BOOLEAN]
    BY DEF Init
  <2>2. /\ nextSegment \in [Tracks -> 1 .. LastOf(MaxPeriods) + 1]
        /\ done \in [Tracks -> 0 .. LastOf(MaxPeriods)]
        /\ initFor \in [Tracks -> 0 .. MaxPeriods]
    BY <1>1 DEF Init
  <2>3. /\ todo \in Seq(Tracks) /\ stopping \in Seq(Tracks) /\ currentPeriod \in 1 .. MaxPeriods
        /\ changes \in 0 .. MaxProfileChanges /\ initFailures \in 0 .. MaxInitFailures
        /\ switches \in 0 .. MaxSwitches /\ tunes \in 1 .. MaxTunes
    BY <1>1, TrackFacts, WorkerAssumption DEF Init
  <2> QED BY <1>2, <2>1, <2>2, <2>3 DEF Init, TypeOK
<1>4. JobInv
  BY <1>2 DEF Init, JobInv
<1>5. NumberInv
  BY <1>1 DEF Init, NumberInv
<1>6. TodoInv
  BY DEF Init, TodoInv
<1> QED BY <1>3, <1>4, <1>5, <1>6 DEF TInv

(* The ranges of the numbers, from the types.                              *)
LEMMA NumberFacts ==
  ASSUME TInv
  PROVE  /\ currentPeriod \in Nat /\ currentPeriod >= 1 /\ currentPeriod <= MaxPeriods
         /\ MaxPeriods \in Nat /\ LastOf(currentPeriod) \in Nat /\ LastOf(MaxPeriods) \in Nat
         /\ LastOf(currentPeriod - 1) \in Nat /\ LastOf(currentPeriod) <= LastOf(MaxPeriods)
         /\ LastOf(currentPeriod - 1) + 1 <= LastOf(currentPeriod)
         /\ \A t \in Tracks : nextSegment[t] \in Nat /\ nextSegment[t] >= 1 /\ done[t] \in Nat
<1>1. currentPeriod \in 1 .. MaxPeriods /\ MaxPeriods \in Nat
  BY WorkerAssumption DEF TInv, TypeOK
<1>2. currentPeriod \in Nat /\ currentPeriod >= 1 /\ currentPeriod <= MaxPeriods /\ currentPeriod - 1 \in Nat
  BY <1>1
<1>3. \A t \in Tracks : nextSegment[t] \in 1 .. LastOf(MaxPeriods) + 1 /\ done[t] \in 0 .. LastOf(MaxPeriods)
  BY DEF TInv, TypeOK
<1> QED BY <1>1, <1>2, <1>3, PeriodEnds

LEMMA TypeWorker ==
  ASSUME TInv, NEW t \in Tracks, WorkerStep(t)
  PROVE  TInv'
<1> USE DEF Running
<1>1. UNCHANGED <<mStopped, mPaused, fetcher, todo, currentPeriod, nextSegment, eosSubmitted,
                  switches, mStopInProgress, controller, stopping, tunes>>
  BY DEF WorkerStep, TakeJob, WorkerExit, RunControlJob, DownloadSegment,
       DownloadSegmentAndChangeProfile, DownloadInit, DownloadInitFails, RampDown,
       RescheduleActiveJob, SubmitInitFromJob, fetcherVars, stopVars
<1>2. GoodJob' = GoodJob /\ GoodJob \subseteq Job /\ InitJob \in GoodJob
  BY <1>1, NumberFacts, JobFacts DEF GoodJob
<1>3. /\ mJobQueue \in [Tracks -> Seq(GoodJob)]
      /\ worker \in [Tracks -> {"idle", "running", "reschedule", "callback", "exited"}]
      /\ currentJob \in [Tracks -> Job \cup {NoJob}]
      /\ worker[t] \in {"running", "reschedule", "callback"} => currentJob[t] \in GoodJob
  BY DEF TInv, TypeOK, JobInv
<1>4. mJobQueue' \in [Tracks -> Seq(GoodJob)]
  <2>1. CASE TakeJob(t)
    BY <1>3, <2>1 DEF TakeJob
  <2>2. CASE RescheduleActiveJob(t)
    BY <1>3, <2>2, QueueType DEF RescheduleActiveJob
  <2>3. CASE SubmitInitFromJob(t)
    <3>1. Pushed(mJobQueue[t], InitJob, TRUE) \in Seq(GoodJob)
      BY <1>2, <1>3, QueueType
    <3> QED BY <1>3, <2>3, <3>1 DEF SubmitInitFromJob, SubmitJob
  <2>4. CASE ~TakeJob(t) /\ ~RescheduleActiveJob(t) /\ ~SubmitInitFromJob(t)
    <3>1. UNCHANGED mJobQueue
      BY <2>4 DEF WorkerStep, WorkerExit, RunControlJob, DownloadSegment,
           DownloadSegmentAndChangeProfile, DownloadInit, DownloadInitFails, RampDown
    <3> QED BY <1>3, <3>1
  <2> QED BY <2>1, <2>2, <2>3, <2>4
<1>5. \A u \in Tracks : u # t => worker'[u] = worker[u] /\ currentJob'[u] = currentJob[u]
  BY <1>3 DEF WorkerStep, TakeJob, WorkerExit, RunControlJob, DownloadSegment,
       DownloadSegmentAndChangeProfile, DownloadInit, DownloadInitFails, RampDown,
       RescheduleActiveJob, SubmitInitFromJob, ReturnFromRun
<1>6. /\ worker' \in [Tracks -> {"idle", "running", "reschedule", "callback", "exited"}]
      /\ currentJob' \in [Tracks -> Job \cup {NoJob}]
      /\ worker'[t] \in {"running", "reschedule", "callback"} => currentJob'[t] \in GoodJob
      /\ worker'[t] \in {"reschedule", "callback"} => currentJob'[t].kind \in {"segment", "init"}
  <2>0. worker[t] \in {"reschedule", "callback"} => currentJob[t].kind \in {"segment", "init"}
    BY DEF TInv, JobInv
  <2>1. CASE TakeJob(t)
    <3>1. Head(mJobQueue[t]) \in GoodJob
      BY <1>3, <2>1 DEF TakeJob
    <3> QED BY <1>2, <1>3, <2>1, <3>1 DEF TakeJob
  <2>2. CASE WorkerExit(t)
    BY <1>3, <2>2 DEF WorkerExit
  <2>3. CASE RampDown(t)
    BY <1>3, <2>3 DEF RampDown
  <2>4. CASE RunControlJob(t) \/ DownloadInit(t) \/ SubmitInitFromJob(t)
    <3>1. ReturnFromRun(t, FALSE)
      BY <2>4 DEF RunControlJob, DownloadInit, SubmitInitFromJob
    <3> QED BY <1>3, <3>1 DEF ReturnFromRun
  <2>5. CASE \/ DownloadSegment(t) \/ DownloadSegmentAndChangeProfile(t)
             \/ DownloadInitFails(t) \/ RescheduleActiveJob(t)
    <3>1. PICK c \in BOOLEAN : ReturnFromRun(t, c)
      BY <2>5 DEF DownloadSegment, DownloadSegmentAndChangeProfile, DownloadInitFails,
           RescheduleActiveJob, TInv, TypeOK
    <3>2. currentJob[t] \in GoodJob /\ currentJob[t].kind \in {"segment", "init"}
      BY <1>3, <2>0, <2>5 DEF DownloadSegment, DownloadSegmentAndChangeProfile, DownloadInitFails,
           RescheduleActiveJob
    <3> QED BY <1>3, <3>1, <3>2 DEF ReturnFromRun
  <2> QED BY <2>1, <2>2, <2>3, <2>4, <2>5 DEF WorkerStep
<1>7. JobInv'
  BY <1>2, <1>4, <1>5, <1>6 DEF TInv, JobInv
<1>8. done' \in [Tracks -> 0 .. LastOf(currentPeriod)]
  <2>1. done \in [Tracks -> 0 .. LastOf(currentPeriod)]
    BY DEF TInv, TypeOK, NumberInv
  <2>2. Running(t, {"segment"}) => currentJob[t].n \in 0 .. LastOf(currentPeriod)
    BY <1>3, NumberFacts DEF GoodJob, IsSegment
  <2> QED BY <2>1, <2>2 DEF WorkerStep, TakeJob, WorkerExit, RunControlJob, DownloadSegment,
       DownloadSegmentAndChangeProfile, DownloadInit, DownloadInitFails, RampDown,
       RescheduleActiveJob, SubmitInitFromJob
<1>9. initFor' \in [Tracks -> 0 .. MaxPeriods]
  <2>1. initFor \in [Tracks -> 0 .. MaxPeriods]
    BY DEF TInv, TypeOK
  <2>2. Running(t, {"init"}) => currentJob[t].period \in 0 .. MaxPeriods
    BY <1>3, NumberFacts DEF GoodJob
  <2>3. 0 \in 0 .. MaxPeriods
    BY NumberFacts
  <2> QED BY <2>1, <2>2, <2>3 DEF WorkerStep, TakeJob, WorkerExit, RunControlJob, DownloadSegment,
       DownloadSegmentAndChangeProfile, DownloadInit, DownloadInitFails, RampDown,
       RescheduleActiveJob, SubmitInitFromJob
<1>10. /\ profileChanged' \in [Tracks -> BOOLEAN] /\ eosReached' \in [Tracks -> BOOLEAN]
       /\ future' \in {"none", "pending", "value", "cancelled"}
  BY DEF TInv, TypeOK, WorkerStep, TakeJob, WorkerExit, RunControlJob, DownloadSegment,
       DownloadSegmentAndChangeProfile, DownloadInit, DownloadInitFails, RampDown,
       RescheduleActiveJob, SubmitInitFromJob
<1>11. changes' \in 0 .. MaxProfileChanges /\ initFailures' \in 0 .. MaxInitFailures
  <2>1. changes \in 0 .. MaxProfileChanges /\ initFailures \in 0 .. MaxInitFailures
    BY DEF TInv, TypeOK
  <2>2. /\ changes' = changes \/ (changes < MaxProfileChanges /\ changes' = changes + 1)
        /\ initFailures' = initFailures
             \/ (initFailures < MaxInitFailures /\ initFailures' = initFailures + 1)
    BY DEF WorkerStep, TakeJob, WorkerExit, RunControlJob, DownloadSegment,
         DownloadSegmentAndChangeProfile, DownloadInit, DownloadInitFails, RampDown,
         RescheduleActiveJob, SubmitInitFromJob
  <2> QED BY <2>1, <2>2, WorkerAssumption
<1>12. mJobQueue' \in [Tracks -> Seq(Job)]
  <2>1. \A u \in Tracks : mJobQueue'[u] \in Seq(Job)
    BY <1>2, <1>4, SeqOfSubset
  <2> QED BY <1>4, <2>1
<1>13. NumberInv' /\ done' \in [Tracks -> 0 .. LastOf(MaxPeriods)]
  <2>1. \A u \in Tracks : done'[u] \in 0 .. LastOf(currentPeriod) /\ done'[u] \in 0 .. LastOf(MaxPeriods)
    BY <1>8, NumberFacts
  <2>2. NumberInv'
    BY <1>1, <2>1 DEF TInv, NumberInv, LastOf
  <2> QED BY <1>8, <2>1, <2>2
<1>14. TypeOK'
  BY <1>1, <1>6, <1>9, <1>10, <1>11, <1>12, <1>13 DEF TInv, TypeOK
<1>15. TodoInv'
  BY <1>1 DEF TInv, TodoInv
<1> QED BY <1>7, <1>13, <1>14, <1>15 DEF TInv

(* The first worker variables, when only a queue changes.                  *)
LEMMA TypeQueue ==
  ASSUME TInv, mJobQueue' \in [Tracks -> Seq(GoodJob)],
         UNCHANGED <<worker, currentJob, currentPeriod>>
  PROVE  JobInv' /\ mJobQueue' \in [Tracks -> Seq(Job)]
<1>1. GoodJob' = GoodJob /\ GoodJob \subseteq Job
  BY NumberFacts, JobFacts DEF GoodJob
<1>2. \A u \in Tracks : mJobQueue'[u] \in Seq(Job)
  BY <1>1, SeqOfSubset
<1>3. mJobQueue' \in [Tracks -> Seq(Job)]
  BY <1>2
<1> QED BY <1>1, <1>3 DEF TInv, JobInv

LEMMA TypeFetcher ==
  ASSUME TInv, FetcherStep \/ \E t \in Switchable : ResetWorker(t)
  PROVE  TInv'
<1>1. UNCHANGED <<mStopped, mPaused, worker, currentJob, mStopInProgress, controller, stopping,
                  tunes, eosReached, changes, initFailures>>
  BY DEF FetcherStep, FetchInit, FetchInitDone, FetchSegment, SubmitEos, FetcherExit, FetcherEnds,
       WaitForCompletion, CompletionSubmit, CompletionReturns, NextPeriod, ResetReturns,
       SwitchTrack, ResetWorker, workerVars, stopVars
<1>2. mJobQueue \in [Tracks -> Seq(GoodJob)] /\ todo \in Seq(Tracks)
  BY DEF TInv, TypeOK, JobInv
<1>3. todo # <<>> => Head(todo) \in Tracks /\ Tail(todo) \in Seq(Tracks)
  BY <1>2
<1>4. mJobQueue' \in [Tracks -> Seq(GoodJob)]
  <2>0. /\ InitJob \in GoodJob /\ EosJob \in GoodJob /\ Dummy(0) \in GoodJob /\ Dummy(1) \in GoodJob
        /\ \A n \in 1 .. LastOf(currentPeriod) : Segment(n) \in GoodJob
    BY NumberFacts, JobFacts
  <2>a. ASSUME NEW t \in Tracks, NEW job \in GoodJob, NEW b \in BOOLEAN, SubmitJob(t, job, b)
        PROVE  mJobQueue' \in [Tracks -> Seq(GoodJob)]
    <3>1. Pushed(mJobQueue[t], job, b) \in Seq(GoodJob)
      BY <1>2, QueueType
    <3> QED BY <1>2, <2>a, <3>1 DEF SubmitJob
  <2>1. CASE FetchInit
    <3>1. Head(todo) \in Tracks /\ profileChanged[Head(todo)] \in BOOLEAN
      BY <1>3, <2>1 DEF FetchInit, TInv, TypeOK
    <3> QED BY <2>0, <2>1, <2>a, <3>1 DEF FetchInit
  <2>2. ASSUME NEW t \in Tracks, FetchSegment(t) PROVE mJobQueue' \in [Tracks -> Seq(GoodJob)]
    <3>1. nextSegment[t] \in 1 .. LastOf(currentPeriod)
      BY <2>2, NumberFacts DEF FetchSegment, EndOfPeriod
    <3> QED BY <2>0, <2>2, <2>a, <3>1 DEF FetchSegment
  <2>3. ASSUME NEW t \in Tracks, SubmitEos(t) PROVE mJobQueue' \in [Tracks -> Seq(GoodJob)]
    BY <2>0, <2>3, <2>a DEF SubmitEos
  <2>4. CASE CompletionSubmit
    <3>1. Head(todo) \in Tracks
      BY <1>3, <2>4 DEF CompletionSubmit
    <3>2. \A n \in {0, 1} : WithDummy(mJobQueue[Head(todo)], n) \in Seq(GoodJob)
      BY <1>2, <2>0, <3>1, QueueType DEF WithDummy
    <3> QED BY <1>2, <2>4, <3>1, <3>2 DEF CompletionSubmit
  <2>5. ASSUME NEW t \in Switchable, ResetWorker(t) PROVE mJobQueue' \in [Tracks -> Seq(GoodJob)]
    <3>1. WithDummy(<<>>, 1) \in Seq(GoodJob) /\ t \in Tracks
      BY <2>0, TrackFacts DEF WithDummy
    <3>2. <<>> \in Seq(GoodJob)
      OBVIOUS
    <3>3. PICK q \in Seq(GoodJob) : mJobQueue' = [mJobQueue EXCEPT ![t] = q]
      BY <2>5, <3>1, <3>2, Zenon DEF ResetWorker
    <3> QED BY <1>2, <3>1, <3>3
  <2>6. CASE \/ FetchInitDone \/ FetcherExit \/ FetcherEnds \/ WaitForCompletion
             \/ CompletionReturns \/ NextPeriod \/ ResetReturns \/ SwitchTrack
    BY <1>2, <2>6 DEF FetchInitDone, FetcherExit, FetcherEnds, WaitForCompletion,
         CompletionReturns, NextPeriod, ResetReturns, SwitchTrack, workerVars
  <2> QED BY <2>1, <2>2, <2>3, <2>4, <2>5, <2>6 DEF FetcherStep
<1>5. CASE NextPeriod
  <2>1. currentPeriod < MaxPeriods /\ currentPeriod' = currentPeriod + 1
    BY <1>5 DEF NextPeriod, TInv, TodoInv
  <2>2. /\ currentPeriod' \in 1 .. MaxPeriods /\ LastOf(currentPeriod + 1) \in Nat
        /\ LastOf(currentPeriod) <= LastOf(currentPeriod + 1)
        /\ LastOf(currentPeriod) + 1 <= LastOf(currentPeriod + 1)
        /\ LastOf(currentPeriod + 1) <= LastOf(MaxPeriods)
        /\ (currentPeriod + 1) - 1 = currentPeriod
    <3>1. /\ currentPeriod \in Nat /\ currentPeriod + 1 \in Nat /\ currentPeriod + 1 >= 1
          /\ (currentPeriod + 1) - 1 = currentPeriod /\ currentPeriod + 1 <= MaxPeriods
          /\ MaxPeriods \in Nat /\ currentPeriod <= currentPeriod + 1
      BY <2>1, NumberFacts
    <3>2. LastOf(currentPeriod + 1) >= LastOf((currentPeriod + 1) - 1) + 1
      BY <3>1, PeriodEnds
    <3> QED BY <2>1, <3>1, <3>2, PeriodEnds
  <2>3. \A u \in Tracks : nextSegment'[u] = LastOf(currentPeriod) + 1
    BY <1>5 DEF NextPeriod
  <2>4. nextSegment' \in [Tracks -> 1 .. LastOf(MaxPeriods) + 1]
    <3>1. LastOf(currentPeriod) + 1 \in 1 .. LastOf(MaxPeriods) + 1
      BY NumberFacts
    <3> QED BY <1>5, <3>1 DEF NextPeriod
  <2>5. NumberInv'
    <3> SUFFICES ASSUME NEW u \in Tracks
                 PROVE  /\ nextSegment'[u] \in LastOf(currentPeriod) + 1
                                                .. LastOf(currentPeriod + 1) + 1
                        /\ done'[u] \in 0 .. LastOf(currentPeriod + 1)
      BY <2>1, <2>2 DEF NumberInv, LastOf
    <3>1. done'[u] = done[u] /\ done[u] \in 0 .. LastOf(currentPeriod)
      BY <1>5 DEF TInv, NumberInv, NextPeriod
    <3>2. LastOf(currentPeriod) \in Nat
      BY NumberFacts
    <3> QED BY <2>2, <2>3, <3>1, <3>2
  <2>6. GoodJob \subseteq GoodJob' /\ GoodJob \subseteq Job
    BY <2>1, <2>2, NumberFacts DEF GoodJob, LastOf
  <2>7. \A u \in Tracks : mJobQueue'[u] \in Seq(GoodJob') /\ mJobQueue'[u] \in Seq(Job)
    BY <1>4, <2>6, SeqOfSubset
  <2>8. mJobQueue' \in [Tracks -> Seq(GoodJob')] /\ mJobQueue' \in [Tracks -> Seq(Job)]
    BY <1>4, <2>7
  <2>9. JobInv'
    BY <1>1, <2>6, <2>8 DEF TInv, JobInv
  <2>10. TodoInv'
    BY <1>1, <1>5 DEF NextPeriod, TInv, TodoInv
  <2>11. TypeOK'
    BY <1>1, <1>5, <2>2, <2>4, <2>8, TrackFacts DEF NextPeriod, TInv, TypeOK
  <2> QED BY <2>5, <2>9, <2>10, <2>11 DEF TInv
<1>6. CASE ~NextPeriod
  <2>1. UNCHANGED currentPeriod
    BY <1>6 DEF FetcherStep, FetchInit, FetchInitDone, FetchSegment, SubmitEos, FetcherExit,
         FetcherEnds, WaitForCompletion, CompletionSubmit, CompletionReturns, ResetReturns,
         SwitchTrack, ResetWorker
  <2>2. JobInv' /\ mJobQueue' \in [Tracks -> Seq(Job)]
    BY <1>1, <1>4, <2>1, TypeQueue
  <2>3. /\ nextSegment' \in [Tracks -> LastOf(currentPeriod - 1) + 1 .. LastOf(currentPeriod) + 1]
        /\ done' \in [Tracks -> 0 .. LastOf(currentPeriod)]
        /\ initFor' \in [Tracks -> 0 .. MaxPeriods]
    <3>1. /\ nextSegment \in [Tracks -> LastOf(currentPeriod - 1) + 1 .. LastOf(currentPeriod) + 1]
          /\ done \in [Tracks -> 0 .. LastOf(currentPeriod)]
          /\ initFor \in [Tracks -> 0 .. MaxPeriods]
      BY DEF TInv, TypeOK, NumberInv
    <3>2. ASSUME NEW t \in Tracks, FetchSegment(t)
          PROVE  nextSegment' \in [Tracks -> LastOf(currentPeriod - 1) + 1 .. LastOf(currentPeriod) + 1]
      <4>1. nextSegment[t] + 1 \in LastOf(currentPeriod - 1) + 1 .. LastOf(currentPeriod) + 1
        BY <3>1, <3>2, NumberFacts DEF FetchSegment, EndOfPeriod
      <4> QED BY <3>1, <3>2, <4>1 DEF FetchSegment
    <3>3. CASE SwitchTrack
      <4>1. PICK t \in Tracks : t = Head(todo)
        BY <1>3, <3>3 DEF SwitchTrack, TInv, TodoInv
      <4>2. PICK n \in LastOf(currentPeriod - 1) + 1 .. LastOf(currentPeriod) + 1 :
               /\ nextSegment' = [nextSegment EXCEPT ![t] = n]
               /\ initFor' = [initFor EXCEPT ![t] = 0]
               /\ done' = [done EXCEPT ![t] = nextSegment'[t] - 1]
        <5>1. PICK n \in ResumePoints(t) :
                 /\ nextSegment' = [nextSegment EXCEPT ![t] = n]
                 /\ initFor' = [initFor EXCEPT ![t] = 0]
                 /\ done' = [done EXCEPT ![t] = n - 1]
          BY <3>3, <4>1 DEF SwitchTrack
        <5>2. n \in LastOf(currentPeriod - 1) + 1 .. LastOf(currentPeriod) + 1
          BY <3>1, <5>1, NumberFacts DEF ResumePoints
        <5>3. nextSegment'[t] = n
          BY <3>1, <5>1
        <5> QED BY <5>1, <5>2, <5>3
      <4>3. nextSegment'[t] = n
        BY <3>1, <4>2
      <4>4. n - 1 \in 0 .. LastOf(currentPeriod) /\ 0 \in 0 .. MaxPeriods
        BY NumberFacts
      <4> QED BY <3>1, <4>2, <4>3, <4>4
    <3>4. CASE ~SwitchTrack
      <4>1. UNCHANGED <<done, initFor>>
        BY <1>6, <3>4 DEF FetcherStep, FetchInit, FetchInitDone, FetchSegment, SubmitEos, FetcherExit,
             FetcherEnds, WaitForCompletion, CompletionSubmit, CompletionReturns, ResetReturns,
             ResetWorker
      <4>2. CASE \E t \in Tracks : FetchSegment(t)
        BY <3>1, <3>2, <4>1, <4>2
      <4>3. CASE ~ \E t \in Tracks : FetchSegment(t)
        <5>1. UNCHANGED nextSegment
          BY <1>6, <3>4, <4>3 DEF FetcherStep, FetchInit, FetchInitDone, SubmitEos, FetcherExit,
               FetcherEnds, WaitForCompletion, CompletionSubmit, CompletionReturns, ResetReturns,
               ResetWorker
        <5> QED BY <3>1, <4>1, <5>1
      <4> QED BY <4>2, <4>3
    <3> QED BY <3>3, <3>4
  <2>4. NumberInv' /\ nextSegment' \in [Tracks -> 1 .. LastOf(MaxPeriods) + 1]
          /\ done' \in [Tracks -> 0 .. LastOf(MaxPeriods)]
    <3>1. \A u \in Tracks : /\ nextSegment'[u] \in LastOf(currentPeriod - 1) + 1 .. LastOf(currentPeriod) + 1
                            /\ done'[u] \in 0 .. LastOf(currentPeriod)
      BY <2>3
    <3>2. \A u \in Tracks : nextSegment'[u] \in 1 .. LastOf(MaxPeriods) + 1 /\ done'[u] \in 0 .. LastOf(MaxPeriods)
      BY <3>1, NumberFacts
    <3>3. NumberInv'
      BY <2>1, <3>1 DEF NumberInv, LastOf
    <3> QED BY <2>3, <3>2, <3>3
  <2>5. /\ todo' \in Seq(Tracks) /\ eosSubmitted' \in [Tracks -> BOOLEAN]
        /\ profileChanged' \in [Tracks -> BOOLEAN] /\ switches' \in 0 .. MaxSwitches
        /\ future' \in {"none", "pending", "value", "cancelled"}
        /\ fetcher' \in {"init", "initDone", "loop", "complete", "completeWait",
                         "resetWait", "switch", "exited", "terminated"}
        /\ TodoInv'
    <3>1. CASE FetchInit \/ FetchInitDone \/ \E t \in Tracks : FetchSegment(t) \/ SubmitEos(t)
      BY <1>1, <1>3, <2>1, <3>1 DEF FetchInit, FetchInitDone, FetchSegment, SubmitEos, TInv, TypeOK, TodoInv
    <3>2. CASE FetcherExit \/ FetcherEnds \/ WaitForCompletion
      BY <1>1, <1>3, <2>1, <3>2, TrackFacts DEF FetcherExit, FetcherEnds, WaitForCompletion, TInv, TypeOK, TodoInv
    <3>3. CASE CompletionSubmit \/ CompletionReturns
      BY <1>1, <1>3, <2>1, <3>3 DEF CompletionSubmit, CompletionReturns, TInv, TypeOK, TodoInv
    <3>4. CASE ResetReturns \/ SwitchTrack
      BY <1>1, <1>3, <2>1, <3>4 DEF ResetReturns, SwitchTrack, TInv, TypeOK, TodoInv
    <3>5. ASSUME NEW t \in Switchable, ResetWorker(t)
          PROVE  /\ todo' \in Seq(Tracks) /\ eosSubmitted' \in [Tracks -> BOOLEAN]
                 /\ profileChanged' \in [Tracks -> BOOLEAN] /\ switches' \in 0 .. MaxSwitches
                 /\ future' \in {"none", "pending", "value", "cancelled"}
                 /\ fetcher' \in {"init", "initDone", "loop", "complete", "completeWait",
                                  "resetWait", "switch", "exited", "terminated"}
                 /\ TodoInv'
      <4>1. todo' = <<t>> /\ t \in Tracks
        BY <3>5, TrackFacts DEF ResetWorker
      <4>2. todo' \in Seq(Tracks) /\ todo' # <<>> /\ Len(todo') = 1
        BY <4>1
      <4>3. switches' \in 0 .. MaxSwitches
        BY <3>5, WorkerAssumption DEF ResetWorker, TInv, TypeOK
      <4> QED BY <1>1, <2>1, <3>5, <4>2, <4>3 DEF ResetWorker, TInv, TypeOK, TodoInv
    <3> QED BY <1>6, <3>1, <3>2, <3>3, <3>4, <3>5 DEF FetcherStep
  <2>6. TypeOK'
    BY <1>1, <2>1, <2>2, <2>3, <2>4, <2>5 DEF TInv, TypeOK
  <2> QED BY <2>2, <2>4, <2>5, <2>6 DEF TInv
<1> QED BY <1>5, <1>6

LEMMA TypeStop ==
  ASSUME TInv, StopWorkers \/ StopStep \/ InitializeWorkers
  PROVE  TInv'
<1>1. stopping \in Seq(Tracks) /\ mJobQueue \in [Tracks -> Seq(GoodJob)]
  BY DEF TInv, TypeOK, JobInv
<1>2. stopping # <<>> => Head(stopping) \in Tracks /\ Tail(stopping) \in Seq(Tracks)
  BY <1>1
<1>3. CASE InitializeWorkers
  <2>1. /\ LastOf(0) = 0 /\ LastOf(MaxPeriods) \in Nat /\ LastOf(1) \in Nat
        /\ 1 <= MaxPeriods /\ MaxPeriods \in Nat
    BY PeriodEnds, WorkerAssumption DEF LastOf
  <2>2. mJobQueue' \in [Tracks -> Seq(Job)] /\ mJobQueue' \in [Tracks -> Seq(GoodJob')]
    BY <1>3 DEF InitializeWorkers
  <2>3. /\ mStopped' \in [Tracks -> BOOLEAN] /\ mPaused' \in [Tracks -> BOOLEAN]
        /\ worker' \in [Tracks -> {"idle", "running", "reschedule", "callback", "exited"}]
        /\ currentJob' \in [Tracks -> Job \cup {NoJob}]
        /\ profileChanged' \in [Tracks -> BOOLEAN]
        /\ eosSubmitted' \in [Tracks -> BOOLEAN] /\ eosReached' \in [Tracks -> BOOLEAN]
    BY <1>3 DEF InitializeWorkers
  <2>4. /\ nextSegment' \in [Tracks -> 1 .. LastOf(MaxPeriods) + 1]
        /\ done' \in [Tracks -> 0 .. LastOf(MaxPeriods)]
        /\ initFor' \in [Tracks -> 0 .. MaxPeriods]
    BY <1>3, <2>1 DEF InitializeWorkers
  <2>5. todo' \in Seq(Tracks) /\ currentPeriod' \in 1 .. MaxPeriods /\ tunes' \in 1 .. MaxTunes
    <3>1. tunes \in 1 .. MaxTunes
      BY DEF TInv, TypeOK
    <3> QED BY <1>3, <2>1, <3>1, TrackFacts, WorkerAssumption DEF InitializeWorkers
  <2>6. TypeOK'
    BY <1>3, <2>2, <2>3, <2>4, <2>5 DEF InitializeWorkers, TInv, TypeOK
  <2>7. JobInv'
    BY <1>3, <2>2 DEF InitializeWorkers, JobInv
  <2>8. NumberInv'
    <3>1. currentPeriod' = 1 /\ \A u \in Tracks : nextSegment'[u] = 1 /\ done'[u] = 0
      BY <1>3 DEF InitializeWorkers
    <3> QED BY <2>1, <3>1 DEF NumberInv, LastOf
  <2>9. TodoInv'
    BY <1>3 DEF InitializeWorkers, TodoInv
  <2> QED BY <2>6, <2>7, <2>8, <2>9 DEF TInv
<1>4. CASE ~InitializeWorkers
  <2>1. UNCHANGED <<worker, currentJob, fetcher, todo, currentPeriod, nextSegment, eosSubmitted,
                    switches, profileChanged, eosReached, changes, done, initFor, initFailures,
                    tunes>>
    BY <1>4 DEF StopWorkers, StopStep, CopyWorkers, Pause, StopWorker, JoinWorker, RemoveWorkers,
         workerVars, fetcherVars
  <2>2. mJobQueue' \in [Tracks -> Seq(GoodJob)]
    <3>1. CASE JoinWorker
      <4>1. mJobQueue' = [mJobQueue EXCEPT ![Head(stopping)] = <<>>] /\ <<>> \in Seq(GoodJob)
        BY <3>1 DEF JoinWorker
      <4> QED BY <1>1, <4>1
    <3>2. CASE ~JoinWorker
      BY <1>1, <1>4, <3>2 DEF StopWorkers, StopStep, CopyWorkers, Pause, StopWorker,
           RemoveWorkers, workerVars
    <3> QED BY <3>1, <3>2
  <2>3. JobInv' /\ mJobQueue' \in [Tracks -> Seq(Job)]
    BY <2>1, <2>2, TypeQueue
  <2>4. NumberInv'
    BY <2>1 DEF TInv, NumberInv, LastOf
  <2>5. /\ stopping' \in Seq(Tracks) /\ mStopped' \in [Tracks -> BOOLEAN]
        /\ mPaused' \in [Tracks -> BOOLEAN] /\ mStopInProgress' \in BOOLEAN
        /\ controller' \in {"playing", "copy", "pause", "stop", "join", "joinFetcher", "removed"}
        /\ future' \in {"none", "pending", "value", "cancelled"}
        /\ TodoInv'
    <3> USE <2>1 DEF TInv, TypeOK, TodoInv
    <3>1. CASE StopWorkers
      BY <3>1 DEF StopWorkers, workerVars
    <3>2. CASE CopyWorkers
      BY <3>2, TrackFacts DEF CopyWorkers, workerVars
    <3>3. CASE Pause
      BY <3>3 DEF Pause, workerVars
    <3>4. CASE StopWorker
      BY <3>4 DEF StopWorker, workerVars
    <3>5. CASE JoinWorker
      <4>1. stopping' \in Seq(Tracks)
        BY <3>5 DEF JoinWorker
      <4>2. future' \in {"none", "pending", "value", "cancelled"}
        BY <3>5 DEF JoinWorker, Cancelled
      <4>3. UNCHANGED <<mStopped, mPaused, mStopInProgress>>
        BY <3>5 DEF JoinWorker
      <4>4. controller' \in {"joinFetcher", "pause"}
        BY <3>5 DEF JoinWorker
      <4> QED BY <4>1, <4>2, <4>3, <4>4
    <3>6. CASE RemoveWorkers
      BY <3>6 DEF RemoveWorkers, workerVars
    <3> QED BY <1>2, <1>4, <3>1, <3>2, <3>3, <3>4, <3>5, <3>6 DEF StopStep
  <2>6. TypeOK'
    BY <2>1, <2>3, <2>5 DEF TInv, TypeOK
  <2> QED BY <2>3, <2>4, <2>5, <2>6 DEF TInv
<1> QED BY <1>3, <1>4

LEMMA TypeStep == TInv /\ [Next]_vars => TInv'
<1> SUFFICES ASSUME TInv, [Next]_vars PROVE TInv'
  OBVIOUS
<1>1. CASE Next
  BY <1>1, TypeWorker, TypeFetcher, TypeStop DEF Next
<1>2. CASE UNCHANGED vars
  <2>1. UNCHANGED <<mJobQueue, mStopped, mPaused, worker, currentJob, mStopInProgress,
                    profileChanged, fetcher, todo, future, currentPeriod, nextSegment,
                    eosSubmitted, eosReached, controller, stopping, changes, initFailures,
                    switches, tunes, done, initFor>>
    BY <1>2 DEF vars, workerVars, fetcherVars, stopVars
  <2>2. TypeOK'
    BY <2>1 DEF TInv, TypeOK
  <2>3. JobInv' /\ NumberInv' /\ TodoInv'
    BY <2>1 DEF TInv, JobInv, GoodJob, NumberInv, TodoInv, LastOf
  <2> QED BY <2>2, <2>3 DEF TInv
<1> QED BY <1>1, <1>2

(* Types of the workers, the fetcher and Stop in every reachable state: no *)
(* track gets past the last segment of the period the fetcher is in.       *)
THEOREM WorkerTypesCorrect == Spec => []TypeOK
<1>1. Spec => []TInv
  BY TypeInit, TypeStep, PTL DEF Spec
<1>2. TInv => TypeOK
  BY DEF TInv
<1> QED BY <1>1, <1>2, PTL

------------------------------------------------------------------------------
(* Stop.                                                                   *)
Joined(t) == worker[t] = "exited" /\ mJobQueue[t] = <<>>

(* A worker that has ended gets no more jobs.                              *)
LEMMA ExitedStays ==
  ASSUME TInv, StopInv, Next, ~InitializeWorkers, NEW u \in Tracks
  PROVE  /\ worker[u] = "exited" => worker'[u] = "exited"
         /\ Joined(u) => Joined(u)'
<1>1. worker[u] = "exited" => mStopped[u]
  BY DEF StopInv
<1>2. mJobQueue \in [Tracks -> Seq(Job)] /\ worker \in [Tracks -> {"idle", "running", "reschedule", "callback", "exited"}]
  BY DEF TInv, TypeOK
<1>3. ASSUME NEW t \in Tracks, WorkerStep(t)
      PROVE  /\ worker[u] = "exited" => worker'[u] = "exited"
             /\ Joined(u) => Joined(u)'
  <2>1. worker[t] # "exited"
    BY <1>3 DEF WorkerStep, TakeJob, WorkerExit, RunControlJob, DownloadSegment, Running,
         DownloadSegmentAndChangeProfile, DownloadInit, DownloadInitFails, RampDown,
         RescheduleActiveJob, SubmitInitFromJob
  <2>2. u # t => worker'[u] = worker[u] /\ mJobQueue'[u] = mJobQueue[u]
    BY <1>2, <1>3 DEF WorkerStep, TakeJob, WorkerExit, RunControlJob, DownloadSegment,
         DownloadSegmentAndChangeProfile, DownloadInit, DownloadInitFails, RampDown,
         RescheduleActiveJob, SubmitInitFromJob, SubmitJob, ReturnFromRun
  <2> QED BY <2>1, <2>2 DEF Joined
<1>4. ASSUME FetcherStep \/ \E t \in Switchable : ResetWorker(t)
      PROVE  /\ worker'[u] = worker[u]
             /\ mStopped[u] /\ mJobQueue[u] = <<>> => mJobQueue'[u] = <<>>
  BY <1>2, <1>4, TrackFacts DEF FetcherStep, FetchInit, FetchInitDone, FetchSegment, SubmitEos, FetcherExit,
       FetcherEnds, WaitForCompletion, CompletionSubmit, CompletionReturns, NextPeriod,
       ResetReturns, SwitchTrack, ResetWorker, SubmitJob, Accepts, workerVars
<1>5. ASSUME StopWorkers \/ StopStep
      PROVE  worker'[u] = worker[u] /\ (mJobQueue[u] = <<>> => mJobQueue'[u] = <<>>)
  BY <1>2, <1>5 DEF StopWorkers, StopStep, CopyWorkers, Pause, StopWorker, JoinWorker,
       RemoveWorkers, workerVars
<1> QED BY <1>1, <1>3, <1>4, <1>5 DEF Next, Joined

LEMMA StopInit == Init => StopInv
  BY DEF Init, StopInv

LEMMA StopInvStep == TInv /\ StopInv /\ [Next]_vars => StopInv'
<1> SUFFICES ASSUME TInv, StopInv, [Next]_vars PROVE StopInv'
  OBVIOUS
<1>0. stopping \in Seq(Tracks) /\ mStopped \in [Tracks -> BOOLEAN]
  BY DEF TInv, TypeOK
<1>a. CASE UNCHANGED vars
  BY <1>a DEF StopInv, vars, workerVars, fetcherVars, stopVars
<1>1. ASSUME NEW t \in Tracks, WorkerStep(t) PROVE StopInv'
  <2>1. UNCHANGED <<mStopped, mStopInProgress, controller, stopping, fetcher>>
    BY <1>1 DEF WorkerStep, TakeJob, WorkerExit, RunControlJob, DownloadSegment,
         DownloadSegmentAndChangeProfile, DownloadInit, DownloadInitFails, RampDown,
         RescheduleActiveJob, SubmitInitFromJob, fetcherVars, stopVars
  <2>2. \A u \in Tracks : worker'[u] = "exited" => worker[u] = "exited" \/ mStopped[u]
    BY <1>1 DEF WorkerStep, TakeJob, WorkerExit, RunControlJob, DownloadSegment,
         DownloadSegmentAndChangeProfile, DownloadInit, DownloadInitFails, RampDown,
         RescheduleActiveJob, SubmitInitFromJob, ReturnFromRun, TInv, TypeOK
  <2>3. ~InitializeWorkers
    BY <2>1, WorkerAssumption DEF InitializeWorkers
  <2>4. \A u \in Tracks : Joined(u) => Joined(u)'
    BY <1>1, <2>3, ExitedStays DEF Next
  <2> QED BY <2>1, <2>2, <2>4 DEF StopInv, Joined
<1>2. CASE FetcherStep \/ \E t \in Switchable : ResetWorker(t)
  <2>1. UNCHANGED <<mStopped, mStopInProgress, controller, stopping, worker>>
    BY <1>2 DEF FetcherStep, FetchInit, FetchInitDone, FetchSegment, SubmitEos, FetcherExit,
         FetcherEnds, WaitForCompletion, CompletionSubmit, CompletionReturns, NextPeriod,
         ResetReturns, SwitchTrack, ResetWorker, workerVars, stopVars
  <2>2. fetcher # "exited"
    BY <1>2 DEF FetcherStep, FetchInit, FetchInitDone, FetchSegment, SubmitEos, FetcherExit,
         FetcherEnds, WaitForCompletion, CompletionSubmit, CompletionReturns, NextPeriod,
         ResetReturns, SwitchTrack, ResetWorker
  <2>3. ~InitializeWorkers
    BY <2>1, WorkerAssumption DEF InitializeWorkers
  <2>4. \A u \in Tracks : Joined(u) => Joined(u)'
    BY <1>2, <2>3, ExitedStays DEF Next
  <2> QED BY <2>1, <2>2, <2>4 DEF StopInv, Joined
<1>3. CASE InitializeWorkers
  BY <1>3 DEF InitializeWorkers, StopInv
<1>4. CASE StopWorkers \/ CopyWorkers \/ Pause \/ StopWorker \/ RemoveWorkers
  <2>1. UNCHANGED <<worker, mJobQueue, fetcher>>
    BY <1>4 DEF StopWorkers, CopyWorkers, Pause, StopWorker, RemoveWorkers, workerVars, fetcherVars
  <2>2. CASE StopWorkers
    BY <2>1, <2>2 DEF StopWorkers, StopInv, workerVars
  <2>3. CASE CopyWorkers
    BY <2>1, <2>3 DEF CopyWorkers, StopInv, workerVars, Tracks
  <2>4. CASE Pause
    BY <2>1, <2>4 DEF Pause, StopInv
  <2>5. CASE StopWorker
    BY <1>0, <2>1, <2>5 DEF StopWorker, StopInv
  <2>6. CASE RemoveWorkers
    BY <2>1, <2>6 DEF RemoveWorkers, StopInv, workerVars
  <2> QED BY <1>4, <2>2, <2>3, <2>4, <2>5, <2>6
<1>5. CASE JoinWorker
  <2>1. stopping # <<>> /\ worker[Head(stopping)] = "exited"
    BY <1>5 DEF JoinWorker, TInv, TodoInv
  <2>2. Head(stopping) \in Tracks /\ ToSet(stopping) = {Head(stopping)} \cup ToSet(Tail(stopping))
    BY <1>0, <2>1, MembersOf
  <2>3. /\ UNCHANGED <<worker, mStopped, mStopInProgress, fetcher>>
        /\ mJobQueue' = [mJobQueue EXCEPT ![Head(stopping)] = <<>>]
        /\ stopping' = Tail(stopping)
        /\ controller' = IF Tail(stopping) = <<>> THEN "joinFetcher" ELSE "pause"
        /\ controller = "join"
    BY <1>5 DEF JoinWorker, fetcherVars
  <2>4. \A u \in Tracks : u \in ToSet(stopping) \/ Joined(u)
    BY <2>3 DEF StopInv, Joined
  <2>5. \A u \in Tracks : u \in ToSet(stopping') \/ Joined(u)'
    BY <2>1, <2>2, <2>3, <2>4 DEF Joined, TInv, TypeOK
  <2> QED BY <2>3, <2>5 DEF StopInv, Joined
<1> QED BY <1>a, <1>1, <1>2, <1>3, <1>4, <1>5 DEF Next, StopStep

(* When StopWorkers has returned, no worker runs a job, none has one       *)
(* queued, and none accepts one: neither the fetcher, which still runs,    *)
(* nor a late callback can hand one to a worker that has ended.            *)
THEOREM StoppedIsQuiescent == Spec => []StopIsQuiescent
<1>1. Spec => [](TInv /\ StopInv)
  BY TypeInit, TypeStep, StopInit, StopInvStep, PTL DEF Spec
<1>2. TInv /\ StopInv => StopIsQuiescent
  <2> SUFFICES ASSUME TInv, StopInv, controller \in {"joinFetcher", "removed"}
               PROVE  \A t \in Tracks : worker[t] = "exited" /\ mJobQueue[t] = <<>>
    BY DEF StopIsQuiescent
  <2>1. stopping = <<>> /\ stopping \in Seq(Tracks)
    BY DEF StopInv, TInv, TypeOK
  <2>2. ToSet(stopping) = {}
    BY <2>1, MembersOf
  <2> QED BY <2>2 DEF StopInv
<1> QED BY <1>1, <1>2, PTL

------------------------------------------------------------------------------
(* Waiting for a dummy job.                                                *)
LEMMA ConsProperties ==
  ASSUME NEW S, NEW q \in Seq(S), NEW j \in S
  PROVE  /\ <<j>> \o q \in Seq(S) /\ Len(<<j>> \o q) = Len(q) + 1 /\ (<<j>> \o q)[1] = j
         /\ \A i \in 1 .. Len(q) : (<<j>> \o q)[i + 1] = q[i]
         /\ \A i \in 1 .. Len(q) + 1 : i # 1 => i - 1 \in 1 .. Len(q) /\ (<<j>> \o q)[i] = q[i - 1]
         /\ Len(q) \in Nat
  OBVIOUS

LEMMA TailProperties ==
  ASSUME NEW S, NEW q \in Seq(S), q # <<>>
  PROVE  /\ Head(q) \in S /\ Head(q) = q[1] /\ Tail(q) \in Seq(S) /\ q = <<Head(q)>> \o Tail(q)
         /\ Len(q) \in Nat \ {0} /\ Len(Tail(q)) = Len(q) - 1
         /\ \A i \in 1 .. Len(Tail(q)) : Tail(q)[i] = q[i + 1]
  OBVIOUS

LEMMA WaitWorker ==
  ASSUME TInv, WaitInv, NEW t \in Tracks, WorkerStep(t)
  PROVE  WaitInv'
<1>1. UNCHANGED <<mStopped, fetcher, todo, controller>>
  BY DEF WorkerStep, TakeJob, WorkerExit, RunControlJob, DownloadSegment,
       DownloadSegmentAndChangeProfile, DownloadInit, DownloadInitFails, RampDown,
       RescheduleActiveJob, SubmitInitFromJob, fetcherVars, stopVars
<1>2. /\ mJobQueue \in [Tracks -> Seq(Job)] /\ currentJob \in [Tracks -> Job \cup {NoJob}]
      /\ worker \in [Tracks -> {"idle", "running", "reschedule", "callback", "exited"}]
      /\ worker[t] \in {"reschedule", "callback"} => currentJob[t].kind \in {"segment", "init"}
      /\ worker[t] \in {"running", "reschedule", "callback"} => currentJob[t] \in Job
  BY DEF TInv, TypeOK, JobInv, GoodJob
<1>3. Dummy(1).kind = "dummy" /\ InitJob.kind = "init" /\ InitJob \in Job
  BY NumberFacts, JobFacts DEF Dummy, InitJob
<1>4. \A u \in Tracks : u # t =>
        /\ worker'[u] = worker[u] /\ currentJob'[u] = currentJob[u]
        /\ mJobQueue'[u] = mJobQueue[u]
  BY <1>2 DEF WorkerStep, TakeJob, WorkerExit, RunControlJob, DownloadSegment,
       DownloadSegmentAndChangeProfile, DownloadInit, DownloadInitFails, RampDown,
       RescheduleActiveJob, SubmitInitFromJob, ReturnFromRun, SubmitJob
<1>5. fetcher \in {"completeWait", "resetWait", "switch"} => Head(todo) \in Tracks
  <2>1. todo \in Seq(Tracks) /\ (fetcher \in {"completeWait", "resetWait", "switch"} => todo # <<>>)
    BY DEF TInv, TypeOK, TodoInv
  <2> QED BY <2>1, MembersOf
<1>6. \A u : (Waiting' <=> Waiting) /\ Dummy(1)' = Dummy(1)
  BY <1>1 DEF Waiting, Dummy
<1>7. CASE TakeJob(t)
  <2>1. /\ worker[t] = "idle" /\ mJobQueue[t] # <<>> /\ ~mStopped[t] /\ UNCHANGED future
        /\ currentJob'[t] = Head(mJobQueue[t]) /\ mJobQueue'[t] = Tail(mJobQueue[t])
        /\ worker'[t] = "running"
    BY <1>2, <1>7 DEF TakeJob
  <2>2. PICK q \in Seq(Job) : q = mJobQueue[t] /\ q # <<>>
    BY <1>2, <2>1
  <2>3. /\ Head(q) = q[1] /\ Len(q) \in Nat \ {0} /\ Len(Tail(q)) = Len(q) - 1
        /\ \A i \in 1 .. Len(Tail(q)) : Tail(q)[i] = q[i + 1] /\ i + 1 \in 1 .. Len(q)
        /\ 1 \in 1 .. Len(q) /\ (Len(q) = 1 => Tail(q) = <<>>)
    <3>1. /\ Head(q) = q[1] /\ Tail(q) \in Seq(Job)
          /\ Len(q) \in Nat \ {0} /\ Len(Tail(q)) = Len(q) - 1
          /\ \A i \in 1 .. Len(Tail(q)) : Tail(q)[i] = q[i + 1]
      BY <2>2, TailProperties
    <3>2. ASSUME Len(q) = 1 PROVE Tail(q) = <<>>
      <4>1. Len(Tail(q)) = 0
        BY <3>1, <3>2
      <4> QED BY <3>1, <4>1, EmptySeq
    <3> QED BY <3>1, <3>2
  <2>4. FutureInv'
    BY <1>1, <1>6, <2>1 DEF WaitInv, FutureInv
  <2>5. DummyInv'
    <3>1. ASSUME NEW i \in 1 .. Len(Tail(q)), Tail(q)[i] = Dummy(1)
          PROVE  Waiting /\ t = Head(todo) /\ future = "pending" /\ i = Len(Tail(q))
      <4>1. i + 1 \in 1 .. Len(q) /\ q[i + 1] = Dummy(1)
        BY <2>3, <3>1
      <4>2. Waiting /\ t = Head(todo) /\ future = "pending" /\ i + 1 = Len(q)
        BY <2>2, <4>1 DEF WaitInv, DummyInv
      <4>3. i \in Nat
        BY <2>3
      <4>4. i = Len(Tail(q))
        BY <2>2, <2>3, <4>2, <4>3
      <4> QED BY <4>2, <4>4
    <3>2. ASSUME Head(q) = Dummy(1)
          PROVE  Waiting /\ t = Head(todo) /\ future = "pending" /\ Tail(q) = <<>>
      <4>1. Waiting /\ t = Head(todo) /\ future = "pending" /\ 1 = Len(q)
        BY <2>2, <2>3, <3>2 DEF WaitInv, DummyInv
      <4> QED BY <2>3, <4>1
    <3> SUFFICES ASSUME NEW u \in Tracks
                 PROVE  /\ \A i \in 1 .. Len(mJobQueue'[u]) : mJobQueue'[u][i] = Dummy(1) =>
                             /\ Waiting /\ u = Head(todo) /\ future = "pending"
                             /\ i = Len(mJobQueue'[u])
                        /\ worker'[u] = "running" /\ currentJob'[u] = Dummy(1) =>
                             Waiting /\ u = Head(todo) /\ future = "pending" /\ mJobQueue'[u] = <<>>
      BY <1>1, <1>6, <2>1 DEF DummyInv, Runs
    <3>3. CASE u = t
      <4>1. mJobQueue'[u] = Tail(q) /\ currentJob'[u] = Head(q)
        BY <2>1, <2>2, <3>3
      <4> QED BY <3>1, <3>2, <3>3, <4>1
    <3>4. CASE u # t
      BY <1>4, <3>4 DEF WaitInv, DummyInv, Runs
    <3> QED BY <3>3, <3>4
  <2>6. ReplyInv'
    <3>1. Waiting /\ future = "value" => t # Head(todo)
      BY <2>1 DEF WaitInv, ReplyInv, Quiet
    <3>2. fetcher = "switch" => t # Head(todo)
      BY <2>1 DEF WaitInv, ReplyInv, ResetIsBarrier
    <3>3. ASSUME fetcher = "resetWait", future = "pending", t = Head(todo)
          PROVE  Tail(q) = <<>> /\ Head(q) = Dummy(1)
      <4>1. q = <<Dummy(1)>>
        BY <2>1, <2>2, <3>3 DEF WaitInv, ReplyInv
      <4> QED BY <4>1
    <3> QED BY <1>1, <1>4, <1>5, <1>6, <2>1, <2>2, <3>1, <3>2, <3>3
          DEF WaitInv, ReplyInv, ResetIsBarrier, Quiet, Runs, Waiting
  <2> QED BY <2>4, <2>5, <2>6 DEF WaitInv
<1>8. CASE RunControlJob(t) /\ currentJob[t] = Dummy(1)
  <2>1. /\ Runs(t, Dummy(1)) /\ future' = "value" /\ worker'[t] = "idle"
        /\ UNCHANGED mJobQueue
    BY <1>2, <1>8 DEF RunControlJob, Running, Runs, ReturnFromRun
  <2>2. Waiting /\ t = Head(todo) /\ mJobQueue[t] = <<>> /\ future = "pending"
    BY <2>1 DEF WaitInv, DummyInv
  <2>3. \A u \in Tracks : u # t => ~Runs(u, Dummy(1))
    BY <2>2 DEF WaitInv, DummyInv
  <2>4. \A u \in Tracks : \A i \in 1 .. Len(mJobQueue[u]) : mJobQueue[u][i] # Dummy(1)
    <3> SUFFICES ASSUME NEW u \in Tracks, NEW i \in 1 .. Len(mJobQueue[u]), mJobQueue[u][i] = Dummy(1)
                 PROVE  FALSE
      OBVIOUS
    <3>1. u = t
      BY <2>2 DEF WaitInv, DummyInv
    <3>2. Len(mJobQueue[t]) = 0
      BY <2>2
    <3> QED BY <3>1, <3>2
  <2>5. FutureInv'
    BY <1>1, <1>6, <2>1, <2>2 DEF WaitInv, FutureInv
  <2>6. DummyInv'
    BY <1>4, <1>6, <2>1, <2>3, <2>4 DEF DummyInv, Runs
  <2>7. ReplyInv'
    BY <1>1, <2>1, <2>2 DEF ReplyInv, ResetIsBarrier, Quiet, Waiting
  <2> QED BY <2>5, <2>6, <2>7 DEF WaitInv
<1>9. CASE \/ WorkerExit(t) \/ (RunControlJob(t) /\ currentJob[t] # Dummy(1))
           \/ DownloadSegment(t) \/ DownloadSegmentAndChangeProfile(t)
           \/ DownloadInit(t) \/ DownloadInitFails(t) \/ RampDown(t)
  <2>1. /\ UNCHANGED <<future, mJobQueue>> /\ worker'[t] # "running" /\ ~Runs(t, Dummy(1))
        /\ worker[t] # "running" => worker'[t] = "exited" /\ mStopped[t]
    BY <1>2, <1>3, <1>9 DEF WorkerExit, RunControlJob, DownloadSegment, Running, Runs, ReturnFromRun,
         DownloadSegmentAndChangeProfile, DownloadInit, DownloadInitFails, RampDown
  <2>2. FutureInv'
    BY <1>1, <1>6, <2>1 DEF WaitInv, FutureInv
  <2>3. DummyInv'
    BY <1>1, <1>4, <1>6, <2>1 DEF WaitInv, DummyInv, Runs
  <2>4. ReplyInv'
    BY <1>1, <1>4, <1>5, <1>6, <2>1 DEF WaitInv, ReplyInv, ResetIsBarrier, Quiet, Runs, Waiting
  <2> QED BY <2>2, <2>3, <2>4 DEF WaitInv
<1>10. CASE RescheduleActiveJob(t) \/ SubmitInitFromJob(t)
  <2>1. PICK j \in Job : /\ j.kind # "dummy"
                         /\ mJobQueue'[t] = <<j>> \o mJobQueue[t] \/ mJobQueue'[t] = mJobQueue[t]
    <3>1. CASE RescheduleActiveJob(t)
      <4>1. currentJob[t] \in Job /\ currentJob[t].kind # "dummy"
        BY <1>2, <3>1 DEF RescheduleActiveJob
      <4> QED BY <1>2, <3>1, <4>1 DEF RescheduleActiveJob, Rescheduled
    <3>2. CASE SubmitInitFromJob(t)
      BY <1>2, <1>3, <3>2 DEF SubmitInitFromJob, SubmitJob, Pushed
    <3> QED BY <1>10, <3>1, <3>2
  <2>2. UNCHANGED future /\ worker[t] \in {"reschedule", "callback"} /\ MutexFree /\ worker'[t] # "running"
    BY <1>2, <1>10 DEF RescheduleActiveJob, SubmitInitFromJob, SubmitJob, ReturnFromRun
  <2>3. FutureInv'
    BY <1>1, <1>6, <2>2 DEF WaitInv, FutureInv
  <2>4. ASSUME NEW i \in 1 .. Len(mJobQueue'[t]), mJobQueue'[t][i] = Dummy(1)
        PROVE  Waiting /\ t = Head(todo) /\ future = "pending" /\ i = Len(mJobQueue'[t])
    <3>1. CASE mJobQueue'[t] = mJobQueue[t]
      BY <2>4, <3>1 DEF WaitInv, DummyInv
    <3>2. CASE mJobQueue'[t] = <<j>> \o mJobQueue[t]
      <4>0. mJobQueue[t] \in Seq(Job)
        BY <1>2
      <4>1. i # 1
        BY <1>3, <2>1, <2>4, <3>2, <4>0, ConsProperties
      <4>2. /\ i - 1 \in 1 .. Len(mJobQueue[t]) /\ mJobQueue[t][i - 1] = Dummy(1)
            /\ Len(mJobQueue'[t]) = Len(mJobQueue[t]) + 1
        BY <2>4, <3>2, <4>0, <4>1, ConsProperties
      <4>3. Waiting /\ t = Head(todo) /\ future = "pending" /\ i - 1 = Len(mJobQueue[t])
        BY <4>2 DEF WaitInv, DummyInv
      <4>4. i = Len(mJobQueue'[t])
        BY <4>0, <4>2, <4>3
      <4> QED BY <4>3, <4>4
    <3> QED BY <2>1, <3>1, <3>2
  <2>5. DummyInv'
    BY <1>1, <1>4, <1>6, <2>2, <2>4 DEF WaitInv, DummyInv, Runs
  <2>6. ReplyInv'
    BY <1>1, <1>4, <1>5, <1>6, <2>2
      DEF WaitInv, ReplyInv, ResetIsBarrier, Quiet, Runs, Waiting, MutexFree
  <2> QED BY <2>3, <2>5, <2>6 DEF WaitInv
<1> QED BY <1>7, <1>8, <1>9, <1>10 DEF WorkerStep

(* No worker has a dummy job to run that nobody waits for.                 *)
LEMMA NoDummy ==
  ASSUME DummyInv, ~Waiting \/ future # "pending"
  PROVE  \A u \in Tracks : /\ \A i \in 1 .. Len(mJobQueue[u]) : mJobQueue[u][i] # Dummy(1)
                           /\ ~Runs(u, Dummy(1))
  BY DEF DummyInv

LEMMA WaitFetcher ==
  ASSUME TInv, StopInv, WaitInv, FetcherStep \/ \E t \in Switchable : ResetWorker(t)
  PROVE  WaitInv'
<1>1. UNCHANGED <<mStopped, worker, currentJob, controller>>
  BY DEF FetcherStep, FetchInit, FetchInitDone, FetchSegment, SubmitEos, FetcherExit, FetcherEnds,
       WaitForCompletion, CompletionSubmit, CompletionReturns, NextPeriod, ResetReturns,
       SwitchTrack, ResetWorker, workerVars, stopVars
<1>2. mJobQueue \in [Tracks -> Seq(Job)] /\ todo \in Seq(Tracks)
  BY DEF TInv, TypeOK
<1>3. todo # <<>> => Head(todo) \in Tracks
  BY <1>2
<1>4. ~Waiting \/ future # "pending"
  BY DEF FetcherStep, FetchInit, FetchInitDone, FetchSegment, SubmitEos, FetcherExit, FetcherEnds,
       WaitForCompletion, CompletionSubmit, CompletionReturns, NextPeriod, ResetReturns,
       SwitchTrack, ResetWorker, Waiting
<1>5. \A u \in Tracks : /\ \A i \in 1 .. Len(mJobQueue[u]) : mJobQueue[u][i] # Dummy(1)
                        /\ ~Runs(u, Dummy(1))
  BY <1>4, NoDummy DEF WaitInv
<1>6. \A u \in Tracks : ~Runs(u, Dummy(1))'
  BY <1>1, <1>5 DEF Runs, Dummy
<1>7. CASE FetchInit \/ \E t \in Tracks : FetchSegment(t) \/ SubmitEos(t)
  <2>1. /\ fetcher \in {"init", "loop"} /\ fetcher' \in {"initDone", "loop"} /\ UNCHANGED future
    BY <1>7 DEF FetchInit, FetchSegment, SubmitEos
  <2>2. PICK t \in Tracks, job \in Job, b \in BOOLEAN : SubmitJob(t, job, b) /\ job.kind # "dummy"
    <3>1. /\ InitJob \in Job /\ EosJob \in Job /\ InitJob.kind = "init" /\ EosJob.kind = "eos"
          /\ \A n \in Nat : Segment(n) \in Job /\ Segment(n).kind = "segment"
      BY NumberFacts DEF InitJob, EosJob, Segment, Job
    <3>2. CASE FetchInit
      <4>1. Head(todo) \in Tracks /\ profileChanged[Head(todo)] \in BOOLEAN
        BY <1>3, <3>2 DEF FetchInit, TInv, TypeOK
      <4> QED BY <3>1, <3>2, <4>1 DEF FetchInit
    <3>3. ASSUME NEW u \in Tracks, FetchSegment(u) \/ SubmitEos(u)
          PROVE  \E t \in Tracks, job \in Job, b \in BOOLEAN : SubmitJob(t, job, b) /\ job.kind # "dummy"
      <4>1. nextSegment[u] \in Nat
        BY NumberFacts
      <4> QED BY <3>1, <3>3, <4>1 DEF FetchSegment, SubmitEos
    <3> QED BY <1>7, <3>2, <3>3
  <2>3. Dummy(1).kind = "dummy" /\ Dummy(1)' = Dummy(1)
    BY DEF Dummy
  <2>4. \A u \in Tracks : \A i \in 1 .. Len(mJobQueue'[u]) : mJobQueue'[u][i] # Dummy(1)
    <3> SUFFICES ASSUME NEW u \in Tracks, NEW i \in 1 .. Len(mJobQueue'[u])
                 PROVE  mJobQueue'[u][i] # Dummy(1)
      OBVIOUS
    <3>1. CASE mJobQueue'[u] = mJobQueue[u]
      BY <1>5, <3>1
    <3>2. CASE mJobQueue'[u] # mJobQueue[u]
      <4>1. mJobQueue'[u] = Pushed(mJobQueue[u], job, b) /\ mJobQueue[u] \in Seq(Job)
        BY <1>2, <2>2, <3>2 DEF SubmitJob
      <4>2. mJobQueue'[u][i] = job \/ \E k \in 1 .. Len(mJobQueue[u]) : mJobQueue'[u][i] = mJobQueue[u][k]
        <5>1. CASE b
          <6>1. mJobQueue'[u] = <<job>> \o mJobQueue[u]
            BY <4>1, <5>1 DEF Pushed
          <6>2. /\ Len(mJobQueue'[u]) = Len(mJobQueue[u]) + 1 /\ mJobQueue'[u][1] = job
                /\ \A k \in 1 .. Len(mJobQueue[u]) + 1 : k # 1 =>
                     k - 1 \in 1 .. Len(mJobQueue[u]) /\ mJobQueue'[u][k] = mJobQueue[u][k - 1]
            BY <2>2, <4>1, <6>1, ConsProperties
          <6> QED BY <6>2
        <5>2. CASE ~b
          <6>1. mJobQueue'[u] = Append(mJobQueue[u], job)
            BY <4>1, <5>2 DEF Pushed
          <6> QED BY <4>1, <6>1
        <5> QED BY <5>1, <5>2
      <4> QED BY <1>5, <2>2, <2>3, <4>2
    <3> QED BY <3>1, <3>2
  <2>5. DummyInv'
    BY <1>6, <2>3, <2>4 DEF DummyInv
  <2>6. FutureInv' /\ ReplyInv'
    BY <1>1, <2>1 DEF WaitInv, FutureInv, ReplyInv, ResetIsBarrier, Waiting
  <2> QED BY <2>5, <2>6 DEF WaitInv
<1>8. CASE \/ FetchInitDone \/ FetcherExit \/ FetcherEnds \/ WaitForCompletion
           \/ CompletionReturns \/ NextPeriod \/ SwitchTrack
  <2>1. UNCHANGED mJobQueue /\ future' = "none" /\ fetcher' \notin {"terminated", "switch"} /\ ~Waiting'
    BY <1>8 DEF FetchInitDone, FetcherExit, FetcherEnds, WaitForCompletion, CompletionReturns,
         NextPeriod, SwitchTrack, workerVars, Waiting, WaitInv, FutureInv
  <2>2. DummyInv'
    BY <1>5, <1>6, <2>1 DEF DummyInv, Dummy
  <2> QED BY <1>1, <2>1, <2>2 DEF WaitInv, FutureInv, ReplyInv, ResetIsBarrier, Waiting
<1>9. CASE ResetReturns
  <2>1. UNCHANGED <<mJobQueue, todo>> /\ future' = "none" /\ ~Waiting' /\ Waiting
    BY <1>9 DEF ResetReturns, workerVars, Waiting
  <2>2. DummyInv'
    BY <1>5, <1>6, <2>1 DEF DummyInv, Dummy
  <2>3. FutureInv'
    BY <1>1, <1>9, <2>1 DEF ResetReturns, WaitInv, FutureInv
  <2>4. todo # <<>>
    BY <1>9 DEF ResetReturns, TInv, TodoInv
  <2>5. ReplyInv'
    BY <1>1, <1>3, <1>9, <2>1, <2>4 DEF ResetReturns, WaitInv, ReplyInv, ResetIsBarrier, Waiting, Quiet, StopInv
  <2> QED BY <2>2, <2>3, <2>5 DEF WaitInv
<1>10. CASE CompletionSubmit \/ \E t \in Switchable : ResetWorker(t)
  <2>1. ~Waiting /\ future = "none" /\ fetcher' # "terminated"
    BY <1>10 DEF CompletionSubmit, ResetWorker, Waiting, WaitInv, FutureInv
  <2>2. CASE CompletionSubmit
    <3>1. PICK t \in Tracks : t = Head(todo)
      BY <1>3, <2>2 DEF CompletionSubmit
    <3>2. CASE mStopped[t]
      <4>1. UNCHANGED <<mJobQueue, fetcher, future>> /\ fetcher = "complete"
        BY <2>2, <3>1, <3>2 DEF CompletionSubmit
      <4>2. DummyInv'
        BY <1>5, <1>6, <4>1 DEF DummyInv, Dummy
      <4> QED BY <1>1, <2>1, <4>1, <4>2 DEF WaitInv, FutureInv, ReplyInv, ResetIsBarrier, Waiting
    <3>3. CASE ~mStopped[t] /\ t \notin Critical
      <4>1. /\ mJobQueue' = [mJobQueue EXCEPT ![t] = Append(@, Dummy(0))]
            /\ UNCHANGED <<fetcher, future>> /\ fetcher = "complete"
        BY <2>2, <3>1, <3>3 DEF CompletionSubmit, WithDummy
      <4>2. Dummy(0) # Dummy(1) /\ Dummy(0) \in Job /\ mJobQueue[t] \in Seq(Job)
        <5>1. Dummy(0).n = 0 /\ Dummy(1).n = 1 /\ Dummy(0) \in Job
          BY DEF Dummy, Job
        <5> QED BY <1>2, <5>1
      <4>3. \A i \in 1 .. Len(mJobQueue'[t]) : mJobQueue'[t][i] # Dummy(1)
        <5> HIDE DEF Dummy
        <5> QED BY <1>2, <1>5, <4>1, <4>2
      <4>4. DummyInv'
        BY <1>2, <1>5, <1>6, <4>1, <4>3 DEF DummyInv, Dummy
      <4> QED BY <1>1, <2>1, <4>1, <4>4 DEF WaitInv, FutureInv, ReplyInv, ResetIsBarrier, Waiting
    <3>4. CASE ~mStopped[t] /\ t \in Critical
      <4>1. /\ mJobQueue' = [mJobQueue EXCEPT ![t] = Append(@, Dummy(1))]
            /\ fetcher' = "completeWait" /\ future' = "pending" /\ UNCHANGED todo
        BY <2>2, <3>1, <3>4 DEF CompletionSubmit, WithDummy
      <4>2. \A i \in 1 .. Len(mJobQueue'[t]) : mJobQueue'[t][i] = Dummy(1) => i = Len(mJobQueue'[t])
        <5>1. Dummy(1) \in Job
          BY DEF Dummy, Job
        <5>2. mJobQueue'[t] = Append(mJobQueue[t], Dummy(1)) /\ mJobQueue[t] \in Seq(Job)
          BY <1>2, <4>1
        <5> QED BY <1>5, <5>1, <5>2
      <4>3. DummyInv'
        BY <1>2, <1>5, <1>6, <3>1, <4>1, <4>2 DEF DummyInv, Dummy, Waiting
      <4> QED BY <1>1, <2>1, <4>1, <4>3 DEF WaitInv, FutureInv, ReplyInv, ResetIsBarrier, Waiting
    <3> QED BY <3>2, <3>3, <3>4
  <2>3. ASSUME NEW t \in Switchable, ResetWorker(t) PROVE WaitInv'
    <3>0. t \in Tracks /\ todo' = <<t>> /\ Head(todo') = t
      BY <2>3, TrackFacts DEF ResetWorker
    <3>1. CASE mStopped[t]
      <4>1. mJobQueue' = [mJobQueue EXCEPT ![t] = <<>>] /\ fetcher' = "switch" /\ UNCHANGED future
        BY <2>3, <3>1 DEF ResetWorker
      <4>2. mJobQueue'[t] = <<>> /\ \A u \in Tracks : u # t => mJobQueue'[u] = mJobQueue[u]
        BY <1>2, <3>0, <4>1
      <4>3. Len(mJobQueue'[t]) = 0
        BY <4>2
      <4>4. DummyInv'
        <5> SUFFICES ASSUME NEW u \in Tracks
                     PROVE  \A i \in 1 .. Len(mJobQueue'[u]) : mJobQueue'[u][i] # Dummy(1)
          BY <1>6 DEF DummyInv, Dummy
        <5>1. CASE u = t
          BY <4>3, <5>1
        <5>2. CASE u # t
          BY <1>5, <4>2, <5>2
        <5> QED BY <5>1, <5>2
      <4> QED BY <1>1, <2>1, <3>0, <3>1, <4>1, <4>4 DEF WaitInv, FutureInv, ReplyInv, ResetIsBarrier, Waiting
    <3>2. CASE ~mStopped[t]
      <4>1. mJobQueue' = [mJobQueue EXCEPT ![t] = Append(<<>>, Dummy(1))] /\ fetcher' = "resetWait" /\ future' = "pending"
        BY <2>3, <3>2 DEF ResetWorker, WithDummy
      <4>2. mJobQueue'[t] = <<Dummy(1)>> /\ \A u \in Tracks : u # t => mJobQueue'[u] = mJobQueue[u]
        BY <1>2, <3>0, <4>1
      <4>3. Len(mJobQueue'[t]) = 1
        BY <4>2
      <4>4. DummyInv'
        BY <1>5, <1>6, <3>0, <4>1, <4>2, <4>3 DEF DummyInv, Dummy, Waiting
      <4>5. ReplyInv'
        BY <3>0, <4>1, <4>2 DEF ReplyInv, ResetIsBarrier, Dummy
      <4> QED BY <1>1, <2>1, <4>1, <4>4, <4>5 DEF WaitInv, FutureInv, Waiting
    <3> QED BY <3>1, <3>2
  <2> QED BY <1>10, <2>2, <2>3
<1> QED BY <1>7, <1>8, <1>9, <1>10 DEF FetcherStep

LEMMA WaitStop ==
  ASSUME TInv, StopInv, WaitInv, StopWorkers \/ StopStep \/ InitializeWorkers
  PROVE  WaitInv'
<1>1. stopping \in Seq(Tracks) /\ mJobQueue \in [Tracks -> Seq(Job)] /\ todo \in Seq(Tracks)
      /\ mStopped \in [Tracks -> BOOLEAN]
  BY DEF TInv, TypeOK
<1>2. fetcher \in {"completeWait", "resetWait", "switch"} => Head(todo) \in Tracks
  BY <1>1, MembersOf DEF TInv, TodoInv
<1>3. CASE StopWorkers \/ CopyWorkers \/ Pause \/ StopWorker \/ RemoveWorkers
  <2>1. /\ UNCHANGED <<mJobQueue, worker, currentJob, fetcher, todo, future>>
        /\ controller' # "playing" /\ \A u \in Tracks : mStopped[u] => mStopped'[u]
    BY <1>1, <1>3 DEF StopWorkers, CopyWorkers, Pause, StopWorker, RemoveWorkers, workerVars, fetcherVars
  <2>2. FutureInv'
    BY <2>1 DEF WaitInv, FutureInv, Waiting
  <2>3. DummyInv'
    BY <2>1 DEF WaitInv, DummyInv, Waiting, Runs, Dummy
  <2>4. ReplyInv'
    BY <1>2, <2>1 DEF WaitInv, ReplyInv, ResetIsBarrier, Waiting, Quiet, Runs, Dummy
  <2> QED BY <2>2, <2>3, <2>4 DEF WaitInv
<1>4. CASE JoinWorker
  <2>1. PICK t \in Tracks : t = Head(stopping)
    BY <1>1, <1>4, MembersOf DEF JoinWorker, TInv, TodoInv
  <2>2. /\ worker[t] = "exited" /\ UNCHANGED <<worker, currentJob, fetcher, todo, mStopped>>
        /\ future' = Cancelled(mJobQueue[t], future)
        /\ mJobQueue' = [mJobQueue EXCEPT ![t] = <<>>] /\ controller' # "playing"
    BY <1>4, <2>1 DEF JoinWorker, fetcherVars
  <2>3. mJobQueue'[t] = <<>> /\ Len(mJobQueue'[t]) = 0 /\ \A u \in Tracks : u # t => mJobQueue'[u] = mJobQueue[u]
    <3>1. mJobQueue'[t] = <<>> /\ \A u \in Tracks : u # t => mJobQueue'[u] = mJobQueue[u]
      BY <1>1, <2>2
    <3> QED BY <3>1
  <2>4. Dummy(1) \in ToSet(mJobQueue[t]) <=> \E i \in 1 .. Len(mJobQueue[t]) : mJobQueue[t][i] = Dummy(1)
    BY <1>1, MembersOf
  <2>5. CASE \E i \in 1 .. Len(mJobQueue[t]) : mJobQueue[t][i] = Dummy(1)
    <3>1. future' = "cancelled"
      BY <2>2, <2>4, <2>5 DEF Cancelled
    <3>2. Waiting /\ t = Head(todo)
      BY <2>5 DEF WaitInv, DummyInv
    <3>3. \A u \in Tracks : ~Runs(u, Dummy(1))
      BY <2>2, <3>2 DEF WaitInv, DummyInv, Runs
    <3>4. \A u \in Tracks : \A i \in 1 .. Len(mJobQueue'[u]) : mJobQueue'[u][i] # Dummy(1)
      <4> SUFFICES ASSUME NEW u \in Tracks PROVE \A i \in 1 .. Len(mJobQueue'[u]) : mJobQueue'[u][i] # Dummy(1)
        OBVIOUS
      <4>1. CASE u = t
        BY <2>3, <4>1
      <4>2. CASE u # t
        BY <2>3, <3>2, <4>2 DEF WaitInv, DummyInv
      <4> QED BY <4>1, <4>2
    <3>5. DummyInv'
      BY <2>2, <3>3, <3>4 DEF DummyInv, Runs, Dummy
    <3> QED BY <2>2, <3>1, <3>2, <3>5 DEF WaitInv, FutureInv, ReplyInv, ResetIsBarrier, Waiting
  <2>6. CASE ~ \E i \in 1 .. Len(mJobQueue[t]) : mJobQueue[t][i] = Dummy(1)
    <3>1. UNCHANGED future
      BY <2>2, <2>4, <2>6 DEF Cancelled
    <3>2. DummyInv'
      <4> SUFFICES ASSUME NEW u \in Tracks
                   PROVE  /\ \A i \in 1 .. Len(mJobQueue'[u]) : mJobQueue'[u][i] = Dummy(1) =>
                               Waiting /\ u = Head(todo) /\ future = "pending" /\ i = Len(mJobQueue'[u])
                          /\ Runs(u, Dummy(1)) =>
                               Waiting /\ u = Head(todo) /\ future = "pending" /\ mJobQueue'[u] = <<>>
        BY <2>2, <3>1 DEF DummyInv, Waiting, Runs, Dummy
      <4>1. CASE u = t
        BY <2>2, <2>3, <4>1 DEF Runs
      <4>2. CASE u # t
        BY <2>3, <4>2 DEF WaitInv, DummyInv
      <4> QED BY <4>1, <4>2
    <3>3. fetcher = "resetWait" /\ future = "pending" => Head(todo) # t
      <4> SUFFICES ASSUME fetcher = "resetWait", future = "pending", Head(todo) = t PROVE FALSE
        OBVIOUS
      <4>1. mJobQueue[t] = <<Dummy(1)>> \/ Runs(t, Dummy(1))
        BY DEF WaitInv, ReplyInv
      <4>2. CASE mJobQueue[t] = <<Dummy(1)>>
        <5>1. 1 \in 1 .. Len(mJobQueue[t]) /\ mJobQueue[t][1] = Dummy(1)
          BY <4>2
        <5> QED BY <2>6, <5>1
      <4> QED BY <2>2, <4>1, <4>2 DEF Runs
    <3>4. ReplyInv'
      BY <1>2, <2>2, <2>3, <3>1, <3>3 DEF WaitInv, ReplyInv, ResetIsBarrier, Waiting, Quiet, Runs, Dummy
    <3>5. FutureInv'
      BY <2>2, <3>1 DEF WaitInv, FutureInv, Waiting
    <3> QED BY <3>2, <3>4, <3>5 DEF WaitInv
  <2> QED BY <2>5, <2>6
<1>5. CASE InitializeWorkers
  <2>1. fetcher = "exited" /\ future = "none"
    BY <1>5 DEF InitializeWorkers, StopInv, WaitInv, FutureInv, Waiting
  <2>2. /\ future' = "none" /\ fetcher' = "init"
        /\ \A u \in Tracks : worker'[u] = "idle" /\ mJobQueue'[u] = <<>>
    BY <1>5, <2>1 DEF InitializeWorkers
  <2>3. \A u \in Tracks : Len(mJobQueue'[u]) = 0
    BY <2>2
  <2>4. DummyInv'
    BY <2>2, <2>3 DEF DummyInv, Runs
  <2> QED BY <2>2, <2>4 DEF WaitInv, FutureInv, ReplyInv, ResetIsBarrier, Waiting
<1> QED BY <1>3, <1>4, <1>5 DEF StopStep

LEMMA WaitInit == Init => WaitInv
<1> SUFFICES ASSUME Init PROVE WaitInv
  OBVIOUS
<1>1. \A u \in Tracks : worker[u] = "idle" /\ mJobQueue[u] = <<>>
  BY DEF Init
<1>2. DummyInv
  BY <1>1 DEF DummyInv, Runs
<1> QED BY <1>2 DEF Init, WaitInv, FutureInv, ReplyInv, ResetIsBarrier, Waiting

LEMMA WaitStep == TInv /\ StopInv /\ WaitInv /\ [Next]_vars => WaitInv'
<1> SUFFICES ASSUME TInv, StopInv, WaitInv, [Next]_vars PROVE WaitInv'
  OBVIOUS
<1>1. CASE Next
  BY <1>1, WaitWorker, WaitFetcher, WaitStop DEF Next
<1>2. CASE UNCHANGED vars
  BY <1>2 DEF vars, workerVars, fetcherVars, stopVars, WaitInv, FutureInv, DummyInv, ReplyInv,
       ResetIsBarrier, Waiting, Quiet, Runs, Dummy
<1> QED BY <1>1, <1>2

(* When ResetWorker has returned, the worker it reset runs nothing and has *)
(* nothing queued: its dummy job was the last one, and until the fetcher   *)
(* goes on nobody submits another.                                         *)
THEOREM ResetIsABarrier == Spec => []ResetIsBarrier
<1>1. Spec => [](TInv /\ StopInv /\ WaitInv)
  BY TypeInit, TypeStep, StopInit, StopInvStep, WaitInit, WaitStep, PTL DEF Spec
<1>2. WaitInv => ResetIsBarrier
  BY DEF WaitInv, ReplyInv
<1> QED BY <1>1, <1>2, PTL

------------------------------------------------------------------------------
(* Nobody waits for a job that will not be run or cancelled.               *)
Held(t) == Queues(t, Dummy(1)) \/ Runs(t, Dummy(1))

PendingInv ==
  /\ Waiting => future # "none"
  /\ future = "pending" => Held(Head(todo))

LEMMA PendingWorker ==
  ASSUME TInv, WaitInv, PendingInv, NEW t \in Tracks, WorkerStep(t)
  PROVE  PendingInv'
<1>1. UNCHANGED <<fetcher, todo>> /\ (future' = future \/ future' = "value")
  BY DEF WorkerStep, TakeJob, WorkerExit, RunControlJob, DownloadSegment,
       DownloadSegmentAndChangeProfile, DownloadInit, DownloadInitFails, RampDown,
       RescheduleActiveJob, SubmitInitFromJob, fetcherVars
<1>2. (Waiting => future # "none")'
  BY <1>1 DEF PendingInv, Waiting
<1>3. ASSUME future' = "pending" PROVE Held(Head(todo))'
  <2>1. future = "pending" /\ Waiting
    BY <1>1, <1>3 DEF WaitInv, FutureInv
  <2>2. PICK w \in Tracks : w = Head(todo) /\ Held(w)
    <3>1. todo \in Seq(Tracks) /\ todo # <<>>
      BY <2>1 DEF TInv, TypeOK, TodoInv, Waiting
    <3> QED BY <2>1, <3>1 DEF PendingInv
  <2>3. Head(todo)' = w /\ Dummy(1)' = Dummy(1) /\ Dummy(1) \in Job /\ Dummy(1).kind = "dummy"
    BY <1>1, <2>2 DEF Dummy, Job
  <2>4. /\ mJobQueue \in [Tracks -> Seq(Job)] /\ currentJob \in [Tracks -> Job \cup {NoJob}]
        /\ worker \in [Tracks -> {"idle", "running", "reschedule", "callback", "exited"}]
        /\ worker[t] \in {"reschedule", "callback"} => currentJob[t] \in Job
    BY DEF TInv, TypeOK, JobInv, GoodJob
  <2>5. CASE w # t
    <3>1. UNCHANGED <<mJobQueue[w], worker[w], currentJob[w]>>
      BY <2>4, <2>5 DEF WorkerStep, TakeJob, WorkerExit, RunControlJob, DownloadSegment,
           DownloadSegmentAndChangeProfile, DownloadInit, DownloadInitFails, RampDown,
           RescheduleActiveJob, SubmitInitFromJob, ReturnFromRun, SubmitJob
    <3> QED BY <2>2, <2>3, <3>1 DEF Held, Queues, Runs
  <2>6. CASE w = t /\ TakeJob(t)
    <3>1. PICK q \in Seq(Job) : q = mJobQueue[t] /\ q # <<>>
      BY <2>4, <2>6 DEF TakeJob
    <3>2. /\ worker[t] = "idle" /\ worker'[t] = "running"
          /\ currentJob'[t] = Head(q) /\ mJobQueue'[t] = Tail(q)
      BY <2>4, <2>6, <3>1 DEF TakeJob
    <3>3. PICK i \in 1 .. Len(q) : q[i] = Dummy(1)
      BY <2>2, <2>6, <3>1, <3>2 DEF Held, Queues, Runs
    <3>4. CASE i = 1
      <4>1. Head(q) = Dummy(1)
        BY <3>1, <3>3, <3>4, TailProperties
      <4> QED BY <2>3, <2>6, <3>2, <4>1 DEF Held, Runs
    <3>5. CASE i # 1
      <4>1. i - 1 \in 1 .. Len(Tail(q)) /\ Tail(q)[i - 1] = Dummy(1)
        BY <3>1, <3>3, <3>5, TailProperties
      <4> QED BY <2>3, <2>6, <3>2, <4>1 DEF Held, Queues
    <3> QED BY <3>4, <3>5
  <2>7. CASE w = t /\ (RescheduleActiveJob(t) \/ SubmitInitFromJob(t))
    <3>1. PICK q \in Seq(Job) : q = mJobQueue[t]
      BY <2>4
    <3>2. PICK i \in 1 .. Len(q) : q[i] = Dummy(1)
      BY <2>2, <2>7, <3>1 DEF Held, Queues, Runs, RescheduleActiveJob, SubmitInitFromJob
    <3>3. PICK j \in Job : mJobQueue'[t] = <<j>> \o q \/ mJobQueue'[t] = q
      <4>1. CASE RescheduleActiveJob(t)
        <5>1. currentJob[t] \in Job
          BY <2>4, <4>1 DEF RescheduleActiveJob
        <5> QED BY <2>4, <3>1, <4>1, <5>1 DEF RescheduleActiveJob, Rescheduled
      <4>2. CASE SubmitInitFromJob(t)
        <5>1. InitJob \in Job
          BY NumberFacts, JobFacts
        <5> QED BY <2>4, <3>1, <4>2, <5>1 DEF SubmitInitFromJob, SubmitJob, Pushed
      <4> QED BY <2>7, <4>1, <4>2
    <3>4. \E k \in 1 .. Len(mJobQueue'[t]) : mJobQueue'[t][k] = Dummy(1)
      <4>1. CASE mJobQueue'[t] = q
        BY <3>2, <4>1
      <4>2. CASE mJobQueue'[t] = <<j>> \o q
        <5>1. i + 1 \in 1 .. Len(mJobQueue'[t]) /\ mJobQueue'[t][i + 1] = Dummy(1)
          BY <3>2, <4>2, ConsProperties
        <5> QED BY <5>1
      <4> QED BY <3>3, <4>1, <4>2
    <3> QED BY <2>3, <2>7, <3>4 DEF Held, Queues
  <2>8. CASE w = t /\ RunControlJob(t)
    <3>1. currentJob[t] # Dummy(1)
      BY <1>3, <2>8 DEF RunControlJob
    <3>2. UNCHANGED mJobQueue /\ ~Runs(t, Dummy(1))
      BY <2>8, <3>1 DEF RunControlJob, Runs
    <3> QED BY <2>2, <2>3, <2>8, <3>2 DEF Held, Queues
  <2>9. CASE w = t /\ (\/ WorkerExit(t) \/ DownloadSegment(t) \/ DownloadSegmentAndChangeProfile(t)
                       \/ DownloadInit(t) \/ DownloadInitFails(t) \/ RampDown(t))
    <3>1. UNCHANGED mJobQueue /\ ~Runs(t, Dummy(1))
      BY <2>3, <2>9 DEF WorkerExit, DownloadSegment, DownloadSegmentAndChangeProfile, DownloadInit,
           DownloadInitFails, RampDown, Running, Runs
    <3> QED BY <2>2, <2>3, <2>9, <3>1 DEF Held, Queues
  <2> QED BY <2>5, <2>6, <2>7, <2>8, <2>9 DEF WorkerStep
<1> QED BY <1>2, <1>3 DEF PendingInv

LEMMA PendingFetcher ==
  ASSUME TInv, WaitInv, PendingInv, FetcherStep \/ \E t \in Switchable : ResetWorker(t)
  PROVE  PendingInv'
<1>1. CASE FetchInit \/ (\E t \in Tracks : FetchSegment(t) \/ SubmitEos(t)) \/ FetchInitDone
           \/ FetcherExit \/ FetcherEnds \/ WaitForCompletion \/ NextPeriod \/ SwitchTrack
  <2>1. ~Waiting /\ UNCHANGED future /\ ~Waiting'
    BY <1>1 DEF FetchInit, FetchInitDone, FetchSegment, SubmitEos, FetcherExit, FetcherEnds,
         WaitForCompletion, NextPeriod, SwitchTrack, Waiting
  <2> QED BY <2>1 DEF PendingInv, WaitInv, FutureInv
<1>2. CASE CompletionReturns \/ ResetReturns
  BY <1>2 DEF CompletionReturns, ResetReturns, PendingInv, Waiting
<1>3. CASE CompletionSubmit
  <2>0. future = "none" /\ ~Waiting
    BY <1>3 DEF CompletionSubmit, WaitInv, FutureInv, Waiting
  <2>1. PICK t \in Tracks : t = Head(todo)
    <3>1. todo \in Seq(Tracks) /\ todo # <<>>
      BY <1>3 DEF CompletionSubmit, TInv, TypeOK
    <3> QED BY <3>1
  <2>2. CASE mStopped[t] \/ t \notin Critical
    <3>1. UNCHANGED <<fetcher, future>>
      BY <1>3, <2>1, <2>2 DEF CompletionSubmit
    <3> QED BY <2>0, <3>1 DEF PendingInv, Waiting
  <2>3. CASE ~mStopped[t] /\ t \in Critical
    <3>1. /\ mJobQueue' = [mJobQueue EXCEPT ![t] = Append(@, Dummy(1))]
          /\ future' = "pending" /\ todo' = todo
      BY <1>3, <2>1, <2>3 DEF CompletionSubmit, WithDummy
    <3>2. PICK q \in Seq(Job) : q = mJobQueue[t]
      BY DEF TInv, TypeOK
    <3>3. mJobQueue'[t] = Append(q, Dummy(1)) /\ Dummy(1) \in Job
      BY <3>1, <3>2 DEF TInv, TypeOK, Dummy, Job
    <3>4. Len(q) + 1 \in 1 .. Len(mJobQueue'[t]) /\ mJobQueue'[t][Len(q) + 1] = Dummy(1)
      <4> HIDE DEF Dummy
      <4> QED BY <3>3
    <3>5. Dummy(1)' = Dummy(1)
      BY DEF Dummy
    <3> QED BY <2>1, <3>1, <3>4, <3>5 DEF PendingInv, Held, Queues
  <2> QED BY <2>2, <2>3
<1>4. ASSUME NEW t \in Switchable, ResetWorker(t) PROVE PendingInv'
  <2>0. /\ t \in Tracks /\ Head(todo') = t /\ future = "none" /\ Dummy(1)' = Dummy(1)
        /\ mJobQueue \in [Tracks -> Seq(Job)]
    BY <1>4, TrackFacts DEF ResetWorker, WaitInv, FutureInv, Waiting, Dummy, TInv, TypeOK
  <2>1. CASE mStopped[t]
    <3>1. fetcher' = "switch" /\ UNCHANGED future
      BY <1>4, <2>1 DEF ResetWorker
    <3> QED BY <2>0, <3>1 DEF PendingInv, Waiting
  <2>2. CASE ~mStopped[t]
    <3>1. future' = "pending" /\ mJobQueue'[t] = Append(<<>>, Dummy(1))
      BY <1>4, <2>0, <2>2 DEF ResetWorker, WithDummy
    <3>2. 1 \in 1 .. Len(mJobQueue'[t]) /\ mJobQueue'[t][1] = Dummy(1)
      BY <3>1
    <3> QED BY <2>0, <3>1, <3>2 DEF PendingInv, Held, Queues
  <2> QED BY <2>1, <2>2
<1> QED BY <1>1, <1>2, <1>3, <1>4 DEF FetcherStep

LEMMA PendingStop ==
  ASSUME TInv, StopInv, WaitInv, PendingInv, StopWorkers \/ StopStep \/ InitializeWorkers
  PROVE  PendingInv'
<1>1. CASE StopWorkers \/ CopyWorkers \/ Pause \/ StopWorker \/ RemoveWorkers
  <2>1. UNCHANGED <<mJobQueue, worker, currentJob, fetcher, todo, future>>
    BY <1>1 DEF StopWorkers, CopyWorkers, Pause, StopWorker, RemoveWorkers, workerVars, fetcherVars
  <2> QED BY <2>1 DEF PendingInv, Waiting, Held, Queues, Runs, Dummy
<1>2. CASE JoinWorker
  <2>1. PICK t \in Tracks : t = Head(stopping)
    <3>1. stopping \in Seq(Tracks) /\ stopping # <<>>
      BY <1>2 DEF JoinWorker, TInv, TypeOK, TodoInv
    <3> QED BY <3>1
  <2>2. /\ worker[t] = "exited" /\ UNCHANGED <<worker, currentJob, fetcher, todo>>
        /\ future' = Cancelled(mJobQueue[t], future)
        /\ mJobQueue' = [mJobQueue EXCEPT ![t] = <<>>]
    BY <1>2, <2>1 DEF JoinWorker, fetcherVars
  <2>3. (Waiting => future # "none")'
    BY <2>2 DEF PendingInv, Waiting, Cancelled
  <2>4. ASSUME future' = "pending" PROVE Held(Head(todo))'
    <3>1. future = "pending" /\ Dummy(1) \notin ToSet(mJobQueue[t])
      BY <2>2, <2>4 DEF Cancelled
    <3>2. ~Queues(t, Dummy(1)) /\ ~Runs(t, Dummy(1))
      BY <2>2, <3>1, MembersOf DEF Queues, Runs, TInv, TypeOK
    <3>3. Held(Head(todo)) /\ Head(todo) # t
      BY <3>1, <3>2 DEF PendingInv, Held
    <3>4. Waiting /\ Head(todo) \in Tracks
      <4>1. todo \in Seq(Tracks) /\ todo # <<>> /\ Waiting
        BY <3>1 DEF TInv, TypeOK, TodoInv, WaitInv, FutureInv, Waiting
      <4> QED BY <4>1
    <3>5. mJobQueue'[Head(todo)] = mJobQueue[Head(todo)]
      BY <2>2, <3>3, <3>4 DEF TInv, TypeOK
    <3> QED BY <2>2, <3>3, <3>5 DEF Held, Queues, Runs, Dummy
  <2> QED BY <2>3, <2>4 DEF PendingInv
<1>3. CASE InitializeWorkers
  <2>1. future' = "none" /\ fetcher' = "init"
    BY <1>3 DEF InitializeWorkers, StopInv, WaitInv, FutureInv, Waiting
  <2> QED BY <2>1 DEF PendingInv, Waiting
<1> QED BY <1>1, <1>2, <1>3 DEF StopStep

(* The future the fetcher waits for in ResetWorker and in                  *)
(* WaitForCompletionWithTimeout has been given its result, or belongs to a *)
(* job that its worker runs or has queued; and it has its result when      *)
(* StopWorkers has returned.                                               *)
FutureIsAnswered ==
  /\ Waiting =>
       \/ future \in {"value", "cancelled"}
       \/ future = "pending" /\ Held(Head(todo))
  /\ controller \in {"joinFetcher", "removed"} => future # "pending"

(* No promise is lost: neither by a reset, which clears the queue, nor by  *)
(* jobs that overtake the dummy or are pushed back, nor by Stop, which     *)
(* ends the workers one after the other while the fetcher goes on and may  *)
(* submit a dummy to one of them.  The safety part of StopReturns.         *)
THEOREM NoPromiseIsLost == Spec => []FutureIsAnswered
<1>1. Init => PendingInv
  BY DEF Init, PendingInv, Waiting
<1>2. TInv /\ StopInv /\ WaitInv /\ PendingInv /\ [Next]_vars => PendingInv'
  <2> SUFFICES ASSUME TInv, StopInv, WaitInv, PendingInv, [Next]_vars PROVE PendingInv'
    OBVIOUS
  <2>1. CASE Next
    BY <2>1, PendingWorker, PendingFetcher, PendingStop DEF Next
  <2>2. CASE UNCHANGED vars
    BY <2>2 DEF vars, workerVars, fetcherVars, PendingInv, Waiting, Held, Queues, Runs, Dummy
  <2> QED BY <2>1, <2>2
<1>3. Spec => [](TInv /\ StopInv /\ WaitInv)
  BY TypeInit, TypeStep, StopInit, StopInvStep, WaitInit, WaitStep, PTL DEF Spec
<1>4. TInv /\ StopInv /\ WaitInv /\ PendingInv => FutureIsAnswered
  <2> SUFFICES ASSUME TInv, StopInv, WaitInv, PendingInv PROVE FutureIsAnswered
    OBVIOUS
  <2>1. future \in {"none", "pending", "value", "cancelled"}
    BY DEF TInv, TypeOK
  <2>2. ASSUME controller \in {"joinFetcher", "removed"}, future = "pending" PROVE FALSE
    <3>1. stopping = <<>> /\ stopping \in Seq(Tracks)
      BY <2>2 DEF StopInv, TInv, TypeOK
    <3>2. \A u \in Tracks : worker[u] = "exited" /\ mJobQueue[u] = <<>>
      BY <2>2, <3>1, MembersOf DEF StopInv
    <3>3. Head(todo) \in Tracks /\ Held(Head(todo))
      <4>1. todo \in Seq(Tracks) /\ todo # <<>>
        BY <2>2 DEF TInv, TypeOK, TodoInv, WaitInv, FutureInv, Waiting
      <4> QED BY <2>2, <4>1 DEF PendingInv
    <3>4. Len(mJobQueue[Head(todo)]) = 0
      BY <3>2, <3>3
    <3> QED BY <3>2, <3>3, <3>4 DEF Held, Queues, Runs
  <2> QED BY <2>1, <2>2 DEF PendingInv, FutureIsAnswered
<1> QED BY <1>1, <1>2, <1>3, <1>4, PTL DEF Spec

------------------------------------------------------------------------------
(* Jobs that join or leave the ones a worker has before it.                *)
Places(s, r, k) ==
  /\ \A i \in 1 .. Len(r) : i # k =>
       \E m \in 1 .. Len(s) : r[i] = s[m] /\ i = (IF m < k THEN m ELSE m + 1)
  /\ \A m \in 1 .. Len(s) : \E i \in 1 .. Len(r) :
       r[i] = s[m] /\ i = (IF m < k THEN m ELSE m + 1)
  /\ k \in 1 .. Len(r) /\ k \in Nat /\ k >= 1 /\ Len(s) \in Nat /\ Len(r) \in Nat

LEMMA InsertedPlaces ==
  ASSUME NEW s, NEW r, NEW k, NEW job, Inserted(s, r, k, job)
  PROVE  Places(s, r, k)
<1>1. /\ Len(s) \in Nat /\ Len(r) = Len(s) + 1 /\ k \in 1 .. Len(s) + 1
      /\ \A i \in 1 .. Len(s) : r[IF i < k THEN i ELSE i + 1] = s[i]
  BY DEF Inserted
<1>2. ASSUME NEW i \in 1 .. Len(r), i # k
      PROVE  \E m \in 1 .. Len(s) : r[i] = s[m] /\ i = (IF m < k THEN m ELSE m + 1)
  <2>1. CASE i < k
    <3>1. i \in 1 .. Len(s) /\ i = (IF i < k THEN i ELSE i + 1)
      BY <1>1, <2>1
    <3> QED BY <1>1, <3>1
  <2>2. CASE ~(i < k)
    <3>1. i - 1 \in 1 .. Len(s) /\ i = (IF i - 1 < k THEN i - 1 ELSE (i - 1) + 1)
      BY <1>1, <1>2, <2>2
    <3> QED BY <1>1, <3>1
  <2> QED BY <2>1, <2>2
<1>3. ASSUME NEW m \in 1 .. Len(s)
      PROVE  \E i \in 1 .. Len(r) : r[i] = s[m] /\ i = (IF m < k THEN m ELSE m + 1)
  <2>1. (IF m < k THEN m ELSE m + 1) \in 1 .. Len(r)
    BY <1>1
  <2> QED BY <1>1, <2>1
<1>4. k \in 1 .. Len(r) /\ k \in Nat /\ k >= 1 /\ Len(s) \in Nat /\ Len(r) \in Nat
  BY <1>1
<1> QED BY <1>2, <1>3, <1>4 DEF Places

(* A job that is no segment changes nothing for the segments.              *)
LEMMA InsertOther ==
  ASSUME NEW s, NEW r, NEW k, NEW job, Inserted(s, r, k, job), ~IsSegment(job),
         NEW lo \in Int, NEW hi \in Int
  PROVE  /\ Run(s, lo, hi) <=> Run(r, lo, hi)
         /\ NoSegment(s) <=> NoSegment(r)
<1>0. Places(s, r, k)
  BY InsertedPlaces
<1>1. r[k] = job
  BY DEF Inserted
<1>2. /\ \A i \in 1 .. Len(r) : i # k =>
           \E m \in 1 .. Len(s) : r[i] = s[m] /\ i = (IF m < k THEN m ELSE m + 1)
      /\ \A m \in 1 .. Len(s) : \E i \in 1 .. Len(r) :
           r[i] = s[m] /\ i = (IF m < k THEN m ELSE m + 1)
      /\ k \in Nat /\ Len(s) \in Nat
  BY <1>0 DEF Places
<1>3. ASSUME Run(s, lo, hi) PROVE Run(r, lo, hi)
  <2>1. \A i \in 1 .. Len(r) : IsSegment(r[i]) => r[i].n \in lo .. hi
    BY <1>1, <1>2, <1>3 DEF Run
  <2>2. ASSUME NEW i \in 1 .. Len(r), NEW j \in 1 .. Len(r), IsSegment(r[i]), IsSegment(r[j]), i < j
        PROVE  r[i].n < r[j].n
    <3>1. PICK m \in 1 .. Len(s) : r[i] = s[m] /\ i = (IF m < k THEN m ELSE m + 1)
      BY <1>1, <1>2, <2>2
    <3>2. PICK l \in 1 .. Len(s) : r[j] = s[l] /\ j = (IF l < k THEN l ELSE l + 1)
      BY <1>1, <1>2, <2>2
    <3>3. m < l
      BY <1>2, <2>2, <3>1, <3>2
    <3> QED BY <1>3, <2>2, <3>1, <3>2, <3>3 DEF Run
  <2>3. ASSUME NEW n \in lo .. hi PROVE \E i \in 1 .. Len(r) : IsSegment(r[i]) /\ r[i].n = n
    <3>1. PICK m \in 1 .. Len(s) : IsSegment(s[m]) /\ s[m].n = n
      BY <1>3 DEF Run
    <3>2. PICK i \in 1 .. Len(r) : r[i] = s[m]
      BY <1>2
    <3> QED BY <3>1, <3>2
  <2> QED BY <1>3, <2>1, <2>2, <2>3 DEF Run
<1>4. ASSUME Run(r, lo, hi) PROVE Run(s, lo, hi)
  <2>1. \A m \in 1 .. Len(s) : IsSegment(s[m]) => s[m].n \in lo .. hi
    BY <1>2, <1>4 DEF Run
  <2>2. ASSUME NEW m \in 1 .. Len(s), NEW l \in 1 .. Len(s), IsSegment(s[m]), IsSegment(s[l]), m < l
        PROVE  s[m].n < s[l].n
    <3>1. PICK i \in 1 .. Len(r) : r[i] = s[m] /\ i = (IF m < k THEN m ELSE m + 1)
      BY <1>2
    <3>2. PICK j \in 1 .. Len(r) : r[j] = s[l] /\ j = (IF l < k THEN l ELSE l + 1)
      BY <1>2
    <3>3. i < j
      BY <1>2, <2>2, <3>1, <3>2
    <3> QED BY <1>4, <2>2, <3>1, <3>2, <3>3 DEF Run
  <2>3. ASSUME NEW n \in lo .. hi PROVE \E m \in 1 .. Len(s) : IsSegment(s[m]) /\ s[m].n = n
    <3>1. PICK i \in 1 .. Len(r) : IsSegment(r[i]) /\ r[i].n = n
      BY <1>4 DEF Run
    <3>2. PICK m \in 1 .. Len(s) : r[i] = s[m]
      BY <1>1, <1>2, <3>1
    <3> QED BY <3>1, <3>2
  <2> QED BY <1>4, <2>1, <2>2, <2>3 DEF Run
<1>5. NoSegment(s) <=> NoSegment(r)
  BY <1>1, <1>2 DEF NoSegment
<1> QED BY <1>3, <1>4, <1>5

(* The next segment joins at the end.                                      *)
LEMMA InsertNext ==
  ASSUME NEW s, NEW r, NEW k, NEW job, Inserted(s, r, k, job), k = Len(s) + 1,
         IsSegment(job), NEW lo \in Int, NEW hi \in Int, job.n = hi + 1, Run(s, lo, hi)
  PROVE  Run(r, lo, hi + 1)
<1>0. Places(s, r, k)
  BY InsertedPlaces
<1>1. r[k] = job /\ k = Len(s) + 1 /\ Len(r) = Len(s) + 1
  BY DEF Inserted
<1>2. /\ \A i \in 1 .. Len(r) : i # k =>
           \E m \in 1 .. Len(s) : r[i] = s[m] /\ i = (IF m < k THEN m ELSE m + 1)
      /\ \A m \in 1 .. Len(s) : \E i \in 1 .. Len(r) :
           r[i] = s[m] /\ i = (IF m < k THEN m ELSE m + 1)
      /\ k \in Nat /\ Len(s) \in Nat /\ k \in 1 .. Len(r)
  BY <1>0 DEF Places
<1>3. lo <= hi + 1 /\ \A m \in 1 .. Len(s) : IsSegment(s[m]) => s[m].n \in lo .. hi
  BY DEF Run
<1>4. \A i \in 1 .. Len(r) : IsSegment(r[i]) => r[i].n \in lo .. hi + 1
  <2> SUFFICES ASSUME NEW i \in 1 .. Len(r), IsSegment(r[i]) PROVE r[i].n \in lo .. hi + 1
    OBVIOUS
  <2>1. CASE i = k
    BY <1>1, <1>3, <2>1
  <2>2. CASE i # k
    <3>1. PICK m \in 1 .. Len(s) : r[i] = s[m]
      BY <1>2, <2>2
    <3>2. r[i].n \in lo .. hi
      BY <1>3, <3>1
    <3> QED BY <3>2
  <2> QED BY <2>1, <2>2
<1>5. ASSUME NEW i \in 1 .. Len(r), NEW j \in 1 .. Len(r), IsSegment(r[i]), IsSegment(r[j]), i < j
      PROVE  r[i].n < r[j].n
  <2>1. i # k
    BY <1>1, <1>2, <1>5
  <2>2. PICK m \in 1 .. Len(s) : r[i] = s[m] /\ i = (IF m < k THEN m ELSE m + 1)
    BY <1>2, <2>1
  <2>3. CASE j = k
    <3>1. r[i].n \in lo .. hi
      BY <1>3, <1>5, <2>2
    <3> QED BY <1>1, <2>3, <3>1
  <2>4. CASE j # k
    <3>1. PICK l \in 1 .. Len(s) : r[j] = s[l] /\ j = (IF l < k THEN l ELSE l + 1)
      BY <1>2, <2>4
    <3>2. m < l
      BY <1>2, <1>5, <2>2, <3>1
    <3> QED BY <1>5, <2>2, <3>1, <3>2 DEF Run
  <2> QED BY <2>3, <2>4
<1>6. ASSUME NEW n \in lo .. hi + 1 PROVE \E i \in 1 .. Len(r) : IsSegment(r[i]) /\ r[i].n = n
  <2>1. CASE n = hi + 1
    BY <1>1, <1>2, <2>1
  <2>2. CASE n # hi + 1
    <3>1. n \in lo .. hi
      BY <2>2
    <3>2. PICK m \in 1 .. Len(s) : IsSegment(s[m]) /\ s[m].n = n
      BY <3>1 DEF Run
    <3> QED BY <1>2, <3>2
  <2> QED BY <2>1, <2>2
<1>7. lo <= hi + 1 + 1
  BY <1>3
<1> QED BY <1>4, <1>5, <1>6, <1>7 DEF Run

(* The first of the segments is the one that leaves.                       *)
LEMMA RemoveFirstSegment ==
  ASSUME NEW s, NEW r, NEW job, Inserted(s, r, 1, job), IsSegment(job),
         NEW lo \in Int, NEW hi \in Int, Run(r, lo, hi)
  PROVE  job.n = lo /\ Run(s, lo + 1, hi)
<1>1. r[1] = job /\ Len(r) = Len(s) + 1
  BY DEF Inserted
<1>2. /\ \A i \in 1 .. Len(r) : i # 1 =>
           \E m \in 1 .. Len(s) : r[i] = s[m] /\ i = (IF m < 1 THEN m ELSE m + 1)
      /\ \A m \in 1 .. Len(s) : \E i \in 1 .. Len(r) :
           r[i] = s[m] /\ i = (IF m < 1 THEN m ELSE m + 1)
      /\ Len(s) \in Nat /\ 1 \in 1 .. Len(r)
  <2>1. PICK k : k = 1 /\ Inserted(s, r, k, job)
    OBVIOUS
  <2>2. /\ \A i \in 1 .. Len(r) : i # k =>
             \E m \in 1 .. Len(s) : r[i] = s[m] /\ i = (IF m < k THEN m ELSE m + 1)
        /\ \A m \in 1 .. Len(s) : \E i \in 1 .. Len(r) :
             r[i] = s[m] /\ i = (IF m < k THEN m ELSE m + 1)
        /\ k \in 1 .. Len(r) /\ Len(s) \in Nat
    <3>1. Places(s, r, k)
      BY <2>1, InsertedPlaces
    <3> QED BY <3>1 DEF Places
  <2> QED BY <2>1, <2>2
<1>3. job.n \in lo .. hi
  BY <1>1, <1>2 DEF Run
<1>4. \A i \in 1 .. Len(r) : IsSegment(r[i]) /\ i # 1 => job.n < r[i].n
  <2> SUFFICES ASSUME NEW i \in 1 .. Len(r), IsSegment(r[i]), i # 1 PROVE job.n < r[i].n
    OBVIOUS
  <2>1. 1 < i
    BY <1>1, <1>2
  <2> QED BY <1>1, <1>2, <2>1 DEF Run
<1>5. job.n = lo
  <2>1. lo \in lo .. hi
    BY <1>3
  <2>2. PICK i \in 1 .. Len(r) : IsSegment(r[i]) /\ r[i].n = lo
    BY <2>1 DEF Run
  <2>3. i = 1
    BY <1>3, <1>4, <2>2
  <2> QED BY <1>1, <2>2, <2>3
<1>6. \A m \in 1 .. Len(s) : IsSegment(s[m]) => s[m].n \in lo + 1 .. hi
  <2> SUFFICES ASSUME NEW m \in 1 .. Len(s), IsSegment(s[m]) PROVE s[m].n \in lo + 1 .. hi
    OBVIOUS
  <2>1. PICK i \in 1 .. Len(r) : r[i] = s[m] /\ i = (IF m < 1 THEN m ELSE m + 1)
    BY <1>2
  <2>2. i # 1
    BY <1>2, <2>1
  <2>3. r[i].n \in lo .. hi /\ job.n < r[i].n
    BY <1>4, <2>1, <2>2 DEF Run
  <2> QED BY <1>5, <2>1, <2>3
<1>7. ASSUME NEW m \in 1 .. Len(s), NEW l \in 1 .. Len(s), IsSegment(s[m]), IsSegment(s[l]), m < l
      PROVE  s[m].n < s[l].n
  <2>1. PICK i \in 1 .. Len(r) : r[i] = s[m] /\ i = (IF m < 1 THEN m ELSE m + 1)
    BY <1>2
  <2>2. PICK j \in 1 .. Len(r) : r[j] = s[l] /\ j = (IF l < 1 THEN l ELSE l + 1)
    BY <1>2
  <2>3. i < j
    BY <1>2, <1>7, <2>1, <2>2
  <2> QED BY <1>7, <2>1, <2>2, <2>3 DEF Run
<1>8. ASSUME NEW n \in lo + 1 .. hi PROVE \E m \in 1 .. Len(s) : IsSegment(s[m]) /\ s[m].n = n
  <2>1. n \in lo .. hi /\ n # lo
    OBVIOUS
  <2>2. PICK i \in 1 .. Len(r) : IsSegment(r[i]) /\ r[i].n = n
    BY <2>1 DEF Run
  <2>3. i # 1
    BY <1>1, <1>5, <2>1, <2>2
  <2> QED BY <1>2, <2>2, <2>3
<1>9. lo + 1 <= hi + 1
  BY <1>3, <1>5
<1> QED BY <1>5, <1>6, <1>7, <1>8, <1>9 DEF Run

LEMMA FirstSegment ==
  ASSUME NEW r, Len(r) \in Nat, Len(r) >= 1, IsSegment(r[1]), NEW lo \in Int, NEW hi \in Int, Run(r, lo, hi)
  PROVE  r[1].n = lo
<1>1. 1 \in 1 .. Len(r)
  OBVIOUS
<1>2. r[1].n \in lo .. hi
  BY <1>1 DEF Run
<1>3. PICK i \in 1 .. Len(r) : IsSegment(r[i]) /\ r[i].n = lo
  <2>1. lo \in lo .. hi
    BY <1>2
  <2> QED BY <2>1 DEF Run
<1>4. i > 1 => r[1].n < r[i].n
  BY <1>1, <1>3 DEF Run
<1> QED BY <1>2, <1>3, <1>4

LEMMA EmptyRun ==
  ASSUME NEW s, Len(s) \in Nat, NoSegment(s), NEW lo \in Int, NEW hi \in Int
  PROVE  Run(s, lo, hi) <=> lo = hi + 1
<1>1. ASSUME Run(s, lo, hi), lo # hi + 1 PROVE FALSE
  <2>1. lo \in lo .. hi
    BY <1>1 DEF Run
  <2> QED BY <1>1, <2>1 DEF Run, NoSegment
<1>2. ASSUME lo = hi + 1 PROVE Run(s, lo, hi)
  <2>1. lo .. hi = {}
    BY <1>2
  <2> QED BY <1>2, <2>1 DEF Run, NoSegment
<1> QED BY <1>1, <1>2

LEMMA InsertEos ==
  ASSUME NEW s, NEW r, NEW k, NEW job, Inserted(s, r, k, job), job.kind \notin {"segment", "eos"}
  PROVE  /\ HasEos(s) <=> HasEos(r)
         /\ EosLast(s) <=> EosLast(r)
<1>0. Places(s, r, k)
  BY InsertedPlaces
<1>1. r[k] = job
  BY DEF Inserted
<1>2. /\ \A i \in 1 .. Len(r) : i # k =>
           \E m \in 1 .. Len(s) : r[i] = s[m] /\ i = (IF m < k THEN m ELSE m + 1)
      /\ \A m \in 1 .. Len(s) : \E i \in 1 .. Len(r) :
           r[i] = s[m] /\ i = (IF m < k THEN m ELSE m + 1)
      /\ k \in Nat /\ Len(s) \in Nat
  BY <1>0 DEF Places
<1>3. HasEos(s) <=> HasEos(r)
  BY <1>1, <1>2 DEF HasEos
<1>4. ASSUME EosLast(s), NEW i \in 1 .. Len(r), NEW j \in 1 .. Len(r), r[i].kind = "eos", i < j
      PROVE  ~IsSegment(r[j])
  <2>1. PICK m \in 1 .. Len(s) : r[i] = s[m] /\ i = (IF m < k THEN m ELSE m + 1)
    BY <1>1, <1>2, <1>4
  <2>2. CASE j = k
    BY <1>1, <2>2 DEF IsSegment
  <2>3. CASE j # k
    <3>1. PICK l \in 1 .. Len(s) : r[j] = s[l] /\ j = (IF l < k THEN l ELSE l + 1)
      BY <1>2, <2>3
    <3>2. m < l
      BY <1>2, <1>4, <2>1, <3>1
    <3> QED BY <1>4, <2>1, <3>1, <3>2 DEF EosLast
  <2> QED BY <2>2, <2>3
<1>5. ASSUME EosLast(r), NEW m \in 1 .. Len(s), NEW l \in 1 .. Len(s), s[m].kind = "eos", m < l
      PROVE  ~IsSegment(s[l])
  <2>1. PICK i \in 1 .. Len(r) : r[i] = s[m] /\ i = (IF m < k THEN m ELSE m + 1)
    BY <1>2
  <2>2. PICK j \in 1 .. Len(r) : r[j] = s[l] /\ j = (IF l < k THEN l ELSE l + 1)
    BY <1>2
  <2>3. i < j
    BY <1>2, <1>5, <2>1, <2>2
  <2> QED BY <1>5, <2>1, <2>2, <2>3 DEF EosLast
<1> QED BY <1>3, <1>4, <1>5 DEF EosLast

LEMMA InsertAtEnds ==
  ASSUME NEW S, NEW q \in Seq(S), NEW j \in S
  PROVE  Inserted(q, <<j>> \o q, 1, j) /\ Inserted(q, Append(q, j), Len(q) + 1, j)
  BY DEF Inserted

LEMMA InsertBehind ==
  ASSUME NEW S, NEW q \in Seq(S), NEW j \in S, NEW c \in S
  PROVE  /\ Inserted(<<c>> \o q, <<c>> \o (<<j>> \o q), 2, j)
         /\ Inserted(<<c>> \o q, <<c>> \o Append(q, j), Len(<<c>> \o q) + 1, j)
<1>0. <<c>> \o q \in Seq(S) /\ <<j>> \o q \in Seq(S) /\ <<c>> \o (<<j>> \o q) \in Seq(S)
  BY ConsProperties
<1>1. PICK s \in Seq(S) : s = <<c>> \o q
  BY <1>0
<1>2. <<c>> \o Append(q, j) = Append(s, j)
  BY <1>1
<1>3. Inserted(s, Append(s, j), Len(s) + 1, j)
  BY InsertAtEnds
<1>4. PICK r \in Seq(S) : r = <<c>> \o (<<j>> \o q)
  BY <1>0
<1>5. /\ Len(s) = Len(q) + 1 /\ s[1] = c /\ \A i \in 1 .. Len(s) : i # 1 => s[i] = q[i - 1]
      /\ Len(r) = Len(q) + 2 /\ r[1] = c /\ r[2] = j
      /\ \A i \in 1 .. Len(r) : i > 2 => r[i] = q[i - 2]
      /\ Len(q) \in Nat
  BY <1>1, <1>4
<1>6. Inserted(s, r, 2, j)
  BY <1>5 DEF Inserted
<1> QED BY <1>1, <1>2, <1>3, <1>4, <1>6

LEMMA LiveType ==
  ASSUME TInv, NEW t \in Tracks
  PROVE  /\ Live(t) \in Seq(Job) /\ Len(Live(t)) \in Nat
         /\ mJobQueue[t] \in Seq(Job)
         /\ worker[t] \in {"running", "reschedule", "callback"} => currentJob[t] \in Job
         /\ worker[t] \in {"running", "reschedule"} =>
              Len(Live(t)) >= 1 /\ Live(t)[1] = currentJob[t] /\ Live(t) = <<currentJob[t]>> \o mJobQueue[t]
<1>1. mJobQueue[t] \in Seq(Job)
  BY DEF TInv, TypeOK
<1>2. worker[t] \in {"running", "reschedule", "callback"} => currentJob[t] \in Job
  BY DEF TInv, JobInv, GoodJob
<1>3. CASE worker[t] \in {"running", "reschedule"}
  <2>1. Live(t) = <<currentJob[t]>> \o mJobQueue[t]
    BY <1>3 DEF Live
  <2> QED BY <1>1, <1>2, <1>3, <2>1
<1>4. CASE ~(worker[t] \in {"running", "reschedule"})
  <2>1. Live(t) = mJobQueue[t]
    BY <1>4 DEF Live
  <2> QED BY <1>1, <1>2, <1>4, <2>1
<1> QED BY <1>3, <1>4

(* A job that is submitted joins them, in front of the queue or last.      *)
LEMMA LivePushed ==
  ASSUME TInv, NEW t \in Tracks, NEW job \in Job, NEW b \in BOOLEAN,
         mJobQueue'[t] = Pushed(mJobQueue[t], job, b),
         worker'[t] = worker[t], currentJob'[t] = currentJob[t]
  PROVE  \E k : Inserted(Live(t), Live(t)', k, job) /\ (b \/ k = Len(Live(t)) + 1)
<1>1. /\ mJobQueue[t] \in Seq(Job)
      /\ worker[t] \in {"running", "reschedule", "callback"} => currentJob[t] \in Job
  BY LiveType
<1>2. CASE worker[t] \in {"running", "reschedule"}
  <2>1. Live(t) = <<currentJob[t]>> \o mJobQueue[t] /\ Live(t)' = <<currentJob[t]>> \o mJobQueue'[t]
    BY <1>2 DEF Live
  <2>2. /\ Inserted(<<currentJob[t]>> \o mJobQueue[t], <<currentJob[t]>> \o (<<job>> \o mJobQueue[t]), 2, job)
        /\ Inserted(<<currentJob[t]>> \o mJobQueue[t], <<currentJob[t]>> \o Append(mJobQueue[t], job),
                    Len(<<currentJob[t]>> \o mJobQueue[t]) + 1, job)
    BY <1>1, <1>2, InsertBehind
  <2>3. CASE b
    BY <2>1, <2>2, <2>3 DEF Pushed
  <2>4. CASE ~b
    BY <2>1, <2>2, <2>4 DEF Pushed
  <2> QED BY <2>3, <2>4
<1>3. CASE ~(worker[t] \in {"running", "reschedule"})
  <2>1. Live(t) = mJobQueue[t] /\ Live(t)' = mJobQueue'[t]
    BY <1>3 DEF Live
  <2>2. /\ Inserted(mJobQueue[t], <<job>> \o mJobQueue[t], 1, job)
        /\ Inserted(mJobQueue[t], Append(mJobQueue[t], job), Len(mJobQueue[t]) + 1, job)
    BY <1>1, InsertAtEnds
  <2>3. CASE b
    BY <2>1, <2>2, <2>3 DEF Pushed
  <2>4. CASE ~b
    BY <2>1, <2>2, <2>4 DEF Pushed
  <2> QED BY <2>3, <2>4
<1> QED BY <1>2, <1>3

(* The job a worker has run leaves them.                                   *)
LEMMA LiveReturned ==
  ASSUME TInv, NEW t \in Tracks, worker[t] = "running", mJobQueue'[t] = mJobQueue[t],
         worker'[t] \notin {"running", "reschedule"}
  PROVE  Inserted(Live(t)', Live(t), 1, currentJob[t])
<1>1. mJobQueue[t] \in Seq(Job) /\ currentJob[t] \in Job
  BY LiveType
<1>2. Live(t) = <<currentJob[t]>> \o mJobQueue[t] /\ Live(t)' = mJobQueue[t]
  BY DEF Live
<1> QED BY <1>1, <1>2, InsertAtEnds

(* What the order and the end of a track depend on.                        *)
SameTrack(u) ==
  /\ Live(u)' = Live(u) /\ done'[u] = done[u] /\ nextSegment'[u] = nextSegment[u]
  /\ mStopped[u] => mStopped'[u]
  /\ currentPeriod' = currentPeriod
  /\ Steady(u)' => Steady(u)
  /\ Steady(u)' \/ Steady(u) \/ HasEos(Live(u)) => (Resetting(u)' <=> Resetting(u))

LEMMA OrderSame ==
  ASSUME NEW u \in Tracks, OrderInv(u), EosInv(u), SameTrack(u)
  PROVE  OrderInv(u)' /\ EosInv(u)'
<1> HIDE DEF Live, Steady, Resetting
<1> QED BY DEF OrderInv, EosInv, SameTrack, Run, HasEos, NoSegment, EosLast

LEMMA CoverSame ==
  ASSUME NEW u \in Tracks, CoverInv(u), Live(u)' = Live(u), currentPeriod' = currentPeriod,
         initFor'[u] = initFor[u], Steady(u)' => Steady(u), Steady(u)' /\ Covers(u)' => Covers(u),
         \/ worker'[u] = worker[u] /\ (worker[u] = "reschedule" /\ profileChanged[u] => profileChanged'[u])
         \/ worker'[u] = "callback" \/ (worker'[u] = "reschedule" /\ profileChanged'[u])
         \/ worker[u] \notin {"callback", "reschedule"}
         \/ worker[u] = "reschedule" /\ ~profileChanged[u]
  PROVE  CoverInv(u)'
<1>1. \A i : Covered(u, i) => Covered(u, i)'
  BY DEF Covered
<1> QED BY <1>1 DEF CoverInv

LEMMA PrimedLive ==
  ASSUME NEW t, NEW r, r = Live(t)'
  PROVE  /\ HasEos(Live(t))' <=> HasEos(r)
         /\ NoSegment(Live(t))' <=> NoSegment(r)
         /\ EosLast(Live(t))' <=> EosLast(r)
         /\ Run(Live(t), done[t] + 1, nextSegment[t] - 1)' <=> Run(r, done'[t] + 1, nextSegment'[t] - 1)
<1>1. HasEos(Live(t))' <=> HasEos(r)
  BY DEF HasEos
<1>2. NoSegment(Live(t))' <=> NoSegment(r)
  BY DEF NoSegment
<1>3. EosLast(Live(t))' <=> EosLast(r)
  BY DEF EosLast
<1>4. Run(Live(t), done[t] + 1, nextSegment[t] - 1)' <=> Run(r, done'[t] + 1, nextSegment'[t] - 1)
  BY DEF Run
<1> QED BY <1>1, <1>2, <1>3, <1>4

(* A job that is neither a segment nor an EOS job joins those of track t.  *)
LEMMA OrderInsert ==
  ASSUME TInv, NEW t \in Tracks, OrderInv(t), EosInv(t),
         NEW k, NEW job, Inserted(Live(t), Live(t)', k, job), job.kind \notin {"segment", "eos"},
         UNCHANGED <<done, nextSegment, mStopped, currentPeriod>>,
         Steady(t)' => Steady(t) /\ ~Resetting(t), ~(Steady(t)' /\ Resetting(t)'),
         Resetting(t)' => Resetting(t)
  PROVE  OrderInv(t)' /\ EosInv(t)'
<1>1. PICK s : s = Live(t)
  OBVIOUS
<1>2. PICK r : r = Live(t)'
  OBVIOUS
<1>3. Inserted(s, r, k, job) /\ ~IsSegment(job) /\ job.kind \notin {"segment", "eos"}
  BY <1>1, <1>2 DEF IsSegment
<1>4. done[t] + 1 \in Int /\ nextSegment[t] - 1 \in Int
  BY NumberFacts
<1>5. PICK lo \in Int : lo = done[t] + 1
  BY <1>4
<1>6. PICK hi \in Int : hi = nextSegment[t] - 1
  BY <1>4
<1>7. (Run(s, lo, hi) <=> Run(r, lo, hi)) /\ (NoSegment(s) <=> NoSegment(r))
  BY <1>3, InsertOther
<1>8. (HasEos(s) <=> HasEos(r)) /\ (EosLast(s) <=> EosLast(r))
  BY <1>3, InsertEos
<1>9. /\ HasEos(Live(t))' <=> HasEos(s)
      /\ NoSegment(Live(t))' <=> NoSegment(s)
      /\ EosLast(Live(t))' <=> EosLast(s)
      /\ Run(Live(t), done[t] + 1, nextSegment[t] - 1)' <=> Run(s, lo, hi)
  <2>1. /\ HasEos(Live(t))' <=> HasEos(r)
        /\ NoSegment(Live(t))' <=> NoSegment(r)
        /\ EosLast(Live(t))' <=> EosLast(r)
        /\ Run(Live(t), done[t] + 1, nextSegment[t] - 1)' <=> Run(r, done'[t] + 1, nextSegment'[t] - 1)
    BY <1>2, PrimedLive
  <2>2. Run(r, done'[t] + 1, nextSegment'[t] - 1) <=> Run(r, lo, hi)
    BY <1>5, <1>6
  <2> QED BY <1>7, <1>8, <2>1, <2>2
<1>10. OrderInv(t)'
  <2>1. (Steady(t)' /\ ~Resetting(t)') \/ (HasEos(s) /\ ~mStopped[t]) => Run(s, lo, hi)
    BY <1>1, <1>5, <1>6 DEF OrderInv
  <2> QED BY <1>9, <2>1 DEF OrderInv
<1>11. EosInv(t)'
  BY <1>1, <1>9 DEF EosInv
<1> QED BY <1>10, <1>11

(* The init segment is before what it was before when a job joins at the   *)
(* end.                                                                    *)
LEMMA CoverAppend ==
  ASSUME TInv, NEW t \in Tracks, CoverInv(t), NEW job, Inserted(Live(t), Live(t)', Len(Live(t)) + 1, job),
         job.kind \in {"segment", "init"} => job.period = currentPeriod,
         Steady(t)' => Steady(t), Steady(t)' /\ (IsSegment(job) \/ Covers(t)') => Covers(t),
         currentPeriod' = currentPeriod, initFor'[t] = initFor[t], worker'[t] = worker[t],
         profileChanged'[t] = profileChanged[t]
  PROVE  CoverInv(t)'
<1> SUFFICES ASSUME Steady(t)' PROVE CoverInv(t)'
  BY DEF CoverInv
<1>1. PICK s : s = Live(t)
  OBVIOUS
<1>2. PICK r : r = Live(t)'
  OBVIOUS
<1>3. /\ Len(s) \in Nat /\ Len(r) = Len(s) + 1 /\ r[Len(s) + 1] = job
      /\ \A i \in 1 .. Len(s) : r[i] = s[i]
  BY <1>1, <1>2 DEF Inserted
<1>4. ASSUME NEW i \in 1 .. Len(s) + 1, Covered(t, i) PROVE Covered(t, i)' /\ Covered(t, Len(s) + 2)'
  <2>1. CASE \E j \in 1 .. Len(s) : j < i /\ s[j].kind = "init"
    <3>1. PICK j \in 1 .. Len(s) : j < i /\ s[j].kind = "init"
      BY <2>1
    <3>2. j \in 1 .. Len(r) /\ r[j].kind = "init" /\ j < i /\ j < Len(s) + 2
      BY <1>3, <3>1
    <3> QED BY <1>2, <3>2 DEF Covered
  <2>2. CASE ~ \E j \in 1 .. Len(s) : j < i /\ s[j].kind = "init"
    BY <1>1, <1>4, <2>2 DEF Covered
  <2> QED BY <2>1, <2>2
<1>5. ASSUME NEW i \in 1 .. Len(r)
      PROVE  /\ r[i].kind \in {"segment", "init"} => r[i].period = currentPeriod
             /\ IsSegment(r[i]) => Covered(t, i)'
  <2>1. CASE i \in 1 .. Len(s)
    BY <1>1, <1>3, <1>4, <2>1 DEF CoverInv
  <2>2. CASE i \notin 1 .. Len(s)
    <3>1. i = Len(s) + 1
      BY <1>3, <2>2
    <3>2. IsSegment(r[i]) => Covered(t, Len(s) + 1)
      BY <1>1, <1>3, <3>1 DEF CoverInv
    <3>3. Len(s) + 1 \in 1 .. Len(s) + 1
      BY <1>3
    <3> QED BY <1>3, <1>4, <3>1, <3>2, <3>3
  <2> QED BY <2>1, <2>2
<1>6. Covers(t)' => Covered(t, Len(r) + 1)'
  <2>1. Covers(t)' => Covered(t, Len(s) + 1)
    BY <1>1 DEF CoverInv
  <2>2. Len(r) + 1 = Len(s) + 2 /\ Len(s) + 1 \in 1 .. Len(s) + 1
    BY <1>3
  <2> QED BY <1>4, <2>1, <2>2
<1> QED BY <1>2, <1>5, <1>6 DEF CoverInv

(* A step that leaves a track and the fetcher's place alone.               *)
LEMMA TrackSame ==
  ASSUME NEW u \in Tracks, TrackInv(u), UNCHANGED <<fetcher, todo, controller, currentPeriod>>,
         worker'[u] = worker[u], currentJob'[u] = currentJob[u], mJobQueue'[u] = mJobQueue[u],
         profileChanged'[u] = profileChanged[u], done'[u] = done[u],
         nextSegment'[u] = nextSegment[u], mStopped[u] => mStopped'[u], initFor'[u] = initFor[u]
  PROVE  TrackInv(u)'
<1>1. /\ Live(u)' = Live(u) /\ (Quiet(u)' <=> Quiet(u)) /\ (Steady(u)' <=> Steady(u))
      /\ (Resetting(u)' <=> Resetting(u)) /\ (Covers(u)' <=> Covers(u))
  BY DEF Live, Quiet, Steady, Resetting, Covers
<1>2. DrainInv(u)'
  BY <1>1 DEF TrackInv, DrainInv, NoSegment
<1>3. OrderInv(u)' /\ EosInv(u)'
  BY <1>1, OrderSame DEF TrackInv, SameTrack
<1>4. CoverInv(u)'
  BY <1>1, CoverSame DEF TrackInv
<1> QED BY <1>2, <1>3, <1>4 DEF TrackInv

(* A worker takes a job, leaves, or puts the job back that it runs.        *)
LEMMA WorkerKeeps ==
  ASSUME TInv, NEW t \in Tracks, TrackInv(t),
         TakeJob(t) \/ WorkerExit(t) \/ RampDown(t) \/ RescheduleActiveJob(t)
  PROVE  TrackInv(t)'
<1>1. /\ UNCHANGED <<fetcher, todo, controller, currentPeriod, nextSegment, done, mStopped>>
      /\ mJobQueue \in [Tracks -> Seq(Job)] /\ currentJob \in [Tracks -> Job \cup {NoJob}]
      /\ worker \in [Tracks -> {"idle", "running", "reschedule", "callback", "exited"}]
      /\ profileChanged \in [Tracks -> BOOLEAN] /\ initFor \in [Tracks -> 0 .. MaxPeriods]
  BY DEF TakeJob, WorkerExit, RampDown, RescheduleActiveJob, fetcherVars, stopVars, TInv, TypeOK
<1>2. Live(t)' = Live(t)
  <2>1. CASE TakeJob(t)
    <3>1. /\ worker[t] = "idle" /\ mJobQueue[t] \in Seq(Job) /\ mJobQueue[t] # <<>>
          /\ worker'[t] = "running" /\ currentJob'[t] = Head(mJobQueue[t])
          /\ mJobQueue'[t] = Tail(mJobQueue[t])
      BY <1>1, <2>1 DEF TakeJob
    <3>2. mJobQueue[t] = <<Head(mJobQueue[t])>> \o Tail(mJobQueue[t])
      BY <3>1, TailProperties
    <3> QED BY <3>1, <3>2 DEF Live
  <2>2. CASE WorkerExit(t) \/ RampDown(t)
    BY <1>1, <2>2 DEF WorkerExit, RampDown, Running, Live
  <2>3. CASE RescheduleActiveJob(t)
    BY <1>1, <2>3 DEF RescheduleActiveJob, Rescheduled, ReturnFromRun, Live
  <2> QED BY <2>1, <2>2, <2>3
<1>3. /\ (Steady(t)' <=> Steady(t)) /\ (Resetting(t)' <=> Resetting(t)) /\ (Covers(t)' <=> Covers(t))
  BY <1>1 DEF Steady, Resetting, Covers
<1>4. Quiet(t) => Quiet(t)'
  BY <1>1 DEF Quiet, TakeJob, WorkerExit, RampDown, RescheduleActiveJob, Running
<1>5. DrainInv(t)'
  BY <1>1, <1>2, <1>3, <1>4 DEF TrackInv, DrainInv, NoSegment
<1>6. OrderInv(t)' /\ EosInv(t)'
  BY <1>1, <1>2, <1>3, OrderSame DEF TrackInv, SameTrack
<1>7. CoverInv(t)'
  <2>1. CASE RampDown(t)
    <3>1. worker'[t] = "reschedule" /\ profileChanged'[t]
      BY <1>1, <2>1 DEF RampDown
    <3>2. \A i : Covered(t, i)'
      BY <3>1 DEF Covered
    <3> QED BY <1>1, <1>2, <1>3, <3>2 DEF TrackInv, CoverInv
  <2>2. CASE TakeJob(t) \/ WorkerExit(t) \/ RescheduleActiveJob(t)
    <3>1. /\ initFor' = initFor
          /\ \/ worker'[t] = "callback" \/ worker[t] \notin {"callback", "reschedule"}
             \/ worker[t] = "reschedule" /\ ~profileChanged[t]
      BY <1>1, <2>2 DEF TakeJob, WorkerExit, RescheduleActiveJob, ReturnFromRun
    <3> QED BY <1>1, <1>2, <1>3, <3>1, CoverSame DEF TrackInv
  <2> QED BY <2>1, <2>2
<1> QED BY <1>5, <1>6, <1>7 DEF TrackInv

(* A worker has run a job.                                                 *)
LEMMA WorkerReturns ==
  ASSUME TInv, NEW t \in Tracks, TrackInv(t),
         \/ RunControlJob(t) \/ DownloadSegment(t) \/ DownloadSegmentAndChangeProfile(t)
         \/ DownloadInit(t) \/ DownloadInitFails(t)
  PROVE  TrackInv(t)'
<1>1. /\ UNCHANGED <<fetcher, todo, controller, currentPeriod, nextSegment, mJobQueue, mStopped>>
      /\ currentJob \in [Tracks -> Job \cup {NoJob}]
      /\ worker \in [Tracks -> {"idle", "running", "reschedule", "callback", "exited"}]
      /\ profileChanged \in [Tracks -> BOOLEAN] /\ initFor \in [Tracks -> 0 .. MaxPeriods]
      /\ done \in [Tracks -> 0 .. LastOf(MaxPeriods)]
  BY DEF RunControlJob, DownloadSegment, DownloadSegmentAndChangeProfile, DownloadInit,
       DownloadInitFails, fetcherVars, stopVars, TInv, TypeOK
<1>2. worker[t] = "running" /\ worker'[t] \in {"idle", "callback"}
  BY <1>1 DEF RunControlJob, DownloadSegment, DownloadSegmentAndChangeProfile, DownloadInit,
       DownloadInitFails, Running, ReturnFromRun
<1>3. PICK s : s = Live(t)'
  OBVIOUS
<1>4. PICK r : r = Live(t)
  OBVIOUS
<1>5. PICK job \in Job : job = currentJob[t]
  BY <1>2, LiveType
<1>6. Inserted(s, r, 1, job)
  BY <1>1, <1>2, <1>3, <1>4, <1>5, LiveReturned
<1>7. /\ Len(s) \in Nat /\ Len(r) = Len(s) + 1 /\ r[1] = job /\ 1 \in 1 .. Len(r)
      /\ \A i \in 1 .. Len(s) : i + 1 \in 1 .. Len(r) /\ r[i + 1] = s[i]
  BY <1>6 DEF Inserted
<1>8. /\ (Steady(t)' <=> Steady(t)) /\ (Resetting(t)' <=> Resetting(t)) /\ (Covers(t)' <=> Covers(t))
      /\ ~Quiet(t)
  BY <1>1, <1>2 DEF Steady, Resetting, Covers, Quiet
<1>9. /\ NoSegment(r) => NoSegment(s)
      /\ HasEos(s) => HasEos(r)
      /\ EosLast(r) => EosLast(s)
  <2>1. (NoSegment(r) => NoSegment(s)) /\ (HasEos(s) => HasEos(r))
    BY <1>7 DEF NoSegment, HasEos
  <2>2. ASSUME EosLast(r), NEW i \in 1 .. Len(s), NEW j \in 1 .. Len(s), s[i].kind = "eos", i < j
        PROVE  ~IsSegment(s[j])
    <3>1. /\ i + 1 \in 1 .. Len(r) /\ r[i + 1] = s[i] /\ j + 1 \in 1 .. Len(r) /\ r[j + 1] = s[j]
          /\ i + 1 < j + 1
      BY <1>7, <2>2
    <3> QED BY <2>2, <3>1 DEF EosLast
  <2> QED BY <2>1, <2>2 DEF EosLast
<1>10. /\ HasEos(Live(t))' <=> HasEos(s)
       /\ NoSegment(Live(t))' <=> NoSegment(s)
       /\ EosLast(Live(t))' <=> EosLast(s)
       /\ Run(Live(t), done[t] + 1, nextSegment[t] - 1)' <=> Run(s, done'[t] + 1, nextSegment[t] - 1)
  BY <1>1, <1>3, PrimedLive
<1>11. PICK lo \in Int, hi \in Int : lo = done[t] + 1 /\ hi = nextSegment[t] - 1
  BY NumberFacts
<1>12. /\ (Steady(t) /\ ~Resetting(t)) \/ (HasEos(r) /\ ~mStopped[t]) => Run(r, lo, hi)
       /\ Steady(t) /\ Resetting(t) =>
            \A i \in 1 .. Len(r) : IsSegment(r[i]) => i = 1 /\ r[i].n = done[t] + 1
  BY <1>4, <1>11 DEF TrackInv, OrderInv
<1>13. /\ HasEos(r) => currentPeriod = MaxPeriods
       /\ HasEos(r) /\ ~mStopped[t] => nextSegment[t] = LastOf(MaxPeriods) + 1
       /\ EosLast(r)
       /\ HasEos(r) /\ Resetting(t) => NoSegment(r)
  BY <1>4 DEF TrackInv, EosInv
<1>14. IsSegment(job) =>
         (done'[t] = job.n /\ (UNCHANGED initFor \/ worker'[t] = "callback"))
  BY <1>1, <1>5 DEF RunControlJob, DownloadSegment, DownloadSegmentAndChangeProfile, DownloadInit,
       DownloadInitFails, Running, IsSegment, ReturnFromRun
<1>15. ~IsSegment(job) =>
         /\ done' = done
         /\ job.kind = "init" => initFor'[t] = job.period
         /\ job.kind # "init" => UNCHANGED initFor
  BY <1>1, <1>5 DEF RunControlJob, DownloadSegment, DownloadSegmentAndChangeProfile, DownloadInit,
       DownloadInitFails, Running, IsSegment
<1>16. DrainInv(t)'
  BY <1>1, <1>4, <1>8, <1>9, <1>10 DEF TrackInv, DrainInv
<1>17. OrderInv(t)'
  <2>1. CASE IsSegment(job)
    <3>1. (Steady(t) /\ ~Resetting(t)) \/ (HasEos(s) /\ ~mStopped[t]) => job.n = lo /\ Run(s, lo + 1, hi)
      BY <1>6, <1>9, <1>12, <2>1, RemoveFirstSegment
    <3>2. (Steady(t) /\ ~Resetting(t)) \/ (HasEos(s) /\ ~mStopped[t]) => Run(s, done'[t] + 1, nextSegment[t] - 1)
      BY <1>11, <1>14, <2>1, <3>1
    <3>3. Steady(t) /\ Resetting(t) => \A i \in 1 .. Len(s) : ~IsSegment(s[i])
      BY <1>7, <1>12
    <3> QED BY <1>1, <1>3, <1>8, <1>10, <3>2, <3>3 DEF OrderInv
  <2>2. CASE ~IsSegment(job)
    <3>1. Run(s, lo, hi) <=> Run(r, lo, hi)
      BY <1>6, <2>2, InsertOther
    <3>2. (Steady(t) /\ ~Resetting(t)) \/ (HasEos(s) /\ ~mStopped[t]) => Run(s, done'[t] + 1, nextSegment[t] - 1)
      BY <1>9, <1>11, <1>12, <1>15, <2>2, <3>1
    <3>3. Steady(t) /\ Resetting(t) => \A i \in 1 .. Len(s) : ~IsSegment(s[i])
      BY <1>7, <1>12
    <3> QED BY <1>1, <1>3, <1>8, <1>10, <3>2, <3>3 DEF OrderInv
  <2> QED BY <2>1, <2>2
<1>18. EosInv(t)'
  BY <1>1, <1>8, <1>9, <1>10, <1>13 DEF EosInv
<1>19. CoverInv(t)'
  <2> SUFFICES ASSUME Steady(t) PROVE CoverInv(t)'
    BY <1>8 DEF CoverInv
  <2>1. /\ \A i \in 1 .. Len(r) : r[i].kind \in {"segment", "init"} => r[i].period = currentPeriod
        /\ \A i \in 1 .. Len(r) : IsSegment(r[i]) => Covered(t, i)
        /\ Covers(t) => Covered(t, Len(r) + 1)
    BY <1>4 DEF TrackInv, CoverInv
  <2>2. ASSUME NEW i \in 1 .. Len(s) + 1, Covered(t, i + 1) PROVE Covered(t, i)'
    <3>1. CASE worker'[t] = "callback" \/ initFor'[t] = currentPeriod
      BY <1>1, <3>1 DEF Covered
    <3>2. CASE ~(worker'[t] = "callback" \/ initFor'[t] = currentPeriod)
      <4>1. job.kind # "init" /\ UNCHANGED initFor
        BY <1>7, <1>14, <1>15, <2>1, <3>2 DEF IsSegment
      <4>2. \E j \in 1 .. Len(r) : j < i + 1 /\ r[j].kind = "init"
        BY <1>2, <1>4, <2>2, <3>2, <4>1 DEF Covered
      <4>3. PICK j \in 1 .. Len(r) : j < i + 1 /\ r[j].kind = "init"
        BY <4>2
      <4>4. j # 1
        BY <1>7, <4>1, <4>3
      <4>5. PICK m : m = j - 1
        OBVIOUS
      <4>6. m \in 1 .. Len(s) /\ m < i /\ s[m].kind = "init"
        BY <1>7, <4>3, <4>4, <4>5
      <4> QED BY <1>3, <4>6 DEF Covered
    <3> QED BY <3>1, <3>2
  <2>3. ASSUME NEW i \in 1 .. Len(s)
        PROVE  /\ s[i].kind \in {"segment", "init"} => s[i].period = currentPeriod
               /\ IsSegment(s[i]) => Covered(t, i)'
    <3>1. i + 1 \in 1 .. Len(r) /\ r[i + 1] = s[i] /\ i \in 1 .. Len(s) + 1
      BY <1>7
    <3> QED BY <2>1, <2>2, <3>1
  <2>4. Covers(t) => Covered(t, Len(s) + 1)'
    <3>1. Len(s) + 1 \in 1 .. Len(s) + 1 /\ Len(r) + 1 = Len(s) + 1 + 1
      BY <1>7
    <3> QED BY <2>1, <2>2, <3>1
  <2> QED BY <1>1, <1>3, <1>8, <2>3, <2>4 DEF CoverInv
<1> QED BY <1>16, <1>17, <1>18, <1>19 DEF TrackInv

(* A worker asks for the init segment from the job it runs.                *)
LEMMA WorkerSubmits ==
  ASSUME TInv, StopInv, WaitInv, NEW t \in Tracks, TrackInv(t), SubmitInitFromJob(t)
  PROVE  TrackInv(t)'
<1>1. /\ UNCHANGED <<fetcher, todo, controller, currentPeriod, nextSegment, done, mStopped, initFor>>
      /\ mJobQueue \in [Tracks -> Seq(Job)] /\ mJobQueue[t] \in Seq(Job)
      /\ worker \in [Tracks -> {"idle", "running", "reschedule", "callback", "exited"}]
      /\ worker[t] = "callback" /\ worker'[t] = "idle" /\ MutexFree
  BY DEF SubmitInitFromJob, SubmitJob, ReturnFromRun, fetcherVars, stopVars, TInv, TypeOK
<1>2. InitJob \in Job /\ InitJob.kind = "init" /\ InitJob.period = currentPeriod
  BY NumberFacts, JobFacts DEF InitJob
<1>3. /\ (Steady(t)' <=> Steady(t)) /\ (Resetting(t)' <=> Resetting(t)) /\ (Covers(t)' <=> Covers(t))
      /\ ~Quiet(t) /\ Live(t) = mJobQueue[t] /\ Live(t)' = mJobQueue'[t]
  BY <1>1 DEF Steady, Resetting, Covers, Quiet, Live
<1>4. CASE Accepts(t)
  <2>1. Live(t)' = <<InitJob>> \o Live(t)
    BY <1>1, <1>3, <1>4 DEF SubmitInitFromJob, SubmitJob, Pushed
  <2>2. PICK s \in Seq(Job) : s = Live(t)
    BY <1>1, <1>3
  <2>3. PICK r : r = Live(t)'
    OBVIOUS
  <2>4. r = <<InitJob>> \o s /\ Inserted(s, r, 1, InitJob)
    BY <1>2, <2>1, <2>2, <2>3, InsertAtEnds
  <2>4b. /\ Len(r) = Len(s) + 1 /\ r[1] = InitJob /\ Len(s) \in Nat
         /\ \A i \in 1 .. Len(r) : i # 1 => i - 1 \in 1 .. Len(s) /\ r[i] = s[i - 1]
    BY <1>2, <2>4, ConsProperties
  <2>5. ~(Steady(t) /\ Resetting(t))
    BY <1>1 DEF StopInv, WaitInv, ReplyInv, ResetIsBarrier, Resetting, Steady, MutexFree
  <2>6. OrderInv(t)' /\ EosInv(t)'
    <3>1. Inserted(Live(t), Live(t)', 1, InitJob) /\ InitJob.kind \notin {"segment", "eos"}
      BY <1>2, <2>2, <2>3, <2>4
    <3>2. PICK k : k = 1 /\ Inserted(Live(t), Live(t)', k, InitJob)
      BY <3>1
    <3>3. PICK job : job = InitJob /\ Inserted(Live(t), Live(t)', k, job) /\ job.kind \notin {"segment", "eos"}
      BY <3>1, <3>2
    <3> QED BY <1>1, <1>3, <2>5, <3>3, OrderInsert DEF TrackInv
  <2>7. DrainInv(t)'
    <3>1. NoSegment(s) => NoSegment(r)
      BY <1>2, <2>4b DEF NoSegment, IsSegment
    <3>2. NoSegment(Live(t)) => NoSegment(Live(t))'
      BY <2>2, <2>3, <3>1, PrimedLive
    <3> QED BY <1>1, <1>3, <3>2 DEF TrackInv, DrainInv
  <2>8. CoverInv(t)'
    <3> SUFFICES ASSUME Steady(t) PROVE CoverInv(t)'
      BY <1>3 DEF CoverInv
    <3>1. /\ Len(r) = Len(s) + 1 /\ r[1] = InitJob /\ Len(s) \in Nat
          /\ \A i \in 1 .. Len(r) : i # 1 => i - 1 \in 1 .. Len(s) /\ r[i] = s[i - 1]
      BY <2>4b
    <3>2. ASSUME NEW i \in 1 .. Len(r) + 1, i # 1 PROVE Covered(t, i)'
      <4>1. 1 \in 1 .. Len(r) /\ 1 < i /\ r[1].kind = "init"
        BY <1>2, <3>1, <3>2
      <4> QED BY <2>3, <4>1 DEF Covered
    <3>3. \A i \in 1 .. Len(s) : s[i].kind \in {"segment", "init"} => s[i].period = currentPeriod
      BY <2>2 DEF TrackInv, CoverInv
    <3>4. \A i \in 1 .. Len(r) : r[i].kind \in {"segment", "init"} => r[i].period = currentPeriod
      BY <1>2, <3>1, <3>3
    <3>5. \A i \in 1 .. Len(r) : IsSegment(r[i]) => Covered(t, i)'
      BY <1>2, <3>1, <3>2 DEF IsSegment
    <3>6. Covered(t, Len(r) + 1)'
      BY <3>1, <3>2
    <3> QED BY <1>1, <2>3, <3>4, <3>5, <3>6 DEF CoverInv
  <2> QED BY <2>6, <2>7, <2>8 DEF TrackInv
<1>5. CASE ~Accepts(t)
  <2>1. Live(t)' = Live(t)
    BY <1>1, <1>3, <1>5 DEF SubmitInitFromJob, SubmitJob
  <2>2. ~Steady(t)
    BY <1>5 DEF Accepts, StopInv, Steady
  <2>3. OrderInv(t)' /\ EosInv(t)'
    BY <1>1, <1>3, <2>1, OrderSame DEF TrackInv, SameTrack
  <2> QED BY <1>3, <2>2, <2>3 DEF TrackInv, DrainInv, CoverInv
<1> QED BY <1>4, <1>5

LEMMA TrackWorker ==
  ASSUME TInv, StopInv, WaitInv, NEW t \in Tracks, WorkerStep(t), NEW u \in Tracks, TrackInv(u)
  PROVE  TrackInv(u)'
<1>1. CASE u = t
  BY <1>1, WorkerKeeps, WorkerReturns, WorkerSubmits DEF WorkerStep
<1>2. CASE u # t
  <2>1. /\ mJobQueue \in [Tracks -> Seq(Job)] /\ currentJob \in [Tracks -> Job \cup {NoJob}]
        /\ worker \in [Tracks -> {"idle", "running", "reschedule", "callback", "exited"}]
        /\ profileChanged \in [Tracks -> BOOLEAN] /\ initFor \in [Tracks -> 0 .. MaxPeriods]
        /\ done \in [Tracks -> 0 .. LastOf(MaxPeriods)]
    BY DEF TInv, TypeOK
  <2>2. UNCHANGED <<fetcher, todo, controller, currentPeriod, nextSegment>>
    BY DEF WorkerStep, TakeJob, WorkerExit, RunControlJob, DownloadSegment,
         DownloadSegmentAndChangeProfile, DownloadInit, DownloadInitFails, RampDown,
         RescheduleActiveJob, SubmitInitFromJob, fetcherVars, stopVars
  <2>3. /\ worker'[u] = worker[u] /\ currentJob'[u] = currentJob[u] /\ mJobQueue'[u] = mJobQueue[u]
        /\ profileChanged'[u] = profileChanged[u] /\ done'[u] = done[u]
        /\ mStopped' = mStopped /\ initFor'[u] = initFor[u]
    BY <1>2, <2>1 DEF WorkerStep, TakeJob, WorkerExit, RunControlJob, DownloadSegment,
         DownloadSegmentAndChangeProfile, DownloadInit, DownloadInitFails, RampDown,
         RescheduleActiveJob, SubmitInitFromJob, SubmitJob, ReturnFromRun
  <2> QED BY <2>2, <2>3, TrackSame
<1> QED BY <1>1, <1>2

------------------------------------------------------------------------------
(* The fetcher.                                                            *)
LEMMA AcceptsWhilePlaying ==
  ASSUME TInv, StopInv, NEW t \in Tracks
  PROVE  /\ controller = "playing" => Accepts(t)
         /\ Accepts(t) /\ fetcher # "exited" => controller = "playing"
  BY DEF StopInv, Accepts, TInv, TypeOK

LEMMA FirstOfTodo ==
  ASSUME TInv, todo # <<>>
  PROVE  /\ Head(todo) \in Tracks /\ Tail(todo) \in Seq(Tracks)
         /\ ToSet(todo) = {Head(todo)} \cup ToSet(Tail(todo))
         /\ Tail(todo) = <<>> => ToSet(Tail(todo)) = {}
<1>1. todo \in Seq(Tracks)
  BY DEF TInv, TypeOK
<1>2. /\ Head(todo) \in Tracks /\ Tail(todo) \in Seq(Tracks)
      /\ ToSet(todo) = {Head(todo)} \cup ToSet(Tail(todo))
  BY <1>1, MembersOf
<1>3. Tail(todo) = <<>> => ToSet(Tail(todo)) = {}
  BY <1>2, MembersOf
<1> QED BY <1>2, <1>3

LEMMA NextAtEnd ==
  ASSUME TInv, NEW t \in Tracks, EndOfPeriod(t)
  PROVE  nextSegment[t] = LastOf(currentPeriod) + 1
<1>1. nextSegment[t] \in LastOf(currentPeriod - 1) + 1 .. LastOf(currentPeriod) + 1
  BY DEF TInv, NumberInv
<1>2. LastOf(currentPeriod - 1) \in Nat /\ LastOf(currentPeriod) \in Nat
  BY NumberFacts
<1> QED BY <1>1, <1>2 DEF EndOfPeriod

LEMMA TrackFetchInit ==
  ASSUME TInv, StopInv, FetchInit, NEW u \in Tracks, TrackInv(u)
  PROVE  TrackInv(u)'
<1>1. /\ fetcher = "init" /\ fetcher' = "initDone" /\ todo # <<>>
      /\ UNCHANGED <<todo, worker, currentJob, controller, currentPeriod, nextSegment, done,
                     mStopped, initFor, profileChanged>>
      /\ mJobQueue \in [Tracks -> Seq(Job)] /\ profileChanged \in [Tracks -> BOOLEAN]
  BY DEF FetchInit, stopVars, TInv, TypeOK
<1>2. PICK t \in Tracks : t = Head(todo) /\ t \in ToSet(todo)
  BY <1>1, FirstOfTodo
<1>3. mJobQueue' = IF Accepts(t) THEN [mJobQueue EXCEPT ![t] = Pushed(@, InitJob, profileChanged[t])]
                   ELSE mJobQueue
  BY <1>2 DEF FetchInit, SubmitJob
<1>4. InitJob \in Job /\ InitJob.kind = "init" /\ InitJob.period = currentPeriod
  BY NumberFacts, JobFacts DEF InitJob
<1>5. /\ (Steady(u)' <=> Steady(u)) /\ ~Resetting(u) /\ ~Resetting(u)'
      /\ Covers(u)' => Covers(u) \/ u = t
  BY <1>1, <1>2 DEF Steady, Resetting, Covers
<1>6. CASE u # t \/ ~Accepts(t)
  <2>1. mJobQueue'[u] = mJobQueue[u]
    BY <1>1, <1>3, <1>6
  <2>2. Live(u)' = Live(u)
    BY <1>1, <2>1 DEF Live
  <2>3. Steady(u) => Accepts(t)
    BY AcceptsWhilePlaying DEF Steady
  <2>4. OrderInv(u)' /\ EosInv(u)'
    BY <1>1, <1>5, <2>2, OrderSame DEF TrackInv, SameTrack
  <2>5. DrainInv(u)'
    BY <1>1, <1>5, <2>2 DEF TrackInv, DrainInv, NoSegment
  <2>6. CoverInv(u)'
    <3>1. CASE ~Steady(u)
      BY <1>5, <3>1 DEF CoverInv
    <3>2. CASE Steady(u)
      BY <1>1, <1>5, <1>6, <2>2, <2>3, <3>2, CoverSame DEF TrackInv
    <3> QED BY <3>1, <3>2
  <2> QED BY <2>4, <2>5, <2>6 DEF TrackInv
<1>7. CASE u = t /\ Accepts(t)
  <2>1. mJobQueue'[t] = Pushed(mJobQueue[t], InitJob, profileChanged[t]) /\ profileChanged[t] \in BOOLEAN
    BY <1>1, <1>3, <1>7
  <2>2. PICK k : Inserted(Live(t), Live(t)', k, InitJob)
    BY <1>1, <1>4, <2>1, LivePushed
  <2>3. PICK job : job = InitJob /\ Inserted(Live(t), Live(t)', k, job) /\ job.kind \notin {"segment", "eos"}
    BY <1>4, <2>2
  <2>4. OrderInv(t)' /\ EosInv(t)'
    BY <1>1, <1>5, <1>7, <2>3, OrderInsert DEF TrackInv
  <2>5. PICK s : s = Live(t)
    OBVIOUS
  <2>6. PICK r : r = Live(t)'
    OBVIOUS
  <2>7. Inserted(s, r, k, job) /\ ~IsSegment(job) /\ r[k] = job
    BY <2>3, <2>5, <2>6 DEF IsSegment, Inserted
  <2>8. NoSegment(s) <=> NoSegment(r)
    <3>1. PICK lo \in Int : lo = 0
      OBVIOUS
    <3> QED BY <2>7, <3>1, InsertOther
  <2>9. Steady(t) => NoSegment(s)
    BY <1>1, <1>2, <1>7, <2>5 DEF TrackInv, DrainInv
  <2>10. NoSegment(Live(t))' <=> NoSegment(r)
    BY <2>6, PrimedLive
  <2>11. DrainInv(t)'
    BY <1>1, <1>5, <1>7, <2>8, <2>9, <2>10 DEF DrainInv
  <2>12. CoverInv(t)'
    <3> SUFFICES ASSUME Steady(t) PROVE CoverInv(t)'
      BY <1>5, <1>7 DEF CoverInv
    <3>1. Places(s, r, k)
      BY <2>7, InsertedPlaces
    <3>2. /\ \A i \in 1 .. Len(r) : i # k => \E m \in 1 .. Len(s) : r[i] = s[m]
          /\ k \in 1 .. Len(r) /\ Len(r) \in Nat
      BY <3>1 DEF Places
    <3>3. \A i \in 1 .. Len(s) : s[i].kind \in {"segment", "init"} => s[i].period = currentPeriod
      BY <1>7, <2>5 DEF TrackInv, CoverInv
    <3>4. \A i \in 1 .. Len(r) : r[i].kind \in {"segment", "init"} => r[i].period = currentPeriod
      BY <1>4, <2>3, <2>7, <3>2, <3>3
    <3>5. \A i \in 1 .. Len(r) : ~IsSegment(r[i])
      BY <2>8, <2>9 DEF NoSegment
    <3>6. Covered(t, Len(r) + 1)'
      <4>1. k < Len(r) + 1 /\ r[k].kind = "init"
        BY <1>4, <2>3, <2>7, <3>2
      <4> QED BY <2>6, <3>2, <4>1 DEF Covered
    <3> QED BY <1>1, <2>6, <3>4, <3>5, <3>6 DEF CoverInv
  <2> QED BY <1>7, <2>4, <2>11, <2>12 DEF TrackInv
<1> QED BY <1>6, <1>7

LEMMA TrackFetchInitDone ==
  ASSUME TInv, FetchInitDone, NEW u \in Tracks, TrackInv(u)
  PROVE  TrackInv(u)'
<1>1. /\ fetcher = "initDone" /\ fetcher' = IF Tail(todo) = <<>> THEN "loop" ELSE "init"
      /\ todo # <<>> /\ todo' = Tail(todo)
      /\ UNCHANGED <<worker, mJobQueue, currentJob, controller, currentPeriod, nextSegment, done,
                     mStopped, initFor>>
      /\ profileChanged' = [profileChanged EXCEPT ![Head(todo)] = FALSE]
      /\ profileChanged \in [Tracks -> BOOLEAN]
  BY DEF FetchInitDone, workerVars, stopVars, TInv, TypeOK, TodoInv
<1>2. PICK t \in Tracks : t = Head(todo) /\ t \in ToSet(todo)
  BY <1>1, FirstOfTodo
<1>3. ToSet(todo) = {t} \cup ToSet(todo') /\ (todo' = <<>> => ToSet(todo') = {})
  BY <1>1, <1>2, FirstOfTodo
<1>4. /\ (Steady(u)' <=> Steady(u)) /\ ~Resetting(u) /\ ~Resetting(u)' /\ Live(u)' = Live(u)
  BY <1>1 DEF Steady, Resetting, Live
<1>5. Covers(u)' => Covers(u)
  BY <1>1, <1>2, <1>3 DEF Covers
<1>6. DrainInv(u)'
  BY <1>1, <1>3, <1>4 DEF TrackInv, DrainInv, NoSegment
<1>7. OrderInv(u)' /\ EosInv(u)'
  BY <1>1, <1>4, OrderSame DEF TrackInv, SameTrack
<1>8. CoverInv(u)'
  <2>1. CASE u = t /\ worker[t] = "reschedule" /\ Steady(t)
    <3>1. PICK s : s = Live(t)
      OBVIOUS
    <3>2. NoSegment(s)
      BY <1>1, <1>2, <2>1, <3>1 DEF TrackInv, DrainInv
    <3>3. Len(s) \in Nat /\ Len(s) >= 1 /\ s[1] = currentJob[t] /\ currentJob[t].kind \in {"segment", "init"}
      BY <2>1, <3>1, LiveType DEF TInv, JobInv
    <3>4. s[1].kind = "init" /\ 1 \in 1 .. Len(s) /\ 1 < Len(s) + 1
      BY <3>2, <3>3 DEF NoSegment, IsSegment
    <3>5. Live(t)' = s
      BY <1>4, <2>1, <3>1
    <3>6. Covered(t, Len(s) + 1)'
      BY <3>4, <3>5 DEF Covered
    <3>7. \A i \in 1 .. Len(s) : s[i].kind \in {"segment", "init"} => s[i].period = currentPeriod
      BY <2>1, <3>1 DEF TrackInv, CoverInv
    <3> QED BY <1>1, <2>1, <3>2, <3>5, <3>6, <3>7 DEF CoverInv, NoSegment
  <2>2. CASE u # t \/ worker[t] # "reschedule"
    <3>1. profileChanged'[u] = profileChanged[u] \/ worker[u] # "reschedule"
      BY <1>1, <1>2, <2>2
    <3>2. worker'[u] = worker[u] /\ (worker[u] = "reschedule" /\ profileChanged[u] => profileChanged'[u])
      BY <1>1, <3>1
    <3> QED BY <1>1, <1>4, <1>5, <3>2, CoverSame DEF TrackInv
  <2>3. CASE ~Steady(u)
    BY <1>4, <2>3 DEF CoverInv
  <2> QED BY <2>1, <2>2, <2>3
<1> QED BY <1>6, <1>7, <1>8 DEF TrackInv

LEMMA TrackFetchSegment ==
  ASSUME TInv, StopInv, NEW t \in Tracks, FetchSegment(t), NEW u \in Tracks, TrackInv(u)
  PROVE  TrackInv(u)'
<1>1. /\ fetcher = "loop" /\ ~EndOfPeriod(t)
      /\ UNCHANGED <<fetcher, todo, worker, currentJob, controller, currentPeriod, done,
                     mStopped, initFor, profileChanged>>
      /\ mJobQueue \in [Tracks -> Seq(Job)] /\ nextSegment \in [Tracks -> 1 .. LastOf(MaxPeriods) + 1]
      /\ nextSegment' = [nextSegment EXCEPT ![t] = @ + 1]
      /\ mJobQueue' = IF Accepts(t)
                      THEN [mJobQueue EXCEPT ![t] = Pushed(@, Segment(nextSegment[t]), FALSE)]
                      ELSE mJobQueue
  BY DEF FetchSegment, SubmitJob, stopVars, TInv, TypeOK
<1>2. CASE u # t
  <2>1. mJobQueue'[u] = mJobQueue[u] /\ nextSegment'[u] = nextSegment[u]
    BY <1>1, <1>2
  <2> QED BY <1>1, <2>1, TrackSame
<1>3. CASE u = t
  <2>0. /\ (Steady(t)' <=> Steady(t)) /\ ~Resetting(t) /\ ~Resetting(t)'
        /\ Covers(t) /\ Covers(t)'
    BY <1>1 DEF Steady, Resetting, Covers
  <2>1. DrainInv(t)'
    BY <1>1 DEF DrainInv
  <2>2. PICK s : s = Live(t)
    OBVIOUS
  <2>3. PICK r : r = Live(t)'
    OBVIOUS
  <2>4. ~(HasEos(s) /\ ~mStopped[t])
    <3>1. nextSegment[t] \in Nat /\ nextSegment[t] <= LastOf(currentPeriod)
      BY <1>1, NumberFacts DEF EndOfPeriod
    <3>2. HasEos(s) => currentPeriod = MaxPeriods
      BY <1>3, <2>2 DEF TrackInv, EosInv
    <3>3. HasEos(s) /\ ~mStopped[t] => nextSegment[t] = LastOf(MaxPeriods) + 1
      BY <1>3, <2>2 DEF TrackInv, EosInv
    <3> QED BY <3>1, <3>2, <3>3, NumberFacts
  <2>5. /\ HasEos(Live(t))' <=> HasEos(r)
        /\ NoSegment(Live(t))' <=> NoSegment(r)
        /\ EosLast(Live(t))' <=> EosLast(r)
        /\ Run(Live(t), done[t] + 1, nextSegment[t] - 1)' <=> Run(r, done'[t] + 1, nextSegment'[t] - 1)
    BY <2>3, PrimedLive
  <2>6. CASE ~Accepts(t)
    <3>1. r = s
      BY <1>1, <2>2, <2>3, <2>6 DEF Live
    <3>2. ~Steady(t)
      BY <2>6, AcceptsWhilePlaying DEF Steady
    <3>3. EosLast(s) /\ (HasEos(s) => currentPeriod = MaxPeriods)
      BY <1>3, <2>2 DEF TrackInv, EosInv
    <3> QED BY <1>1, <1>3, <2>0, <2>1, <2>4, <2>5, <3>1, <3>2, <3>3 DEF TrackInv, OrderInv, EosInv, CoverInv
  <2>7. CASE Accepts(t)
    <3>0. PICK job \in Job : job = Segment(nextSegment[t])
      BY <1>1, NumberFacts DEF Segment, Job
    <3>1. job.kind = "segment" /\ IsSegment(job) /\ job.n = nextSegment[t] /\ job.period = currentPeriod
      BY <3>0 DEF Segment, IsSegment
    <3>2. mJobQueue'[t] = Pushed(mJobQueue[t], job, FALSE)
      BY <1>1, <2>7, <3>0
    <3>3. PICK k : Inserted(Live(t), Live(t)', k, job) /\ k = Len(Live(t)) + 1
      BY <1>1, <3>2, LivePushed
    <3>4. Inserted(s, r, k, job) /\ k = Len(s) + 1
      BY <2>2, <2>3, <3>3
    <3>5. ~HasEos(r)
      <4>0. ~HasEos(s)
        BY <2>4, <2>7 DEF Accepts
      <4>1. Places(s, r, k) /\ r[k] = job
        BY <3>4, InsertedPlaces DEF Inserted
      <4>2. \A i \in 1 .. Len(r) : i # k => \E m \in 1 .. Len(s) : r[i] = s[m]
        BY <4>1 DEF Places
      <4> QED BY <3>1, <4>0, <4>1, <4>2 DEF HasEos
    <3>6. EosInv(t)'
      BY <1>1, <2>4, <2>5, <3>5 DEF EosInv, EosLast, HasEos
    <3>7. OrderInv(t)'
      <4>1. PICK lo \in Int, hi \in Int : lo = done[t] + 1 /\ hi = nextSegment[t] - 1
        BY NumberFacts
      <4>2. nextSegment'[t] = nextSegment[t] + 1 /\ job.n = hi + 1 /\ nextSegment'[t] - 1 = hi + 1
        <5>1. nextSegment'[t] = nextSegment[t] + 1 /\ nextSegment[t] \in Nat
          BY <1>1, NumberFacts
        <5> QED BY <3>1, <4>1, <5>1
      <4>3. Steady(t) => Run(s, lo, hi)
        BY <1>3, <2>0, <2>2, <4>1 DEF TrackInv, OrderInv
      <4>4. Steady(t) => Run(r, lo, hi + 1)
        BY <3>1, <3>4, <4>2, <4>3, InsertNext
      <4>5. Steady(t) => Run(r, done'[t] + 1, nextSegment'[t] - 1)
        BY <1>1, <4>1, <4>2, <4>4
      <4> QED BY <2>0, <2>5, <3>5, <4>5 DEF OrderInv
    <3>8. CoverInv(t)'
      <4>1. Inserted(Live(t), Live(t)', Len(Live(t)) + 1, job)
        BY <3>3
      <4> QED BY <1>1, <1>3, <2>0, <3>1, <4>1, CoverAppend DEF TrackInv
    <3> QED BY <1>3, <2>1, <3>6, <3>7, <3>8 DEF TrackInv
  <2> QED BY <2>6, <2>7
<1> QED BY <1>2, <1>3

LEMMA TrackSubmitEos ==
  ASSUME TInv, StopInv, NEW t \in Tracks, SubmitEos(t), NEW u \in Tracks, TrackInv(u)
  PROVE  TrackInv(u)'
<1>1. /\ fetcher = "loop" /\ EndOfPeriod(t) /\ currentPeriod = MaxPeriods /\ t \in Critical
      /\ UNCHANGED <<fetcher, todo, worker, currentJob, controller, currentPeriod, done, nextSegment,
                     mStopped, initFor, profileChanged>>
      /\ mJobQueue \in [Tracks -> Seq(Job)]
      /\ mJobQueue' = IF Accepts(t) THEN [mJobQueue EXCEPT ![t] = Pushed(@, EosJob, FALSE)]
                      ELSE mJobQueue
  BY DEF SubmitEos, SubmitJob, stopVars, TInv, TypeOK
<1>2. CASE u # t \/ ~Accepts(t)
  <2>1. mJobQueue'[u] = mJobQueue[u]
    BY <1>1, <1>2
  <2> QED BY <1>1, <2>1, TrackSame
<1>3. CASE u = t /\ Accepts(t)
  <2>0. /\ Steady(t)' /\ Steady(t) /\ ~Resetting(t) /\ ~Resetting(t)' /\ Covers(t)
    BY <1>1, <1>3, AcceptsWhilePlaying DEF Steady, Resetting, Covers
  <2>1. DrainInv(t)'
    BY <1>1 DEF DrainInv
  <2>2. PICK s : s = Live(t)
    OBVIOUS
  <2>3. PICK r : r = Live(t)'
    OBVIOUS
  <2>4. PICK job \in Job : job = EosJob /\ job.kind = "eos"
    BY NumberFacts, JobFacts DEF EosJob
  <2>5. mJobQueue'[t] = Pushed(mJobQueue[t], job, FALSE)
    BY <1>1, <1>3, <2>4
  <2>6. PICK k : Inserted(Live(t), Live(t)', k, job) /\ k = Len(Live(t)) + 1
    BY <1>1, <2>5, LivePushed
  <2>7. Inserted(s, r, k, job) /\ k = Len(s) + 1 /\ ~IsSegment(job)
    BY <2>2, <2>3, <2>4, <2>6 DEF IsSegment
  <2>8. /\ Len(s) \in Nat /\ Len(r) = Len(s) + 1 /\ r[Len(s) + 1] = job
        /\ \A i \in 1 .. Len(s) : r[i] = s[i]
    BY <2>7 DEF Inserted
  <2>9. /\ HasEos(Live(t))' <=> HasEos(r)
        /\ NoSegment(Live(t))' <=> NoSegment(r)
        /\ EosLast(Live(t))' <=> EosLast(r)
        /\ Run(Live(t), done[t] + 1, nextSegment[t] - 1)' <=> Run(r, done[t] + 1, nextSegment[t] - 1)
    BY <1>1, <2>3, PrimedLive
  <2>10. PICK lo \in Int, hi \in Int : lo = done[t] + 1 /\ hi = nextSegment[t] - 1
    BY NumberFacts
  <2>11. (Run(s, lo, hi) <=> Run(r, lo, hi)) /\ (NoSegment(s) <=> NoSegment(r))
    BY <2>7, InsertOther
  <2>12. OrderInv(t)'
    <3>1. Run(s, lo, hi)
      BY <1>3, <2>0, <2>2, <2>10 DEF TrackInv, OrderInv
    <3> QED BY <2>0, <2>9, <2>10, <2>11, <3>1 DEF OrderInv
  <2>13. EosInv(t)'
    <3>1. nextSegment[t] = LastOf(MaxPeriods) + 1
      BY <1>1, NextAtEnd
    <3>2. EosLast(s)
      BY <1>3, <2>2 DEF TrackInv, EosInv
    <3>3. ASSUME NEW i \in 1 .. Len(r), NEW j \in 1 .. Len(r), r[i].kind = "eos", i < j
          PROVE  ~IsSegment(r[j])
      <4>1. CASE j = Len(s) + 1
        BY <2>7, <2>8, <4>1
      <4>2. CASE j # Len(s) + 1
        <5>1. i \in 1 .. Len(s) /\ j \in 1 .. Len(s)
          BY <2>8, <3>3, <4>2
        <5> QED BY <2>8, <3>2, <3>3, <5>1 DEF EosLast
      <4> QED BY <4>1, <4>2
    <3>4. EosLast(r)
      BY <3>3 DEF EosLast
    <3> QED BY <1>1, <2>0, <2>9, <2>11, <3>1, <3>2, <3>4 DEF EosInv
  <2>14. CoverInv(t)'
    <3>1. Inserted(Live(t), Live(t)', Len(Live(t)) + 1, job) /\ job.kind \notin {"segment", "init"}
      BY <2>4, <2>6
    <3> QED BY <1>1, <1>3, <2>0, <3>1, CoverAppend DEF TrackInv
  <2> QED BY <1>3, <2>1, <2>12, <2>13, <2>14 DEF TrackInv
<1> QED BY <1>2, <1>3

LEMMA TrackLeavesLoop ==
  ASSUME TInv, FetcherExit \/ FetcherEnds \/ WaitForCompletion, NEW u \in Tracks, TrackInv(u)
  PROVE  TrackInv(u)'
<1>1. /\ fetcher = "loop" /\ fetcher' \in {"exited", "complete"}
      /\ UNCHANGED <<mJobQueue, worker, currentJob, controller, currentPeriod, done, nextSegment,
                     mStopped, initFor, profileChanged>>
  BY DEF FetcherExit, FetcherEnds, WaitForCompletion, workerVars, stopVars
<1>2. /\ (Steady(u)' <=> Steady(u)) /\ ~Resetting(u) /\ ~Resetting(u)' /\ ~Covers(u)'
      /\ Live(u)' = Live(u)
  BY <1>1 DEF Steady, Resetting, Covers, Live
<1>3. DrainInv(u)'
  <2>1. CASE fetcher' = "exited"
    BY <2>1 DEF DrainInv
  <2>2. CASE fetcher' = "complete"
    <3>1. todo' = TrackOrder /\ \A v \in Critical : EndOfPeriod(v)
      BY <2>2 DEF FetcherExit, FetcherEnds, WaitForCompletion
    <3>2. u \in ToSet(todo')
      BY <3>1 DEF Tracks
    <3>3. u \in Critical => nextSegment[u] = LastOf(currentPeriod) + 1
      BY <3>1, NextAtEnd
    <3> QED BY <1>1, <1>2, <2>2, <3>2, <3>3 DEF DrainInv, Steady, LastOf
  <2> QED BY <1>1, <2>1, <2>2
<1>4. OrderInv(u)' /\ EosInv(u)'
  BY <1>1, <1>2, OrderSame DEF TrackInv, SameTrack
<1>5. CoverInv(u)'
  BY <1>1, <1>2, CoverSame DEF TrackInv
<1> QED BY <1>3, <1>4, <1>5 DEF TrackInv

LEMMA TrackCompletionSubmit ==
  ASSUME TInv, StopInv, CompletionSubmit, NEW u \in Tracks, TrackInv(u)
  PROVE  TrackInv(u)'
<1>1. /\ fetcher = "complete" /\ todo # <<>>
      /\ UNCHANGED <<worker, currentJob, controller, currentPeriod, done, nextSegment,
                     mStopped, initFor, profileChanged>>
      /\ mJobQueue \in [Tracks -> Seq(Job)]
  BY DEF CompletionSubmit, stopVars, TInv, TypeOK
<1>2. PICK t \in Tracks : t = Head(todo) /\ ToSet(todo) = {t} \cup ToSet(Tail(todo))
  BY <1>1, FirstOfTodo
<1>3. /\ mStopped[t] => todo' = Tail(todo) /\ UNCHANGED <<mJobQueue, fetcher>>
      /\ ~mStopped[t] =>
           /\ mJobQueue' = [mJobQueue EXCEPT ![t] = Append(@, Dummy(IF t \in Critical THEN 1 ELSE 0))]
           /\ fetcher' = IF t \in Critical THEN "completeWait" ELSE fetcher
           /\ todo' = IF t \in Critical THEN todo ELSE Tail(todo)
  BY <1>2 DEF CompletionSubmit, WithDummy
<1>4. /\ (Steady(u)' <=> Steady(u)) /\ ~Resetting(u) /\ ~Resetting(u)' /\ ~Covers(u)'
      /\ fetcher' \in {"complete", "completeWait"}
  BY <1>1, <1>3 DEF Steady, Resetting, Covers
<1>5. CASE u # t \/ mStopped[t]
  <2>1. mJobQueue'[u] = mJobQueue[u]
    BY <1>1, <1>3, <1>5
  <2>2. Live(u)' = Live(u) /\ (Quiet(u)' <=> Quiet(u))
    BY <1>1, <2>1 DEF Live, Quiet
  <2>3. Steady(u) => ~mStopped[t]
    BY DEF StopInv, Steady
  <2>4. DrainInv(u)'
    BY <1>1, <1>2, <1>3, <1>4, <1>5, <2>2, <2>3 DEF TrackInv, DrainInv, LastOf
  <2>5. OrderInv(u)' /\ EosInv(u)'
    BY <1>1, <1>4, <2>2, OrderSame DEF TrackInv, SameTrack
  <2>6. CoverInv(u)'
    BY <1>1, <1>4, <2>2, CoverSame DEF TrackInv
  <2> QED BY <2>4, <2>5, <2>6 DEF TrackInv
<1>6. CASE u = t /\ ~mStopped[t]
  <2>1. PICK job \in Job : job = Dummy(IF t \in Critical THEN 1 ELSE 0) /\ job.kind = "dummy"
    <3>1. (IF t \in Critical THEN 1 ELSE 0) \in {0, 1}
      OBVIOUS
    <3> QED BY <3>1, NumberFacts, JobFacts DEF Dummy
  <2>2. mJobQueue'[t] = Pushed(mJobQueue[t], job, FALSE)
    BY <1>1, <1>3, <1>6, <2>1 DEF Pushed
  <2>3. PICK k : Inserted(Live(t), Live(t)', k, job) /\ k = Len(Live(t)) + 1
    BY <1>1, <2>2, LivePushed
  <2>4. Inserted(Live(t), Live(t)', Len(Live(t)) + 1, job) /\ job.kind \notin {"segment", "eos", "init"}
        /\ ~IsSegment(job)
    BY <2>1, <2>3 DEF IsSegment
  <2>5. OrderInv(t)' /\ EosInv(t)'
    BY <1>1, <1>4, <1>6, <2>3, <2>4, OrderInsert DEF TrackInv
  <2>6. CoverInv(t)'
    BY <1>1, <1>4, <1>6, <2>4, CoverAppend DEF TrackInv
  <2>7. DrainInv(t)'
    BY <1>1, <1>2, <1>3, <1>4, <1>6 DEF TrackInv, DrainInv, LastOf, Steady
  <2> QED BY <1>6, <2>5, <2>6, <2>7 DEF TrackInv
<1> QED BY <1>5, <1>6

LEMMA TrackCompletionReturns ==
  ASSUME TInv, WaitInv, CompletionReturns, NEW u \in Tracks, TrackInv(u)
  PROVE  TrackInv(u)'
<1>1. /\ fetcher = "completeWait" /\ fetcher' = "complete" /\ todo # <<>> /\ todo' = Tail(todo)
      /\ future \in {"value", "cancelled"}
      /\ UNCHANGED <<mJobQueue, worker, currentJob, controller, currentPeriod, done, nextSegment,
                     mStopped, initFor, profileChanged>>
  BY DEF CompletionReturns, workerVars, stopVars, TInv, TodoInv
<1>2. PICK t \in Tracks : t = Head(todo) /\ ToSet(todo) = {t} \cup ToSet(Tail(todo))
  BY <1>1, FirstOfTodo
<1>3. /\ (Steady(u)' <=> Steady(u)) /\ ~Resetting(u) /\ ~Resetting(u)' /\ ~Covers(u)'
      /\ Live(u)' = Live(u) /\ (Quiet(u)' <=> Quiet(u))
  BY <1>1 DEF Steady, Resetting, Covers, Live, Quiet
<1>4. Steady(u) => Quiet(t)
  BY <1>1, <1>2 DEF Steady, WaitInv, FutureInv, ReplyInv, Waiting
<1>5. DrainInv(u)'
  BY <1>1, <1>2, <1>3, <1>4 DEF TrackInv, DrainInv, LastOf
<1>6. OrderInv(u)' /\ EosInv(u)'
  BY <1>1, <1>3, OrderSame DEF TrackInv, SameTrack
<1>7. CoverInv(u)'
  BY <1>1, <1>3, CoverSame DEF TrackInv
<1> QED BY <1>5, <1>6, <1>7 DEF TrackInv

(* A track that has nothing to do and has done all that was submitted.     *)
LEMMA TrackEmpty ==
  ASSUME NEW u \in Tracks, Live(u)' = <<>>,
         Steady(u)' => fetcher' = "init" /\ nextSegment'[u] = done'[u] + 1 /\ u \in ToSet(todo'),
         done'[u] \in Nat
  PROVE  TrackInv(u)'
<1>1. PICK r : r = Live(u)' /\ r = <<>>
  OBVIOUS
<1>2. Len(r) = 0 /\ 1 .. Len(r) = {}
  BY <1>1
<1>3. ~HasEos(r) /\ NoSegment(r) /\ EosLast(r)
  BY <1>2 DEF HasEos, NoSegment, EosLast
<1>4. /\ HasEos(Live(u))' <=> HasEos(r)
      /\ NoSegment(Live(u))' <=> NoSegment(r)
      /\ EosLast(Live(u))' <=> EosLast(r)
      /\ Run(Live(u), done[u] + 1, nextSegment[u] - 1)' <=> Run(r, done'[u] + 1, nextSegment'[u] - 1)
  BY <1>1, PrimedLive
<1>5. Steady(u)' => Run(r, done'[u] + 1, nextSegment'[u] - 1)
  <2> SUFFICES ASSUME Steady(u)' PROVE Run(r, done'[u] + 1, nextSegment'[u] - 1)
    OBVIOUS
  <2>0. done'[u] + 1 \in Int /\ nextSegment'[u] - 1 \in Int /\ done'[u] + 1 = nextSegment'[u] - 1 + 1
    <3>1. PICK d \in Nat : d = done'[u]
      OBVIOUS
    <3>2. nextSegment'[u] = d + 1
      BY <3>1
    <3> QED BY <3>1, <3>2
  <2>1. PICK lo \in Int, hi \in Int : lo = done'[u] + 1 /\ hi = nextSegment'[u] - 1 /\ lo = hi + 1
    BY <2>0
  <2>2. Run(r, lo, hi)
    BY <1>2, <1>3, <2>1, EmptyRun
  <2> QED BY <2>1, <2>2
<1>6. DrainInv(u)'
  BY <1>3, <1>4 DEF DrainInv
<1>7. OrderInv(u)'
  BY <1>1, <1>2, <1>3, <1>4, <1>5 DEF OrderInv
<1>8. EosInv(u)'
  BY <1>3, <1>4 DEF EosInv
<1>9. CoverInv(u)'
  BY <1>1, <1>2 DEF CoverInv, Covers
<1> QED BY <1>6, <1>7, <1>8, <1>9 DEF TrackInv

LEMMA TrackNextPeriod ==
  ASSUME TInv, NextPeriod, NEW u \in Tracks, TrackInv(u)
  PROVE  TrackInv(u)'
<1>1. /\ fetcher = "complete" /\ fetcher' = "init" /\ todo = <<>> /\ todo' = TrackOrder
      /\ UNCHANGED <<mJobQueue, worker, currentJob, controller, done, mStopped>>
      /\ nextSegment'[u] = LastOf(currentPeriod) + 1 /\ currentPeriod < MaxPeriods
  BY DEF NextPeriod, workerVars, stopVars, TInv, TodoInv
<1>2. /\ (Steady(u)' <=> Steady(u)) /\ ~Resetting(u) /\ ~Resetting(u)' /\ Live(u)' = Live(u)
      /\ u \in ToSet(todo') /\ u \notin ToSet(todo)
  <2>1. todo \in Seq(Tracks)
    BY DEF TInv, TypeOK
  <2>2. u \notin ToSet(todo)
    BY <1>1, <2>1, MembersOf
  <2> QED BY <1>1, <2>2 DEF Steady, Resetting, Live, Tracks
<1>3. ~HasEos(Live(u))
  BY <1>1, NumberFacts DEF TrackInv, EosInv
<1>4. CASE Steady(u)
  <2>1. Quiet(u) /\ nextSegment[u] = LastOf(currentPeriod) + 1
    BY <1>1, <1>2, <1>4 DEF TrackInv, DrainInv
  <2>2. PICK s : s = Live(u) /\ s = <<>>
    BY <2>1 DEF Live, Quiet
  <2>3. Len(s) = 0 /\ NoSegment(s)
    BY <2>2 DEF NoSegment
  <2>4. PICK lo \in Int, hi \in Int : lo = done[u] + 1 /\ hi = nextSegment[u] - 1
    BY NumberFacts
  <2>5. Run(s, lo, hi)
    BY <1>2, <1>4, <2>2, <2>4 DEF TrackInv, OrderInv
  <2>6. lo = hi + 1
    BY <2>3, <2>5, EmptyRun
  <2>7. nextSegment'[u] = done'[u] + 1 /\ done'[u] \in Nat
    <3>1. nextSegment[u] \in Nat /\ done[u] \in Nat
      BY NumberFacts
    <3> QED BY <1>1, <2>1, <2>4, <2>6, <3>1
  <2> QED BY <1>1, <1>2, <1>3, <2>2, <2>7, TrackEmpty
<1>5. CASE ~Steady(u)
  <2>1. PICK r : r = Live(u)'
    OBVIOUS
  <2>2. /\ HasEos(Live(u))' <=> HasEos(r)
        /\ EosLast(Live(u))' <=> EosLast(r)
    BY <2>1, PrimedLive
  <2>3. ~HasEos(r) /\ EosLast(r)
    BY <1>2, <1>3, <2>1 DEF TrackInv, EosInv
  <2> QED BY <1>1, <1>2, <1>3, <1>5, <2>2, <2>3 DEF TrackInv, DrainInv, OrderInv, EosInv, CoverInv
<1> QED BY <1>4, <1>5

LEMMA TrackResetWorker ==
  ASSUME TInv, StopInv, NEW t \in Tracks, ResetWorker(t), NEW u \in Tracks, TrackInv(u)
  PROVE  TrackInv(u)'
<1>1. /\ fetcher = "loop" /\ fetcher' \in {"resetWait", "switch"} /\ todo' = <<t>>
      /\ UNCHANGED <<worker, currentJob, controller, currentPeriod, done, nextSegment,
                     mStopped, initFor, profileChanged>>
      /\ mJobQueue \in [Tracks -> Seq(Job)]
      /\ mJobQueue' \in {[mJobQueue EXCEPT ![t] = <<>>], [mJobQueue EXCEPT ![t] = Append(<<>>, Dummy(1))]}
  BY DEF ResetWorker, WithDummy, stopVars, TInv, TypeOK
<1>2. Head(todo') = t /\ (u # t => u \notin ToSet(todo')) /\ t \in ToSet(todo')
  <2>1. todo' \in Seq(Tracks) /\ Len(todo') = 1 /\ todo'[1] = t /\ Head(todo') = t
    BY <1>1
  <2> QED BY <2>1, MembersOf
<1>3. /\ (Steady(u)' <=> Steady(u)) /\ ~Resetting(u) /\ (Resetting(u)' <=> u = t)
      /\ Covers(u) /\ (u = t => ~Covers(u)')
  BY <1>1, <1>2 DEF Steady, Resetting, Covers
<1>4. DrainInv(u)'
  BY <1>1 DEF DrainInv
<1>5. CASE u # t
  <2>1. Live(u)' = Live(u)
    BY <1>1, <1>5 DEF Live
  <2>2. OrderInv(u)' /\ EosInv(u)'
    BY <1>1, <1>3, <1>5, <2>1, OrderSame DEF TrackInv, SameTrack
  <2>3. CoverInv(u)'
    BY <1>1, <1>3, <2>1, CoverSame DEF TrackInv
  <2> QED BY <1>4, <2>2, <2>3 DEF TrackInv
<1>6. CASE u = t
  <2>1. PICK s \in Seq(Job) : s = Live(t)
    BY LiveType
  <2>2. PICK r : r = Live(t)'
    OBVIOUS
  <2>3. /\ Len(r) \in Nat
        /\ \A i \in 1 .. Len(r) :
             \/ i = 1 /\ r[1] = s[1] /\ Len(s) >= 1 /\ worker[t] \in {"running", "reschedule"}
             \/ r[i].kind = "dummy"
    <3>1. /\ mJobQueue'[t] \in Seq(Job) /\ Len(mJobQueue'[t]) \in Nat
          /\ \A i \in 1 .. Len(mJobQueue'[t]) : mJobQueue'[t][i].kind = "dummy"
      <4>1. mJobQueue'[t] = <<>> \/ mJobQueue'[t] = <<Dummy(1)>>
        BY <1>1
      <4>2. Dummy(1) \in Job /\ Dummy(1).kind = "dummy"
        BY NumberFacts, JobFacts DEF Dummy
      <4>3. CASE mJobQueue'[t] = <<>>
        BY <4>3
      <4>4. CASE mJobQueue'[t] = <<Dummy(1)>>
        <5>1. mJobQueue'[t] \in Seq(Job) /\ Len(mJobQueue'[t]) = 1 /\ mJobQueue'[t][1] = Dummy(1)
          BY <4>2, <4>4
        <5> QED BY <4>2, <5>1
      <4> QED BY <4>1, <4>3, <4>4
    <3>2. CASE worker[t] \in {"running", "reschedule"}
      <4>1. r = <<currentJob[t]>> \o mJobQueue'[t] /\ currentJob[t] \in Job /\ s[1] = currentJob[t] /\ Len(s) >= 1
        BY <1>1, <2>1, <2>2, <3>2, LiveType DEF Live
      <4>2. /\ Len(r) = Len(mJobQueue'[t]) + 1 /\ r[1] = currentJob[t]
            /\ \A i \in 1 .. Len(mJobQueue'[t]) + 1 :
                 i # 1 => i - 1 \in 1 .. Len(mJobQueue'[t]) /\ r[i] = mJobQueue'[t][i - 1]
        BY <3>1, <4>1, ConsProperties
      <4> QED BY <3>1, <3>2, <4>1, <4>2
    <3>3. CASE ~(worker[t] \in {"running", "reschedule"})
      <4>1. r = mJobQueue'[t]
        BY <1>1, <2>2, <3>3 DEF Live
      <4> QED BY <3>1, <4>1
    <3> QED BY <3>2, <3>3
  <2>4. /\ HasEos(Live(t))' <=> HasEos(r)
        /\ NoSegment(Live(t))' <=> NoSegment(r)
        /\ EosLast(Live(t))' <=> EosLast(r)
        /\ Run(Live(t), done[t] + 1, nextSegment[t] - 1)' <=> Run(r, done[t] + 1, nextSegment[t] - 1)
    BY <1>1, <2>2, PrimedLive
  <2>5. /\ HasEos(s) => currentPeriod = MaxPeriods
        /\ HasEos(s) /\ ~mStopped[t] => nextSegment[t] = LastOf(MaxPeriods) + 1
        /\ EosLast(s)
    BY <1>6, <2>1 DEF TrackInv, EosInv
  <2>6. PICK lo \in Int, hi \in Int : lo = done[t] + 1 /\ hi = nextSegment[t] - 1
    BY NumberFacts
  <2>7. Steady(t) \/ (HasEos(s) /\ ~mStopped[t]) => Run(s, lo, hi)
    BY <1>3, <1>6, <2>1, <2>6 DEF TrackInv, OrderInv
  <2>8. ASSUME HasEos(r) PROVE HasEos(s) /\ NoSegment(s) /\ NoSegment(r)
    <3>1. PICK i \in 1 .. Len(r) : r[i].kind = "eos"
      BY <2>8 DEF HasEos
    <3>2. s[1].kind = "eos" /\ 1 \in 1 .. Len(s) /\ r[1] = s[1]
      BY <2>1, <2>3, <3>1
    <3>3. HasEos(s)
      BY <3>2 DEF HasEos
    <3>4. ASSUME NEW j \in 1 .. Len(s) PROVE ~IsSegment(s[j])
      <4>1. j = 1 \/ 1 < j
        OBVIOUS
      <4> QED BY <2>5, <3>2, <4>1 DEF EosLast, IsSegment
    <3>5. NoSegment(r)
      BY <2>3, <3>2 DEF NoSegment, IsSegment
    <3> QED BY <3>3, <3>4, <3>5 DEF NoSegment
  <2>9. OrderInv(t)'
    <3>1. ASSUME HasEos(r), ~mStopped[t] PROVE Run(r, lo, hi)
      <4>1. HasEos(s) /\ NoSegment(s) /\ NoSegment(r)
        BY <2>8, <3>1
      <4>2. lo = hi + 1
        BY <2>1, <2>7, <3>1, <4>1, EmptyRun
      <4> QED BY <2>3, <4>1, <4>2, EmptyRun
    <3>2. ASSUME Steady(t), NEW i \in 1 .. Len(r), IsSegment(r[i])
          PROVE  i = 1 /\ r[i].n = done[t] + 1
      <4>1. i = 1 /\ r[1] = s[1] /\ Len(s) >= 1
        BY <2>3, <3>2 DEF IsSegment
      <4>2. s[1].n = lo
        BY <2>1, <2>7, <3>2, <4>1, FirstSegment
      <4> QED BY <2>6, <4>1, <4>2
    <3> QED BY <1>1, <1>3, <1>6, <2>2, <2>4, <2>6, <3>1, <3>2 DEF OrderInv
  <2>10. EosInv(t)'
    <3>1. NoSegment(s) => NoSegment(r)
      BY <2>1, <2>3 DEF NoSegment, IsSegment
    <3>2. EosLast(r)
      BY <2>8 DEF EosLast, HasEos, NoSegment
    <3> QED BY <1>1, <2>4, <2>5, <2>8, <3>1, <3>2 DEF EosInv
  <2>11. CoverInv(t)'
    <3> SUFFICES ASSUME Steady(t) PROVE CoverInv(t)'
      BY <1>3, <1>6 DEF CoverInv
    <3>1. /\ \A i \in 1 .. Len(s) : s[i].kind \in {"segment", "init"} => s[i].period = currentPeriod
          /\ \A i \in 1 .. Len(s) : IsSegment(s[i]) => Covered(t, i)
      BY <1>6, <2>1 DEF TrackInv, CoverInv
    <3>2. ASSUME NEW i \in 1 .. Len(r)
          PROVE  /\ r[i].kind \in {"segment", "init"} => r[i].period = currentPeriod
                 /\ IsSegment(r[i]) => Covered(t, i)'
      <4>1. CASE r[i].kind = "dummy"
        BY <4>1 DEF IsSegment
      <4>2. CASE i = 1 /\ r[1] = s[1] /\ Len(s) >= 1
        <5>1. 1 \in 1 .. Len(s)
          BY <2>1, <4>2
        <5>2. Covered(t, 1) => Covered(t, 1)'
          BY <1>1 DEF Covered
        <5> QED BY <3>1, <4>2, <5>1, <5>2
      <4> QED BY <2>3, <4>1, <4>2
    <3> QED BY <1>1, <1>3, <1>6, <2>2, <3>2 DEF CoverInv
  <2> QED BY <1>4, <1>6, <2>9, <2>10, <2>11 DEF TrackInv
<1> QED BY <1>5, <1>6

LEMMA TrackResetReturns ==
  ASSUME TInv, WaitInv, ResetReturns, NEW u \in Tracks, TrackInv(u)
  PROVE  TrackInv(u)'
<1>1. /\ fetcher = "resetWait" /\ fetcher' = IF future = "value" THEN "switch" ELSE "terminated"
      /\ future \in {"value", "cancelled"}
      /\ UNCHANGED <<mJobQueue, worker, currentJob, controller, currentPeriod, done, nextSegment,
                     mStopped, initFor, profileChanged, todo>>
  BY DEF ResetReturns, workerVars, stopVars
<1>2. /\ (Steady(u)' <=> Steady(u)) /\ Live(u)' = Live(u)
      /\ Steady(u) => fetcher' = "switch"
      /\ Resetting(u)' => Resetting(u)
      /\ Steady(u) => (Resetting(u)' <=> Resetting(u)) /\ (Covers(u)' <=> Covers(u))
  BY <1>1 DEF Steady, Live, Resetting, Covers, WaitInv, FutureInv
<1>3. DrainInv(u)'
  BY <1>1 DEF DrainInv
<1>4. OrderInv(u)' /\ EosInv(u)'
  <2>1. PICK r : r = Live(u)' /\ r = Live(u)
    BY <1>2
  <2>2. /\ HasEos(Live(u))' <=> HasEos(r)
        /\ NoSegment(Live(u))' <=> NoSegment(r)
        /\ EosLast(Live(u))' <=> EosLast(r)
        /\ Run(Live(u), done[u] + 1, nextSegment[u] - 1)' <=> Run(r, done[u] + 1, nextSegment[u] - 1)
    BY <1>1, <2>1, PrimedLive
  <2>3. EosInv(u)'
    BY <1>1, <1>2, <2>1, <2>2 DEF TrackInv, EosInv
  <2>4. OrderInv(u)'
    BY <1>1, <1>2, <2>1, <2>2 DEF TrackInv, OrderInv
  <2> QED BY <2>3, <2>4
<1>5. CoverInv(u)'
  BY <1>1, <1>2, CoverSame DEF TrackInv
<1> QED BY <1>3, <1>4, <1>5 DEF TrackInv

LEMMA TrackSwitchTrack ==
  ASSUME TInv, StopInv, WaitInv, SwitchTrack, NEW u \in Tracks, TrackInv(u)
  PROVE  TrackInv(u)'
<1>1. /\ fetcher = "switch" /\ fetcher' = "init" /\ todo # <<>> /\ Len(todo) = 1
      /\ UNCHANGED <<mJobQueue, worker, currentJob, controller, currentPeriod, mStopped, todo>>
      /\ todo \in Seq(Tracks)
      /\ profileChanged \in [Tracks -> BOOLEAN] /\ initFor \in [Tracks -> 0 .. MaxPeriods]
      /\ nextSegment \in [Tracks -> 1 .. LastOf(MaxPeriods) + 1] /\ done \in [Tracks -> 0 .. LastOf(MaxPeriods)]
  BY DEF SwitchTrack, workerVars, stopVars, TInv, TypeOK, TodoInv
<1>2. PICK t \in Tracks : t = Head(todo) /\ ToSet(todo) = {t}
  <2>1. Head(todo) \in Tracks /\ ToSet(todo) = {Head(todo)} \cup ToSet(Tail(todo)) /\ Tail(todo) \in Seq(Tracks)
    BY <1>1, FirstOfTodo
  <2>2. Len(Tail(todo)) = 0
    BY <1>1
  <2>3. Tail(todo) = <<>>
    BY <2>1, <2>2, EmptySeq
  <2> QED BY <2>1, <2>3, FirstOfTodo, <1>1
<1>3. /\ (Steady(u)' <=> Steady(u)) /\ Live(u)' = Live(u) /\ ~Resetting(u)'
      /\ Covers(u)' => Covers(u)
  BY <1>1 DEF Steady, Live, Resetting, Covers
<1>4. CASE u # t
  <2>1. /\ profileChanged'[u] = profileChanged[u] /\ initFor'[u] = initFor[u]
        /\ nextSegment'[u] = nextSegment[u] /\ done'[u] = done[u]
    BY <1>1, <1>2, <1>4 DEF SwitchTrack
  <2>2. DrainInv(u)'
    BY <1>1, <1>2, <1>4 DEF DrainInv
  <2>3. ~Resetting(u)
    BY <1>2, <1>4 DEF Resetting
  <2>4. OrderInv(u)' /\ EosInv(u)'
    BY <1>1, <1>3, <2>1, <2>3, OrderSame DEF TrackInv, SameTrack
  <2>5. CoverInv(u)'
    BY <1>1, <1>3, <2>1, CoverSame DEF TrackInv
  <2> QED BY <2>2, <2>4, <2>5 DEF TrackInv
<1>5. CASE u = t
  <2>1. nextSegment'[t] = done'[t] + 1 /\ done'[t] \in Nat
    <3>1. PICK n \in ResumePoints(t) : nextSegment'[t] = n /\ done'[t] = n - 1
      BY <1>1, <1>2 DEF SwitchTrack
    <3>2. n \in Nat /\ n >= 1
      BY NumberFacts DEF ResumePoints
    <3> QED BY <3>1, <3>2
  <2>2. CASE ~mStopped[t]
    <3>1. Live(t)' = <<>>
      BY <1>1, <1>2, <1>3, <1>5, <2>2 DEF WaitInv, ReplyInv, ResetIsBarrier, Live
    <3> QED BY <1>1, <1>2, <1>5, <2>1, <3>1, TrackEmpty
  <2>3. CASE mStopped[t]
    <3>1. PICK r : r = Live(t)' /\ r = Live(t)
      BY <1>3, <1>5
    <3>2. /\ HasEos(Live(t))' <=> HasEos(r)
          /\ NoSegment(Live(t))' <=> NoSegment(r)
          /\ EosLast(Live(t))' <=> EosLast(r)
      BY <3>1, PrimedLive
    <3>3. (HasEos(r) => currentPeriod = MaxPeriods) /\ EosLast(r)
      BY <1>5, <3>1 DEF TrackInv, EosInv
    <3>4. ~Steady(t) /\ mStopped'[t]
      BY <1>1, <2>3 DEF StopInv, Steady
    <3>5. OrderInv(t)'
      BY <1>3, <1>5, <3>4 DEF OrderInv
    <3>6. EosInv(t)'
      BY <1>1, <1>3, <1>5, <3>2, <3>3, <3>4 DEF EosInv
    <3> QED BY <1>3, <1>5, <3>4, <3>5, <3>6 DEF TrackInv, DrainInv, CoverInv
  <2> QED BY <2>2, <2>3
<1> QED BY <1>4, <1>5

LEMMA TrackFetcher ==
  ASSUME TInv, StopInv, WaitInv, FetcherStep \/ \E t \in Switchable : ResetWorker(t),
         NEW u \in Tracks, TrackInv(u)
  PROVE  TrackInv(u)'
<1>1. CASE \E t \in Tracks : FetchSegment(t) \/ SubmitEos(t)
  BY <1>1, TrackFetchSegment, TrackSubmitEos
<1>2. CASE \E t \in Switchable : ResetWorker(t)
  BY <1>2, TrackResetWorker, TrackFacts
<1>3. CASE FetchInit \/ FetchInitDone \/ FetcherExit \/ FetcherEnds \/ WaitForCompletion
  BY <1>3, TrackFetchInit, TrackFetchInitDone, TrackLeavesLoop
<1>4. CASE CompletionSubmit \/ CompletionReturns \/ NextPeriod \/ ResetReturns \/ SwitchTrack
  BY <1>4, TrackCompletionSubmit, TrackCompletionReturns, TrackNextPeriod, TrackResetReturns,
     TrackSwitchTrack
<1> QED BY <1>1, <1>2, <1>3, <1>4 DEF FetcherStep

LEMMA TrackStop ==
  ASSUME TInv, StopWorkers \/ StopStep \/ InitializeWorkers, NEW u \in Tracks, TrackInv(u)
  PROVE  TrackInv(u)'
<1>0. mJobQueue \in [Tracks -> Seq(Job)] /\ stopping \in Seq(Tracks) /\ mStopped \in [Tracks -> BOOLEAN]
  BY DEF TInv, TypeOK
<1>1. CASE StopWorkers \/ CopyWorkers \/ Pause \/ StopWorker \/ RemoveWorkers
           \/ (JoinWorker /\ u # Head(stopping))
  <2>1. /\ UNCHANGED <<worker, currentJob, fetcher, todo, currentPeriod, done, nextSegment>>
        /\ mStopped[u] => mStopped'[u]
        /\ mJobQueue'[u] = mJobQueue[u] /\ controller' # "playing"
    BY <1>0, <1>1 DEF StopWorkers, CopyWorkers, Pause, StopWorker, RemoveWorkers, JoinWorker,
         workerVars, fetcherVars
  <2>2. ~Steady(u)' /\ Live(u)' = Live(u) /\ (Resetting(u)' <=> Resetting(u))
    BY <2>1 DEF Steady, Live, Resetting
  <2>3. OrderInv(u)' /\ EosInv(u)'
    BY <2>1, <2>2, OrderSame DEF TrackInv, SameTrack
  <2> QED BY <2>2, <2>3 DEF TrackInv, DrainInv, CoverInv
<1>2. CASE JoinWorker /\ u = Head(stopping)
  <2>1. /\ UNCHANGED <<worker, fetcher, todo, currentPeriod, done, nextSegment>>
        /\ mJobQueue'[u] = <<>> /\ controller' # "playing" /\ worker[u] = "exited"
    BY <1>0, <1>2 DEF JoinWorker, fetcherVars
  <2>2. ~Steady(u)' /\ Live(u)' = <<>>
    BY <2>1 DEF Steady, Live
  <2> QED BY <2>1, <2>2, NumberFacts, TrackEmpty
<1>3. CASE InitializeWorkers
  <2>1. /\ worker'[u] = "idle" /\ mJobQueue'[u] = <<>> /\ fetcher' = "init" /\ nextSegment'[u] = 1
        /\ done'[u] = 0 /\ u \in ToSet(todo')
    BY <1>3 DEF InitializeWorkers, Tracks
  <2>2. Live(u)' = <<>>
    BY <2>1 DEF Live
  <2> QED BY <2>1, <2>2, TrackEmpty
<1> QED BY <1>1, <1>2, <1>3 DEF StopStep

LEMMA TrackInit == Init => \A u \in Tracks : TrackInv(u)
<1> SUFFICES ASSUME Init, NEW u \in Tracks PROVE TrackInv(u)
  OBVIOUS
<1>1. /\ Live(u) = <<>> /\ fetcher = "init" /\ nextSegment[u] = 1
      /\ done[u] = 0 /\ u \in ToSet(todo)
  BY DEF Init, Live, Tracks
<1>2. PICK s : s = Live(u) /\ s = <<>>
  BY <1>1
<1>3. Len(s) = 0 /\ 1 .. Len(s) = {}
  BY <1>2
<1>4. ~HasEos(s) /\ NoSegment(s) /\ EosLast(s)
  BY <1>3 DEF HasEos, NoSegment, EosLast
<1>5. Run(s, 1, 0)
  BY <1>3, <1>4 DEF Run
<1>6. done[u] + 1 = 1 /\ nextSegment[u] - 1 = 0
  BY <1>1
<1>7. DrainInv(u)
  BY <1>1, <1>2, <1>4 DEF DrainInv
<1>8. OrderInv(u)
  BY <1>1, <1>2, <1>4, <1>5, <1>6 DEF OrderInv, Resetting
<1>9. EosInv(u)
  BY <1>1, <1>2, <1>4 DEF EosInv
<1>10. CoverInv(u)
  BY <1>1, <1>2, <1>3 DEF CoverInv, Covers
<1> QED BY <1>7, <1>8, <1>9, <1>10 DEF TrackInv

(* All that is said of the tracks.                                         *)
IInv == /\ TInv /\ StopInv /\ WaitInv
        /\ \A u \in Tracks : TrackInv(u)

LEMMA TrackStep ==
  TInv /\ StopInv /\ WaitInv /\ (\A u \in Tracks : TrackInv(u)) /\ [Next]_vars =>
    (\A u \in Tracks : TrackInv(u))'
<1> SUFFICES ASSUME TInv, StopInv, WaitInv, \A u \in Tracks : TrackInv(u), [Next]_vars, NEW u \in Tracks
             PROVE  TrackInv(u)'
  OBVIOUS
<1>1. CASE Next
  <2>1. CASE \E t \in Tracks : WorkerStep(t)
    BY <2>1, TrackWorker
  <2>2. CASE FetcherStep \/ \E t \in Switchable : ResetWorker(t)
    BY <2>2, TrackFetcher
  <2>3. CASE StopWorkers \/ StopStep \/ InitializeWorkers
    BY <2>3, TrackStop
  <2> QED BY <1>1, <2>1, <2>2, <2>3 DEF Next
<1>2. CASE UNCHANGED vars
  BY <1>2, TrackSame DEF vars, workerVars, fetcherVars, stopVars
<1> QED BY <1>1, <1>2

LEMMA WorkerInvariant == Spec => []IInv
<1>1. Init => IInv
  BY TypeInit, StopInit, WaitInit, TrackInit DEF IInv
<1>2. IInv /\ [Next]_vars => IInv'
  BY TypeStep, StopInvStep, WaitStep, TrackStep DEF IInv
<1> QED BY <1>1, <1>2, PTL DEF Spec

(* Through ramp-downs, resets and periods, the segment a track downloads   *)
(* is the successor of the one it downloaded last, until Stop.  What is    *)
(* queued or running is, in order, everything submitted and not done.      *)
THEOREM SegmentsArriveInOrder == Spec => []SegmentsInOrder
<1>1. IInv => SegmentsInOrder
  <2> SUFFICES ASSUME IInv, controller = "playing", NEW t \in Critical, RunsSegment(t)
               PROVE  currentJob[t].n = done[t] + 1
    BY DEF SegmentsInOrder
  <2>0. t \in Tracks /\ TInv /\ TrackInv(t) /\ Steady(t)
    BY TrackFacts DEF IInv, Steady
  <2>1. PICK s : s = Live(t)
    OBVIOUS
  <2>2. Len(s) \in Nat /\ Len(s) >= 1 /\ s[1] = currentJob[t] /\ IsSegment(s[1])
    BY <2>0, <2>1, LiveType DEF RunsSegment, Running, IsSegment
  <2>3. CASE Resetting(t)
    <3>1. 1 \in 1 .. Len(s)
      BY <2>2
    <3> QED BY <2>0, <2>1, <2>2, <2>3, <3>1 DEF TrackInv, OrderInv
  <2>4. CASE ~Resetting(t)
    <3>1. PICK lo \in Int, hi \in Int : lo = done[t] + 1 /\ hi = nextSegment[t] - 1
      BY <2>0, NumberFacts
    <3>2. Run(s, lo, hi)
      BY <2>0, <2>1, <2>4, <3>1 DEF TrackInv, OrderInv
    <3> QED BY <2>2, <3>1, <3>2, FirstSegment
  <2> QED BY <2>3, <2>4
<1> QED BY <1>1, WorkerInvariant, PTL

(* While downloads are enabled, the init segment of a segment's own period *)
(* and profile is downloaded before it: jobs that overtake others are init *)
(* jobs, and an init job overtakes no segment of an earlier period.        *)
THEOREM InitComesFirst == Spec => []InitBeforeSegment
<1>1. IInv => InitBeforeSegment
  <2> SUFFICES ASSUME IInv, controller = "playing", NEW t \in Critical, RunsSegment(t)
               PROVE  initFor[t] = currentJob[t].period
    BY DEF InitBeforeSegment
  <2>0. t \in Tracks /\ TInv /\ TrackInv(t) /\ Steady(t) /\ worker[t] = "running"
    BY TrackFacts DEF IInv, Steady, RunsSegment, Running
  <2>1. PICK s : s = Live(t)
    OBVIOUS
  <2>2. /\ Len(s) \in Nat /\ Len(s) >= 1 /\ s[1] = currentJob[t] /\ IsSegment(s[1])
        /\ s[1].kind = "segment"
    BY <2>0, <2>1, LiveType DEF RunsSegment, Running, IsSegment
  <2>3. 1 \in 1 .. Len(s)
    BY <2>2
  <2>4. s[1].period = currentPeriod /\ Covered(t, 1)
    BY <2>0, <2>1, <2>2, <2>3 DEF TrackInv, CoverInv
  <2>5. initFor[t] = currentPeriod
    BY <2>0, <2>1, <2>4 DEF Covered
  <2> QED BY <2>2, <2>4, <2>5
<1> QED BY <1>1, WorkerInvariant, PTL

(* The worker that marks the end of its track runs the EOS job, which has  *)
(* no segment behind it; as everything submitted and not done is before a  *)
(* worker, nothing is left.                                                *)
LEMMA EosStep ==
  ASSUME IInv, [Next]_vars, NEW t \in Tracks, ~eosReached[t], eosReached'[t], ~mStopped[t]
  PROVE  done[t] = LastOf(MaxPeriods)
<1>0. eosReached \in [Tracks -> BOOLEAN] /\ TInv /\ TrackInv(t)
  BY DEF IInv, TInv, TypeOK
<1>1. \E u \in Tracks : RunControlJob(u)
  <2>1. CASE \E u \in Tracks : WorkerStep(u)
    BY <1>0, <2>1 DEF WorkerStep, TakeJob, WorkerExit, DownloadSegment,
         DownloadSegmentAndChangeProfile, DownloadInit, DownloadInitFails, RampDown,
         RescheduleActiveJob, SubmitInitFromJob
  <2>2. CASE FetcherStep \/ \E u \in Switchable : ResetWorker(u)
    BY <1>0, <2>2 DEF FetcherStep, FetchInit, FetchInitDone, FetchSegment, SubmitEos,
         FetcherExit, FetcherEnds, WaitForCompletion, CompletionSubmit, CompletionReturns,
         NextPeriod, ResetWorker, ResetReturns, SwitchTrack
  <2>3. CASE StopWorkers \/ StopStep \/ InitializeWorkers
    BY <1>0, <2>3 DEF StopWorkers, StopStep, CopyWorkers, Pause, StopWorker, JoinWorker,
         RemoveWorkers, InitializeWorkers
  <2>4. CASE UNCHANGED vars
    BY <2>4 DEF vars
  <2> QED BY <2>1, <2>2, <2>3, <2>4 DEF Next
<1>2. worker[t] = "running" /\ currentJob[t].kind = "eos"
  BY <1>0, <1>1 DEF RunControlJob, Running
<1>3. PICK s : s = Live(t)
  OBVIOUS
<1>4. Len(s) \in Nat /\ Len(s) >= 1 /\ s[1] = currentJob[t]
  BY <1>0, <1>2, <1>3, LiveType
<1>5. 1 \in 1 .. Len(s) /\ HasEos(s)
  BY <1>2, <1>4 DEF HasEos
<1>6. /\ Run(s, done[t] + 1, nextSegment[t] - 1) /\ EosLast(s)
      /\ nextSegment[t] = LastOf(MaxPeriods) + 1
  BY <1>0, <1>3, <1>5 DEF TrackInv, OrderInv, EosInv
<1>7. NoSegment(s)
  <2> SUFFICES ASSUME NEW j \in 1 .. Len(s) PROVE ~IsSegment(s[j])
    BY DEF NoSegment
  <2>1. j = 1 \/ 1 < j
    BY <1>4
  <2> QED BY <1>2, <1>4, <1>5, <1>6, <2>1 DEF EosLast, IsSegment
<1>8. PICK lo \in Int, hi \in Int : lo = done[t] + 1 /\ hi = nextSegment[t] - 1
  BY <1>0, NumberFacts
<1>9. lo = hi + 1
  BY <1>4, <1>6, <1>7, <1>8, EmptyRun
<1> QED BY <1>0, <1>6, <1>8, <1>9, NumberFacts

(* Whenever the end of a track is marked its last segment has been         *)
(* downloaded or given up: also when that segment was rescheduled behind   *)
(* the back of the queued EOS job, and when the track was switched and     *)
(* sent back to the play position.  A worker that Stop has told to leave   *)
(* is the exception, as ResetWorker does not wait for it.                  *)
THEOREM EosComesLast == Spec => EosAfterLastSegment
<1>1. IInv /\ [Next]_vars =>
        [\A t \in Tracks : ~eosReached[t] /\ eosReached'[t] /\ ~mStopped[t] =>
           done[t] = LastOf(MaxPeriods)]_vars
  BY EosStep
<1> QED BY <1>1, WorkerInvariant, PTL DEF Spec, EosAfterLastSegment

=============================================================================
