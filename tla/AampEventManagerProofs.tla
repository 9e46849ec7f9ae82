----------------------- MODULE AampEventManagerProofs -----------------------
(***************************************************************************)
(* Proofs about AampEventManager, for any threads, listeners and event     *)
(* types and any bounds.                                                   *)
(***************************************************************************)
EXTENDS AampEventManager, Integers, SequenceTheorems, FiniteSetTheorems,
        WellFoundedInduction, TLAPS

Pushing == {t \in Threads : send[t].at \in {"push", "pushed"}}
Pushed  == {t \in Threads : send[t].at = "pushed"}

(* A thread that has got as far as queueing, or delivering, has an event;  *)
(* one that enters a source id has it from GLib.                           *)
SendInv ==
  \A t \in Threads :
    /\ send[t].at \in {"push", "sync"} => send[t].event \in Event
    /\ send[t].at = "added" => send[t].source \in 1 .. lastSource

(* The source that is being dispatched is not waiting to be dispatched.    *)
LoopInv ==
  /\ loop.at = "dispatch" => /\ loop.source \in 1 .. lastSource
                             /\ loop.source \notin sources
  /\ loop.at = "popped" => loop.event \in Event

(* An accepted event has had its source, or is still to have it.           *)
SourceBound == lastSource + Cardinality(Pushing) <= sent

(* No source is entered by two threads.                                    *)
OneSender ==
  \A t, u \in Threads :
    /\ send[t].at = "added"
    /\ send[u].at = "added"
    /\ send[t].source = send[u].source
    => t = u

(* A source that is entered as done does not run any more.                 *)
DoneIsGone == \A id \in sources : mPendingAsyncEvents[id] # "done"

(* The manager is destroyed when nothing is under way.                     *)
DeadInv ==
  ~alive => /\ sources = {}
            /\ \A t \in Threads : send[t] = Idle
            /\ loop = Idle

TInv == TypeOK /\ SendInv /\ LoopInv /\ SourceBound
BInv == OneSender /\ DoneIsGone /\ LiveIsPending /\ AssertionsHold

Call == [event : Event, rest : Seq(Listeners)]

------------------------------------------------------------------------------
(* Sequences.                                                              *)

(* A non-empty set of indices has a least one, so Min is well defined.     *)
LEMMA MinOfIndices ==
  ASSUME NEW I \in SUBSET Nat, I # {}
  PROVE  Min(I) \in I
<1> DEFINE R == {ss \in Nat \X Nat : ss[1] < ss[2]}
<1>1. IsWellFoundedOn(R, Nat)
  BY NatLessThanWellFounded, Zenon DEF OpToRel
<1> HIDE DEF R
<1>2. PICK x \in I : \A y \in I : ~ (<<y, x>> \in R)
  BY <1>1, WFMin
<1>3. \A y \in I : x =< y
  <2>1. \A y \in I : x \in Nat /\ y \in Nat /\ ~(y < x)
    BY <1>2 DEF R
  <2> QED BY <2>1
<1> QED BY <1>3 DEF Min

(* Erasing one element of a sequence leaves a sequence.                    *)
LEMMA RemoveAtType ==
  ASSUME NEW S, NEW s \in Seq(S), NEW k \in 1 .. Len(s)
  PROVE  RemoveAt(s, k) \in Seq(S)
<1>1. SubSeq(s, 1, k - 1) \in Seq(S) /\ SubSeq(s, k + 1, Len(s)) \in Seq(S)
  OBVIOUS
<1> QED BY <1>1, ConcatProperties DEF RemoveAt

(* Removing a registration leaves a list of listeners.                     *)
LEMMA RemoveFirstType ==
  ASSUME NEW S, NEW s \in Seq(S), NEW e
  PROVE  RemoveFirst(s, e) \in Seq(S)
<1>1. CASE \E i \in 1 .. Len(s) : s[i] = e
  <2> DEFINE I == {i \in 1 .. Len(s) : s[i] = e}
             k == SelectInSeq(s, LAMBDA v : v = e)
  <2>1. I # {} /\ I \in SUBSET Nat
    BY <1>1
  <2>2. k = Min(I)
    BY <2>1 DEF SelectInSeq
  <2>3. k \in 1 .. Len(s)
    BY <2>1, <2>2, MinOfIndices
  <2>4. RemoveFirst(s, e) = RemoveAt(s, k)
    BY <1>1 DEF RemoveFirst
  <2> HIDE DEF k
  <2> QED BY <2>3, <2>4, RemoveAtType
<1>2. CASE ~ \E i \in 1 .. Len(s) : s[i] = e
  BY <1>2 DEF RemoveFirst
<1> QED BY <1>1, <1>2

(* The list SendEventSync makes holds listeners.                           *)
LEMMA SnapshotType ==
  ASSUME TypeOK, NEW type \in Types
  PROVE  Snapshot(type) \in Seq(Listeners)
<1>1. \A k \in Keys : Reverse(mEventListeners[k]) \in Seq(Listeners)
  <2> SUFFICES ASSUME NEW k \in Keys
               PROVE  Reverse(mEventListeners[k]) \in Seq(Listeners)
    OBVIOUS
  <2>1. mEventListeners[k] \in Seq(Listeners)
    BY DEF TypeOK
  <2> QED BY <2>1 DEF Reverse
<1>2. Reverse(mEventListeners["ALL_EVENTS"]) \in Seq(Listeners)
      /\ Reverse(mEventListeners[type]) \in Seq(Listeners)
  BY <1>1 DEF Keys
<1> QED BY <1>2 DEF Snapshot

LEMMA DeliverType ==
  ASSUME TypeOK, NEW e \in Event, Deliver(e)
  PROVE  calls' \in Seq(Call)
<1>1. Snapshot(e.type) \in Seq(Listeners)
  BY SnapshotType DEF Event
<1>2. [event |-> e, rest |-> Snapshot(e.type)] \in Call
  BY <1>1 DEF Call
<1>3. calls \in Seq(Call)
  BY DEF TypeOK, Call
<1> QED BY <1>2, <1>3 DEF Deliver

------------------------------------------------------------------------------
(* How the set of threads at one stage of SendEvent changes.               *)

LEMMA ThreadsFinite == IsFiniteSet(Threads)
BY EventManagerAssumption, FS_AddElement DEF Threads

LEMMA PushingFinite ==
  /\ IsFiniteSet(Pushing) /\ Cardinality(Pushing) \in Nat
  /\ IsFiniteSet(Pushed) /\ Cardinality(Pushed) \in Nat
BY ThreadsFinite, FS_Subset, FS_CardinalityType DEF Pushing, Pushed

------------------------------------------------------------------------------
(* Types.                                                                  *)

LEMMA TypeInit == Init => TInv
<1> SUFFICES ASSUME Init PROVE TInv
  OBVIOUS
<1>a. Idle \in ThreadState /\ Idle \in LoopState
  BY DEF Idle, ThreadState, LoopState
<1>b. mEventWorkerDataQue \in Seq(Event) /\ calls \in Seq(Call)
  BY DEF Init
<1>c. mEventListeners \in [Keys -> Seq(Listeners)]
  BY DEF Init
<1>d. /\ send \in [Threads -> ThreadState] /\ loop \in LoopState
      /\ mPendingAsyncEvents \in [SourceIds -> {"none", "pending", "done"}]
  BY <1>a DEF Init
<1>e. latest \in [Listeners -> [Threads -> 0 .. MaxEvents]]
  BY EventManagerAssumption DEF Init
<1>f. /\ lastSource \in 0 .. MaxEvents
      /\ settings \in 0 .. MaxSettings /\ sent \in 0 .. MaxEvents
  BY EventManagerAssumption DEF Init
<1>h. /\ sources \subseteq 1 .. lastSource /\ flushed \subseteq Event
      /\ alive \in BOOLEAN /\ mIsFakeTune \in BOOLEAN
      /\ mAsyncTuneEnabled \in BOOLEAN
  BY Zenon DEF Init
<1>g. \A id \in SourceIds : mPendingAsyncEvents[id] = "none"
  BY DEF Init
<1>1. TypeOK
  BY <1>b, <1>c, <1>d, <1>e, <1>f, <1>g, <1>h DEF TypeOK, Call
<1>2. SendInv /\ LoopInv
  BY DEF Init, SendInv, LoopInv, Idle
<1>3. Pushing = {}
  BY DEF Init, Pushing, Idle
<1>4. SourceBound
  BY <1>3, FS_EmptySet DEF Init, SourceBound
<1> QED BY <1>1, <1>2, <1>4 DEF TInv

(* Changes of listeners and settings.                                      *)
LEMMA TypeSettings ==
  ASSUME TInv, Register \/ Configure
  PROVE  TInv'
<1> USE EventManagerAssumption
<1>1. ASSUME NEW k \in Keys, NEW l \in Listeners, AddEventListener(k, l)
      PROVE  TInv'
  <2>1. <<l>> \o mEventListeners[k] \in Seq(Listeners)
    BY DEF TInv, TypeOK
  <2>2. mEventListeners' \in [Keys -> Seq(Listeners)]
    BY <1>1, <2>1 DEF TInv, TypeOK, AddEventListener
  <2> QED BY <1>1, <2>2
          DEF AddEventListener, Change, glibVars, TInv, TypeOK, SendInv,
              LoopInv, SourceBound, Pushing
<1>2. ASSUME NEW k \in Keys, NEW l \in Listeners, RemoveEventListener(k, l)
      PROVE  TInv'
  <2>1. RemoveFirst(mEventListeners[k], l) \in Seq(Listeners)
    BY RemoveFirstType DEF TInv, TypeOK
  <2>2. mEventListeners' \in [Keys -> Seq(Listeners)]
    BY <1>2, <2>1 DEF TInv, TypeOK, RemoveEventListener
  <2> QED BY <1>2, <2>2
          DEF RemoveEventListener, Change, glibVars, TInv, TypeOK, SendInv,
              LoopInv, SourceBound, Pushing
<1>3. ASSUME NEW b \in BOOLEAN, SetFakeTuneFlag(b) \/ SetAsyncTuneState(b)
      PROVE  TInv'
  <2>1. TypeOK'
    <3>1. CASE SetFakeTuneFlag(b)
      BY <3>1 DEF SetFakeTuneFlag, Change, glibVars, TInv, TypeOK
    <3>2. CASE SetAsyncTuneState(b)
      BY <3>2 DEF SetAsyncTuneState, Change, glibVars, TInv, TypeOK
    <3> QED BY <1>3, <3>1, <3>2
  <2>2. UNCHANGED <<send, loop, glibVars, sent>>
    BY <1>3 DEF SetFakeTuneFlag, SetAsyncTuneState
  <2> QED BY <2>1, <2>2 DEF glibVars, TInv, SendInv, LoopInv, SourceBound,
                            Pushing
<1> QED BY <1>1, <1>2, <1>3 DEF Register, Configure

(* The steps of a thread in SendEvent.                                     *)
LEMMA TypeSend ==
  ASSUME TInv, Send
  PROVE  TInv'
<1> USE EventManagerAssumption
<1>1. PICK t \in Threads, type \in Types,
           mode \in {"DEFAULT_MODE", "SYNC_MODE", "ASYNC_MODE"} :
        SendEvent(t, type, mode)
  BY DEF Send
<1> DEFINE e == [n |-> sent', type |-> type, by |-> t]
           a == IF IsSync(t, mode) THEN "sync" ELSE "push"
<1>2. /\ sent' = sent + 1 /\ sent' \in 0 .. MaxEvents
      /\ e \in Event /\ send[t] = Idle
      /\ send' = [send EXCEPT ![t] = [Idle EXCEPT !.at = a, !.event = e]]
      /\ UNCHANGED <<mEventWorkerDataQue, mPendingAsyncEvents, regVars,
                     glibVars, loop, calls, alive, ghostVars>>
  BY <1>1 DEF SendEvent, Free, TInv, TypeOK, Event
<1>3. a \in {"sync", "push"}
  OBVIOUS
<1> HIDE DEF e, a
<1>4. [Idle EXCEPT !.at = a, !.event = e] \in ThreadState
  BY <1>2, <1>3 DEF Idle, ThreadState, NoSource
<1>5. send' \in [Threads -> ThreadState]
  BY <1>2, <1>4 DEF TInv, TypeOK
<1>6. TypeOK'
  BY <1>2, <1>5 DEF TInv, TypeOK, regVars, glibVars, ghostVars
<1>7. SendInv' /\ LoopInv'
  BY <1>2, <1>3 DEF TInv, SendInv, LoopInv, TypeOK, Idle, glibVars
<1>8. Pushing' = Pushing \/ Pushing' = Pushing \cup {t}
  BY <1>2, <1>3 DEF Pushing, TInv, TypeOK, Idle
<1>9. SourceBound'
  <2>1. /\ Cardinality(Pushing \cup {t}) \in Nat
        /\ Cardinality(Pushing \cup {t}) <= Cardinality(Pushing) + 1
    <3> HIDE DEF Pushing
    <3>1. /\ IsFiniteSet(Pushing \cup {t})
          /\ Cardinality(Pushing \cup {t}) =
               IF t \in Pushing THEN Cardinality(Pushing)
                                ELSE Cardinality(Pushing) + 1
      BY PushingFinite, FS_AddElement
    <3> QED BY <3>1, PushingFinite, FS_CardinalityType
  <2>2. /\ Cardinality(Pushing') \in Nat
        /\ Cardinality(Pushing') <= Cardinality(Pushing) + 1
    BY <1>8, <2>1, PushingFinite
  <2>3. /\ lastSource' = lastSource /\ lastSource \in Nat
        /\ sent' = sent + 1 /\ sent \in Nat
        /\ lastSource + Cardinality(Pushing) <= sent
    BY <1>2 DEF SourceBound, TInv, TypeOK, glibVars
  <2>4. lastSource + Cardinality(Pushing') <= sent + 1
    BY <2>2, <2>3, PushingFinite
  <2> QED BY <2>3, <2>4 DEF SourceBound
<1> QED BY <1>6, <1>7, <1>9 DEF TInv

LEMMA TypeSender ==
  ASSUME TInv, NEW t \in Threads, SenderStep(t)
  PROVE  TInv'
<1> USE EventManagerAssumption
<1>1. CASE SendEventAsync(t)
  <2>1. mEventWorkerDataQue' \in Seq(Event)
    BY <1>1 DEF TInv, TypeOK, SendInv, SendEventAsync, Queued
  <2>2. [Idle EXCEPT !.at = "pushed"] \in ThreadState
    BY DEF Idle, ThreadState, NoSource
  <2>3. TypeOK'
    BY <1>1, <2>1, <2>2
       DEF TInv, TypeOK, SendEventAsync, regVars, glibVars, ghostVars
  <2>4. SendInv' /\ LoopInv'
    BY <1>1 DEF TInv, TypeOK, SendInv, LoopInv, SendEventAsync, glibVars, Idle
  <2>5. Pushing' = Pushing
    BY <1>1 DEF Pushing, TInv, TypeOK, SendEventAsync, Idle
  <2> QED BY <1>1, <2>3, <2>4, <2>5
          DEF TInv, SourceBound, SendEventAsync, glibVars
<1>2. CASE IdleAdd(t)
  <2>1. Pushing' = Pushing \ {t} /\ t \in Pushing
    BY <1>2 DEF Pushing, TInv, TypeOK, IdleAdd, ThreadState
  <2>2. /\ Cardinality(Pushing') = Cardinality(Pushing) - 1
        /\ Cardinality(Pushing') \in Nat
    <3> HIDE DEF Pushing
    <3>1. /\ IsFiniteSet(Pushing \ {t})
          /\ Cardinality(Pushing \ {t}) =
               IF t \in Pushing THEN Cardinality(Pushing) - 1
                                ELSE Cardinality(Pushing)
      BY PushingFinite, FS_RemoveElement
    <3> QED BY <2>1, <3>1, FS_CardinalityType
  <2>3. lastSource' = lastSource + 1 /\ sent' = sent /\ lastSource \in Nat
        /\ sent \in 0 .. MaxEvents
    BY <1>2 DEF IdleAdd, TInv, TypeOK
  <2>4. SourceBound'
    BY <2>2, <2>3, PushingFinite DEF SourceBound, TInv
  <2>5. lastSource' \in SourceIds /\ lastSource' \in 0 .. MaxEvents
    BY <2>2, <2>3, <2>4 DEF SourceBound, SourceIds
  <2>6. [send[t] EXCEPT !.at = "added", !.source = lastSource'] \in ThreadState
    BY <2>5 DEF TInv, TypeOK, ThreadState
  <2>7. send' = [send EXCEPT ![t] =
                  [send[t] EXCEPT !.at = "added", !.source = lastSource']]
    BY <1>2 DEF IdleAdd
  <2>8. send' \in [Threads -> ThreadState]
    BY <2>6, <2>7 DEF TInv, TypeOK
  <2>9. sources' \subseteq 1 .. lastSource'
    BY <1>2, <2>3 DEF IdleAdd, TInv, TypeOK
  <2>10. \A id \in SourceIds : mPendingAsyncEvents[id] # "none" => id <= lastSource'
    BY <2>3 DEF TInv, TypeOK, SourceIds
  <2>11. TypeOK'
    BY <1>2, <2>5, <2>8, <2>9, <2>10 DEF IdleAdd, TInv, TypeOK, regVars, ghostVars
  <2>12. SendInv'
    BY <2>3, <2>7 DEF TInv, TypeOK, SendInv, ThreadState
  <2>13. LoopInv'
    BY <1>2, <2>3 DEF TInv, LoopInv, IdleAdd
  <2> QED BY <2>4, <2>11, <2>12, <2>13 DEF TInv
<1>3. CASE SetCallbackAsPending(t)
  <2>1. Pushing' = Pushing
    BY <1>3 DEF Pushing, TInv, TypeOK, SetCallbackAsPending, Idle
  <2>2. Idle \in ThreadState
    BY DEF Idle, ThreadState
  <2>3. send' \in [Threads -> ThreadState]
    BY <1>3, <2>2 DEF SetCallbackAsPending, TInv, TypeOK
  <2>4. send[t].source \in 1 .. lastSource
    BY <1>3 DEF TInv, SendInv, SetCallbackAsPending
  <2>a. PICK x \in {"none", "pending", "done"} :
          mPendingAsyncEvents' =
            [mPendingAsyncEvents EXCEPT ![send[t].source] = x]
    BY <1>3 DEF SetCallbackAsPending
  <2>5. /\ mPendingAsyncEvents' \in [SourceIds -> {"none", "pending", "done"}]
        /\ \A id \in SourceIds :
             mPendingAsyncEvents'[id] # "none" => id <= lastSource
    BY <2>4, <2>a DEF TInv, TypeOK, SourceIds
  <2>6. TypeOK'
    BY <1>3, <2>3, <2>5 DEF SetCallbackAsPending, TInv, TypeOK, regVars,
                            glibVars, ghostVars
  <2>7. SendInv' /\ LoopInv'
    BY <1>3 DEF SetCallbackAsPending, TInv, TypeOK, SendInv, LoopInv, Idle,
                glibVars
  <2> QED BY <1>3, <2>1, <2>6, <2>7
          DEF TInv, SourceBound, SetCallbackAsPending, glibVars
<1> QED BY <1>1, <1>2, <1>3 DEF SenderStep

(* The steps of the main loop.                                             *)
LEMMA TypeLoop ==
  ASSUME TInv, LoopStep
  PROVE  TInv'
<1> USE EventManagerAssumption
<1>0. Idle \in ThreadState /\ Idle \in LoopState /\ Loop \in Threads
  BY DEF Idle, ThreadState, LoopState, Threads
<1>1. CASE SendEventSync
  <2>1. calls' \in Seq(Call)
    BY <1>0, <1>1, DeliverType DEF SendEventSync, TInv, SendInv
  <2>2. send' \in [Threads -> ThreadState]
    BY <1>0, <1>1 DEF SendEventSync, TInv, TypeOK
  <2>3. TypeOK'
    BY <1>1, <2>1, <2>2 DEF SendEventSync, TInv, TypeOK, Call, regVars,
                            glibVars, ghostVars
  <2>4. SendInv' /\ LoopInv'
    BY <1>1 DEF SendEventSync, TInv, TypeOK, SendInv, LoopInv, Idle, glibVars
  <2>5. Pushing' = Pushing
    BY <1>1 DEF Pushing, TInv, TypeOK, SendEventSync, Idle
  <2> QED BY <1>1, <2>3, <2>4, <2>5
          DEF TInv, SourceBound, SendEventSync, glibVars
<1>2. CASE CallListener
  <2> DEFINE c == Head(calls)
             l == Head(c.rest)
  <2>a. calls \in Seq(Call) /\ calls # <<>>
    BY <1>2 DEF CallListener, TInv, TypeOK, Call
  <2>b. Len(calls) \in Nat /\ 1 \in DOMAIN calls /\ c = calls[1]
    BY <2>a
  <2>1. c \in Call
    BY <2>a, <2>b, ElementOfSeq
  <2>2. c.rest \in Seq(Listeners) /\ c.event \in Event /\ c.rest # <<>>
    BY <1>2, <2>1 DEF CallListener, Call
  <2>3. l \in Listeners /\ Tail(c.rest) \in Seq(Listeners)
    BY <2>2
  <2>4. [c EXCEPT !.rest = Tail(@)] \in Call
    BY <2>1, <2>2, <2>3 DEF Call
  <2>5. calls' = [calls EXCEPT ![1] = [c EXCEPT !.rest = Tail(@)]]
    BY <1>2, <2>a, <2>b DEF CallListener
  <2>6. calls' \in Seq(Call)
    <3> HIDE DEF c
    <3> QED BY <2>a, <2>b, <2>4, <2>5
  <2>7. c.event.n \in 0 .. MaxEvents /\ c.event.by \in Threads
    BY <2>2 DEF Event
  <2>8. latest' = [latest EXCEPT ![l][c.event.by] = c.event.n]
    BY <1>2 DEF CallListener
  <2>9. latest' \in [Listeners -> [Threads -> 0 .. MaxEvents]]
    <3> HIDE DEF c, l
    <3> QED BY <2>3, <2>7, <2>8 DEF TInv, TypeOK
  <2>10. UNCHANGED <<mEventWorkerDataQue, mPendingAsyncEvents, regVars,
                     glibVars, send, loop, alive, sent, flushed, settings>>
    BY <1>2 DEF CallListener
  <2> HIDE DEF c, l
  <2>11. TypeOK'
    BY <2>6, <2>9, <2>10 DEF TInv, TypeOK, Call, regVars, glibVars
  <2> QED BY <2>10, <2>11 DEF TInv, SendInv, LoopInv, SourceBound, Pushing,
                              glibVars
<1>3. CASE AllCalled
  <2>1. calls' \in Seq(Call)
    BY <1>3 DEF AllCalled, TInv, TypeOK, Call
  <2>2. UNCHANGED <<mEventWorkerDataQue, mPendingAsyncEvents, regVars,
                    glibVars, send, loop, alive, sent, ghostVars>>
    BY <1>3 DEF AllCalled
  <2>3. TypeOK'
    BY <2>1, <2>2 DEF TInv, TypeOK, Call, regVars, glibVars, ghostVars
  <2> QED BY <2>2, <2>3 DEF TInv, SendInv, LoopInv, SourceBound, Pushing,
                            glibVars
<1>4. CASE Dispatch
  <2>1. PICK id \in sources : EventManagerThreadFunction(id)
    BY <1>4 DEF Dispatch
  <2>2. id \in 1 .. lastSource /\ id \in SourceIds
    BY DEF TInv, TypeOK, SourceIds
  <2>3. loop' \in LoopState
    BY <2>1, <2>2 DEF EventManagerThreadFunction, Idle, LoopState
  <2>4. TypeOK'
    BY <2>1, <2>3 DEF EventManagerThreadFunction, SourceRemoved, TInv, TypeOK,
                      regVars, ghostVars
  <2>5. SendInv' /\ LoopInv'
    BY <2>1, <2>2 DEF EventManagerThreadFunction, SourceRemoved, TInv, SendInv,
                      LoopInv, Idle
  <2> QED BY <2>1, <2>4, <2>5 DEF TInv, SourceBound, Pushing,
                                  EventManagerThreadFunction
<1>5. CASE SetCallbackAsDispatched
  <2>1. loop.source \in 1 .. lastSource
    BY <1>5 DEF TInv, LoopInv, SetCallbackAsDispatched
  <2>2. PICK x \in {"none", "pending", "done"} :
          mPendingAsyncEvents' = [mPendingAsyncEvents EXCEPT ![loop.source] = x]
    BY <1>5 DEF SetCallbackAsDispatched
  <2>3. /\ mPendingAsyncEvents' \in [SourceIds -> {"none", "pending", "done"}]
        /\ \A id \in SourceIds :
             mPendingAsyncEvents'[id] # "none" => id <= lastSource
    BY <2>1, <2>2 DEF TInv, TypeOK, SourceIds
  <2>4. loop' \in LoopState
    BY <1>5 DEF SetCallbackAsDispatched, TInv, TypeOK, LoopState
  <2>5. TypeOK'
    BY <1>5, <2>3, <2>4 DEF SetCallbackAsDispatched, TInv, TypeOK, regVars,
                            glibVars, ghostVars
  <2>6. SendInv' /\ LoopInv'
    BY <1>5 DEF SetCallbackAsDispatched, TInv, TypeOK, SendInv, LoopInv,
                glibVars, LoopState
  <2> QED BY <1>5, <2>5, <2>6 DEF TInv, SourceBound, Pushing,
                                  SetCallbackAsDispatched, glibVars
<1>6. CASE AsyncEvent
  <2>1. mEventWorkerDataQue' \in Seq(Event) /\ loop' \in LoopState
    <3>1. CASE mEventWorkerDataQue = <<>>
      BY <1>0, <1>6, <3>1 DEF AsyncEvent, TInv, TypeOK
    <3>2. CASE mEventWorkerDataQue # <<>>
      <4>1. /\ Head(mEventWorkerDataQue) \in Event
            /\ Tail(mEventWorkerDataQue) \in Seq(Event)
        BY <3>2 DEF TInv, TypeOK
      <4>2. [Idle EXCEPT !.at = "popped",
                         !.event = Head(mEventWorkerDataQue)] \in LoopState
        BY <4>1 DEF LoopState, Idle
      <4> QED BY <1>6, <3>2, <4>1, <4>2 DEF AsyncEvent
    <3> QED BY <3>1, <3>2
  <2>2. TypeOK'
    BY <1>6, <2>1 DEF AsyncEvent, TInv, TypeOK, regVars, glibVars, ghostVars
  <2>3. SendInv' /\ LoopInv'
    <3>1. CASE mEventWorkerDataQue = <<>>
      BY <1>6, <3>1 DEF AsyncEvent, TInv, SendInv, LoopInv, glibVars, Idle
    <3>2. CASE mEventWorkerDataQue # <<>>
      <4>1. Head(mEventWorkerDataQue) \in Event
        BY <3>2 DEF TInv, TypeOK
      <4> QED BY <1>6, <3>2, <4>1
              DEF AsyncEvent, TInv, SendInv, LoopInv, glibVars, Idle
    <3> QED BY <3>1, <3>2
  <2> QED BY <1>6, <2>2, <2>3 DEF TInv, SourceBound, Pushing, AsyncEvent,
                                  glibVars
<1>7. CASE AsyncEventDeliver
  <2>1. calls' \in Seq(Call)
    BY <1>7, DeliverType DEF AsyncEventDeliver, TInv, LoopInv
  <2>2. TypeOK'
    BY <1>0, <1>7, <2>1 DEF AsyncEventDeliver, TInv, TypeOK, Call, regVars,
                            glibVars, ghostVars
  <2>3. SendInv' /\ LoopInv'
    BY <1>7 DEF AsyncEventDeliver, TInv, SendInv, LoopInv, Idle, glibVars
  <2> QED BY <1>7, <2>2, <2>3 DEF TInv, SourceBound, Pushing,
                                  AsyncEventDeliver, glibVars
<1> QED BY <1>1, <1>2, <1>3, <1>4, <1>5, <1>6, <1>7 DEF LoopStep

(* A flush empties the queue and the list of callbacks.                    *)
LEMMA TypeFlush ==
  ASSUME TInv, FlushPendingEvents \/ Destroy
  PROVE  TInv'
<1> USE EventManagerAssumption
<1>1. Flush /\ UNCHANGED <<mIsFakeTune, mAsyncTuneEnabled, lastSource, send,
                           loop, calls, sent, settings, latest>>
  BY DEF FlushPendingEvents, Destroy, regVars
<1>2. mEventListeners' \in [Keys -> Seq(Listeners)] /\ alive' \in BOOLEAN
  <2>1. CASE FlushPendingEvents
    BY <2>1 DEF FlushPendingEvents, TInv, TypeOK, regVars
  <2>2. CASE Destroy
    <3>1. mEventListeners' = [k \in Keys |-> <<>>] /\ alive' = FALSE
      BY <2>2 DEF Destroy
    <3>2. <<>> \in Seq(Listeners)
      OBVIOUS
    <3> QED BY <3>1, <3>2
  <2> QED BY <2>1, <2>2
<1>3. Range(mEventWorkerDataQue) \subseteq Event
  BY DEF TInv, TypeOK, Range
<1>4. /\ mEventWorkerDataQue' \in Seq(Event)
      /\ mPendingAsyncEvents' \in [SourceIds -> {"none", "pending", "done"}]
      /\ \A id \in SourceIds : mPendingAsyncEvents'[id] = "none"
      /\ sources' \subseteq sources
      /\ flushed' \subseteq Event
  BY <1>1, <1>3 DEF Flush, Unflushed, TInv, TypeOK
<1>5. TypeOK'
  BY <1>1, <1>2, <1>4 DEF TInv, TypeOK
<1> QED BY <1>1, <1>4, <1>5 DEF TInv, SendInv, LoopInv, SourceBound, Pushing

LEMMA TypeStep == TInv /\ [Next]_vars => TInv'
<1> SUFFICES ASSUME TInv, [Next]_vars PROVE TInv'
  OBVIOUS
<1>1. CASE UNCHANGED vars
  BY <1>1 DEF vars, regVars, glibVars, ghostVars, TInv, TypeOK, SendInv,
              LoopInv, SourceBound, Pushing
<1> QED BY <1>1, TypeSettings, TypeSend, TypeSender, TypeLoop, TypeFlush
        DEF Next

(* Every reachable state has the types TypeOK states: in particular no     *)
(* more source ids are given out than events are sent.                     *)
THEOREM EventTypesCorrect == Spec => []TypeOK
<1>1. TInv => TypeOK
  BY DEF TInv
<1> QED BY <1>1, TypeInit, TypeStep, PTL DEF Spec

------------------------------------------------------------------------------
(* The list of pending callbacks.  Only four steps touch what BInv is      *)
(* about; the others leave it alone or take a thread to an earlier stage.  *)

LEMMA BookInit == Init => BInv
BY DEF Init, BInv, OneSender, DoneIsGone, LiveIsPending, AssertionsHold, Idle

LEMMA BookUnchanged ==
  ASSUME BInv, UNCHANGED <<mPendingAsyncEvents, sources>>,
         loop'.at # "dispatch" \/ loop' = loop,
         \A t \in Threads : \/ send'[t] = send[t]
                            \/ /\ send[t].at # "added"
                               /\ send'[t].at # "added"
  PROVE  BInv'
BY DEF BInv, OneSender, DoneIsGone, LiveIsPending, AssertionsHold

LEMMA BookStep ==
  ASSUME TInv, BInv, Next
  PROVE  BInv'
<1> USE EventManagerAssumption
<1>1. CASE Register \/ Configure
  <2>1. UNCHANGED <<mPendingAsyncEvents, sources, loop, send>>
    BY <1>1 DEF Register, Configure, AddEventListener, RemoveEventListener,
                SetFakeTuneFlag, SetAsyncTuneState, glibVars
  <2> QED BY <2>1, BookUnchanged
<1>2. CASE Send
  <2>1. PICK t \in Threads, type \in Types,
             mode \in {"DEFAULT_MODE", "SYNC_MODE", "ASYNC_MODE"} :
          SendEvent(t, type, mode)
    BY <1>2 DEF Send
  <2>2. /\ UNCHANGED <<mPendingAsyncEvents, sources, loop>>
        /\ send[t].at = "idle" /\ send'[t].at \in {"sync", "push"}
        /\ \A u \in Threads \ {t} : send'[u] = send[u]
    BY <2>1 DEF SendEvent, Free, Idle, glibVars, TInv, TypeOK
  <2> QED BY <2>2, BookUnchanged
<1>3. ASSUME NEW t \in Threads, SendEventAsync(t)
      PROVE  BInv'
  <2>1. /\ UNCHANGED <<mPendingAsyncEvents, sources, loop>>
        /\ send[t].at = "push" /\ send'[t].at = "pushed"
        /\ \A u \in Threads \ {t} : send'[u] = send[u]
    BY <1>3 DEF SendEventAsync, Idle, glibVars, TInv, TypeOK
  <2> QED BY <2>1, BookUnchanged
<1>4. ASSUME NEW t \in Threads, IdleAdd(t)
      PROVE  BInv'
  <2>1. /\ UNCHANGED <<mPendingAsyncEvents, loop>>
        /\ sources' = sources \cup {lastSource + 1}
        /\ send'[t].at = "added" /\ send'[t].source = lastSource + 1
        /\ \A u \in Threads \ {t} : send'[u] = send[u]
        /\ lastSource' = lastSource + 1 /\ lastSource \in Nat
    BY <1>4 DEF IdleAdd, TInv, TypeOK, ThreadState
  <2>2. \A u \in Threads :
          send[u].at = "added" => send[u].source # lastSource + 1
    BY <2>1 DEF TInv, SendInv
  <2>3. lastSource + 1 \in SourceIds
    BY <1>4, <2>1, TypeSender DEF SenderStep, TInv, TypeOK, SourceIds
  <2>4. mPendingAsyncEvents[lastSource + 1] = "none"
    BY <2>1, <2>3 DEF TInv, TypeOK
  <2>5. OneSender'
    BY <2>1, <2>2 DEF BInv, OneSender
  <2>6. DoneIsGone'
    BY <2>1, <2>4 DEF BInv, DoneIsGone
  <2>7. LiveIsPending'
    <3> SUFFICES ASSUME NEW id \in sources',
                        mPendingAsyncEvents[id] # "pending"
                 PROVE  \E u \in Threads :
                          send'[u].at = "added" /\ send'[u].source = id
      BY <2>1 DEF LiveIsPending
    <3>1. CASE id = lastSource + 1
      BY <2>1, <3>1
    <3>2. CASE id \in sources
      <4>1. PICK u \in Threads : send[u].at = "added" /\ send[u].source = id
        BY <3>2 DEF BInv, LiveIsPending
      <4>2. u # t
        BY <1>4, <4>1 DEF IdleAdd
      <4> QED BY <2>1, <4>1, <4>2
    <3> QED BY <2>1, <3>1, <3>2
  <2>8. AssertionsHold'
    BY <2>1, <2>4 DEF BInv, AssertionsHold
  <2> QED BY <2>5, <2>6, <2>7, <2>8 DEF BInv
<1>5. ASSUME NEW t \in Threads, SetCallbackAsPending(t)
      PROVE  BInv'
  <2> DEFINE s == send[t].source
  <2>1. /\ UNCHANGED <<sources, loop>>
        /\ send[t].at = "added" /\ send'[t].at = "idle"
        /\ \A u \in Threads \ {t} : send'[u] = send[u]
        /\ s \in SourceIds
        /\ mPendingAsyncEvents[s] \in {"none", "done"}
        /\ mPendingAsyncEvents[s] = "none" => mPendingAsyncEvents'[s] = "pending"
        /\ mPendingAsyncEvents[s] = "done" => mPendingAsyncEvents'[s] = "none"
        /\ \A id \in SourceIds \ {s} :
             mPendingAsyncEvents'[id] = mPendingAsyncEvents[id]
    BY <1>5 DEF SetCallbackAsPending, Idle, glibVars, TInv, TypeOK, SendInv,
                SourceIds, BInv, AssertionsHold
  <2> HIDE DEF s
  <2>2. sources \subseteq SourceIds
    BY DEF TInv, TypeOK, SourceIds
  <2>3. \A u \in Threads \ {t} : send[u].at = "added" =>
           send[u].source # s /\ send[u].source \in SourceIds
    BY <2>1 DEF s, BInv, OneSender, TInv, TypeOK, SendInv, SourceIds
  <2>4. OneSender'
    BY <2>1 DEF BInv, OneSender
  <2>5. DoneIsGone'
    BY <2>1, <2>2 DEF BInv, DoneIsGone
  <2>6. LiveIsPending'
    <3> SUFFICES ASSUME NEW id \in sources,
                        mPendingAsyncEvents'[id] # "pending"
                 PROVE  \E u \in Threads :
                          send'[u].at = "added" /\ send'[u].source = id
      BY <2>1 DEF LiveIsPending
    <3>1. id # s
      BY <2>1 DEF BInv, DoneIsGone
    <3>2. PICK u \in Threads : send[u].at = "added" /\ send[u].source = id
      BY <2>1, <2>2, <3>1 DEF BInv, LiveIsPending
    <3>3. u # t
      BY <3>1, <3>2 DEF s
    <3> QED BY <2>1, <3>2, <3>3
  <2>7. AssertionsHold'
    <3>1. \A u \in Threads : send'[u].at = "added" =>
            mPendingAsyncEvents'[send'[u].source] # "pending"
      BY <2>1, <2>3 DEF BInv, AssertionsHold
    <3>2. loop'.at = "dispatch" => mPendingAsyncEvents'[loop'.source] # "done"
      <4> SUFFICES ASSUME loop.at = "dispatch"
                   PROVE  mPendingAsyncEvents'[loop.source] # "done"
        BY <2>1
      <4>1. loop.source \in SourceIds
        BY DEF TInv, TypeOK, LoopInv, SourceIds
      <4> QED BY <2>1, <4>1 DEF BInv, AssertionsHold
    <3> QED BY <3>1, <3>2 DEF AssertionsHold
  <2> QED BY <2>4, <2>5, <2>6, <2>7 DEF BInv
<1>6. CASE SendEventSync
  <2>1. /\ UNCHANGED <<mPendingAsyncEvents, sources, loop>>
        /\ send[Loop].at = "sync" /\ send'[Loop].at = "idle"
        /\ \A u \in Threads \ {Loop} : send'[u] = send[u]
    BY <1>6 DEF SendEventSync, Idle, glibVars, TInv, TypeOK, Threads
  <2> QED BY <2>1, BookUnchanged
<1>7. CASE CallListener \/ AllCalled
  <2>1. UNCHANGED <<mPendingAsyncEvents, sources, loop, send>>
    BY <1>7 DEF CallListener, AllCalled, glibVars
  <2> QED BY <2>1, BookUnchanged
<1>8. CASE Dispatch
  <2>1. PICK id \in sources : EventManagerThreadFunction(id)
    BY <1>8 DEF Dispatch
  <2>2. /\ UNCHANGED <<mPendingAsyncEvents, send>>
        /\ sources' \subseteq sources /\ loop'.source = id
    BY <2>1 DEF EventManagerThreadFunction, SourceRemoved, Idle
  <2> QED BY <2>2 DEF BInv, OneSender, DoneIsGone, LiveIsPending,
                      AssertionsHold
<1>9. CASE SetCallbackAsDispatched
  <2> DEFINE s == loop.source
  <2>1. /\ UNCHANGED <<sources, send>> /\ loop'.at = "async"
        /\ s \in SourceIds /\ s \notin sources
        /\ mPendingAsyncEvents'[s] \in {"done", "none"}
        /\ \A id \in SourceIds \ {s} :
             mPendingAsyncEvents'[id] = mPendingAsyncEvents[id]
    BY <1>9 DEF SetCallbackAsDispatched, glibVars, TInv, TypeOK, LoopInv,
                SourceIds, LoopState
  <2> HIDE DEF s
  <2>2. /\ sources \subseteq SourceIds
        /\ \A u \in Threads : send[u].at = "added" =>
             send[u].source \in SourceIds
    BY DEF TInv, TypeOK, SendInv, SourceIds
  <2>3. OneSender' /\ DoneIsGone' /\ LiveIsPending'
    BY <2>1, <2>2 DEF BInv, OneSender, DoneIsGone, LiveIsPending
  <2>4. AssertionsHold'
    BY <2>1, <2>2 DEF BInv, AssertionsHold
  <2> QED BY <2>3, <2>4 DEF BInv
<1>10. CASE AsyncEvent \/ AsyncEventDeliver
  <2>1. UNCHANGED <<mPendingAsyncEvents, sources, send>>
    BY <1>10 DEF AsyncEvent, AsyncEventDeliver, glibVars
  <2>2. loop'.at # "dispatch"
    <3>1. CASE AsyncEvent
      <4>1. CASE mEventWorkerDataQue = <<>>
        BY <3>1, <4>1 DEF AsyncEvent, Idle
      <4>2. CASE mEventWorkerDataQue # <<>>
        BY <3>1, <4>2 DEF AsyncEvent, Idle
      <4> QED BY <4>1, <4>2
    <3>2. CASE AsyncEventDeliver
      BY <3>2 DEF AsyncEventDeliver, Idle
    <3> QED BY <1>10, <3>1, <3>2
  <2> QED BY <2>1, <2>2, BookUnchanged
<1>11. CASE FlushPendingEvents \/ Destroy
  <2>1. Flush /\ UNCHANGED <<send, loop>>
    BY <1>11 DEF FlushPendingEvents, Destroy
  <2>2. /\ sources' \subseteq sources
        /\ \A id \in sources' : mPendingAsyncEvents[id] # "pending"
        /\ \A id \in SourceIds : mPendingAsyncEvents'[id] = "none"
    BY <2>1 DEF Flush, Unflushed
  <2>3. /\ sources \subseteq SourceIds
        /\ \A u \in Threads : send[u].at = "added" =>
             send[u].source \in SourceIds
        /\ loop.at = "dispatch" => loop.source \in SourceIds
    BY DEF TInv, TypeOK, SendInv, LoopInv, SourceIds
  <2>4. OneSender' /\ DoneIsGone' /\ AssertionsHold'
    BY <2>1, <2>2, <2>3 DEF BInv, OneSender, DoneIsGone, AssertionsHold
  <2>5. LiveIsPending'
    BY <2>1, <2>2 DEF BInv, LiveIsPending
  <2> QED BY <2>4, <2>5 DEF BInv
<1> QED BY <1>1, <1>2, <1>3, <1>4, <1>5, <1>6, <1>7, <1>8, <1>9, <1>10, <1>11
        DEF Next, SenderStep, LoopStep

LEMMA BookHolds == Spec => [](TInv /\ BInv)
<1>1. BInv /\ UNCHANGED vars => BInv'
  BY DEF vars, glibVars, BInv, OneSender, DoneIsGone, LiveIsPending,
         AssertionsHold
<1>2. TInv /\ BInv /\ [Next]_vars => BInv'
  BY <1>1, BookStep
<1> QED BY <1>2, TypeInit, TypeStep, BookInit, PTL DEF Spec

(* Two threads and a flush race for each entry of the list; a source that  *)
(* is still to run is entered, or about to be.                             *)
THEOREM SourcesAreTracked == Spec => []LiveIsPending
<1>1. BInv => LiveIsPending
  BY DEF BInv
<1> QED BY <1>1, BookHolds, PTL

(* The assertions in SetCallbackAsDispatched and SetCallbackAsPending      *)
(* cannot fail.                                                            *)
THEOREM AssertionsNeverFail == Spec => []AssertionsHold
<1>1. BInv => AssertionsHold
  BY DEF BInv
<1> QED BY <1>1, BookHolds, PTL

------------------------------------------------------------------------------
(* Destruction.                                                            *)

LEMMA DeadStep == BInv /\ DeadInv /\ [Next]_vars => DeadInv'
<1> SUFFICES ASSUME BInv, DeadInv, [Next]_vars PROVE DeadInv'
  OBVIOUS
<1>1. CASE Destroy
  <2>1. sources' = {}
    BY <1>1 DEF Destroy, Flush, Unflushed, BInv, LiveIsPending, Idle
  <2> QED BY <1>1, <2>1 DEF Destroy, DeadInv
<1>2. CASE alive /\ ~Destroy
  <2>1. alive'
    BY <1>2 DEF Next, Register, Configure, Send, SenderStep, LoopStep,
                Dispatch, AddEventListener, RemoveEventListener,
                SetFakeTuneFlag, SetAsyncTuneState, SendEvent, SendEventAsync,
                IdleAdd, SetCallbackAsPending, SendEventSync, CallListener,
                AllCalled, EventManagerThreadFunction,
                SetCallbackAsDispatched, AsyncEvent, AsyncEventDeliver,
                FlushPendingEvents, vars
  <2> QED BY <2>1 DEF DeadInv
<1>3. CASE ~alive /\ ~Destroy
  <2>1. sources = {} /\ loop = Idle /\ \A t \in Threads : send[t] = Idle
    BY <1>3 DEF DeadInv
  <2>2. ~Register /\ ~Configure /\ ~Send /\ ~FlushPendingEvents
    BY <1>3 DEF Register, Configure, Send, FlushPendingEvents,
                AddEventListener, RemoveEventListener, SetFakeTuneFlag,
                SetAsyncTuneState, Change, SendEvent, Free
  <2>3. \A t \in Threads : ~SenderStep(t)
    BY <2>1 DEF SenderStep, SendEventAsync, IdleAdd, SetCallbackAsPending, Idle
  <2>4. /\ ~SendEventSync /\ ~Dispatch /\ ~SetCallbackAsDispatched
        /\ ~AsyncEvent /\ ~AsyncEventDeliver
    BY <2>1 DEF SendEventSync, Dispatch, SetCallbackAsDispatched, AsyncEvent,
                AsyncEventDeliver, Idle, Threads
  <2>5. UNCHANGED <<alive, sources, send, loop>>
    <3>1. CASE CallListener \/ AllCalled
      BY <3>1 DEF CallListener, AllCalled, glibVars
    <3>2. CASE UNCHANGED vars
      BY <3>2 DEF vars, glibVars
    <3> QED BY <1>3, <2>2, <2>3, <2>4, <3>1, <3>2 DEF Next, LoopStep
  <2> QED BY <2>1, <2>5 DEF DeadInv
<1> QED BY <1>1, <1>2, <1>3

(* The destructor's flush leaves no idle source whose callback would run   *)
(* on the freed manager: by LiveIsPending it finds them all, since no      *)
(* sender is half way.                                                     *)
THEOREM DestroyedIsSilent == Spec => []NoCallbackAfterDestroy
<1>1. Init => DeadInv
  BY DEF Init, DeadInv
<1>2. DeadInv => NoCallbackAfterDestroy
  BY DEF DeadInv, NoCallbackAfterDestroy
<1> QED BY <1>1, <1>2, BookHolds, DeadStep, PTL DEF Spec

------------------------------------------------------------------------------
(* Events and idle sources.                                                *)

Taking(l) == IF l.at \in {"dispatch", "async"} THEN 1 ELSE 0

LEMMA CountsFinite ==
  ASSUME TInv
  PROVE  /\ IsFiniteSet(sources) /\ Cardinality(sources) \in Nat
         /\ IsFiniteSet(Pushed) /\ Cardinality(Pushed) \in Nat
         /\ Taking(loop) \in {0, 1} /\ Len(mEventWorkerDataQue) \in Nat
<1>1. IsFiniteSet(1 .. lastSource)
  BY FS_Interval DEF TInv, TypeOK
<1>2. IsFiniteSet(sources)
  BY <1>1, FS_Subset DEF TInv, TypeOK
<1> QED BY <1>2, PushingFinite, FS_CardinalityType DEF TInv, TypeOK, Taking

LEMMA HasSourceUnchanged ==
  ASSUME TInv, EventHasSource, Pushed' = Pushed,
         UNCHANGED <<mEventWorkerDataQue, sources>>,
         Taking(loop') = Taking(loop)
  PROVE  EventHasSource'
BY DEF EventHasSource, Pushed, Taking

LEMMA HasSourceStep ==
  ASSUME TInv, TInv', EventHasSource, Next
  PROVE  EventHasSource'
<1> USE EventManagerAssumption
<1>0. Len(mEventWorkerDataQue) <=
        Cardinality(sources) + Cardinality(Pushed) + Taking(loop)
  BY DEF EventHasSource, Pushed, Taking
<1>a. ASSUME Len(mEventWorkerDataQue') <=
        Cardinality(sources') + Cardinality(Pushed') + Taking(loop')
      PROVE  EventHasSource'
  BY <1>a DEF EventHasSource, Pushed, Taking
<1>1. CASE Register \/ Configure
  <2>1. UNCHANGED <<mEventWorkerDataQue, sources, loop, send>>
    BY <1>1 DEF Register, Configure, AddEventListener, RemoveEventListener,
                SetFakeTuneFlag, SetAsyncTuneState, glibVars
  <2>2. Pushed' = Pushed
    BY <2>1 DEF Pushed
  <2> QED BY <2>1, <2>2, HasSourceUnchanged
<1>2. CASE Send
  <2>1. PICK t \in Threads, type \in Types,
             mode \in {"DEFAULT_MODE", "SYNC_MODE", "ASYNC_MODE"} :
          SendEvent(t, type, mode)
    BY <1>2 DEF Send
  <2>2. /\ UNCHANGED <<mEventWorkerDataQue, sources, loop>>
        /\ send[t].at = "idle" /\ send'[t].at \in {"sync", "push"}
        /\ \A u \in Threads \ {t} : send'[u] = send[u]
    BY <2>1 DEF SendEvent, Free, Idle, glibVars, TInv, TypeOK
  <2>3. Pushed' = Pushed
    BY <2>2 DEF Pushed
  <2> QED BY <2>2, <2>3, HasSourceUnchanged
<1>3. ASSUME NEW t \in Threads, SendEventAsync(t)
      PROVE  EventHasSource'
  <2>1. /\ UNCHANGED <<sources, loop>>
        /\ send[t].at = "push" /\ send'[t].at = "pushed"
        /\ \A u \in Threads \ {t} : send'[u] = send[u]
        /\ Len(mEventWorkerDataQue') = Len(mEventWorkerDataQue) + 1
    BY <1>3 DEF SendEventAsync, Queued, Idle, glibVars, TInv, TypeOK, SendInv
  <2>2. Pushed' = Pushed \cup {t} /\ t \notin Pushed
    BY <2>1 DEF Pushed
  <2>3. Cardinality(Pushed') = Cardinality(Pushed) + 1
    <3> HIDE DEF Pushed
    <3> QED BY <2>2, CountsFinite, FS_AddElement
  <2> QED BY <1>0, <1>a, <2>1, <2>3, CountsFinite
<1>4. ASSUME NEW t \in Threads, IdleAdd(t)
      PROVE  EventHasSource'
  <2>1. /\ UNCHANGED <<mEventWorkerDataQue, loop>>
        /\ sources' = sources \cup {lastSource + 1}
        /\ lastSource + 1 \notin sources
        /\ send[t].at = "pushed" /\ send'[t].at = "added"
        /\ \A u \in Threads \ {t} : send'[u] = send[u]
    BY <1>4 DEF IdleAdd, TInv, TypeOK, ThreadState
  <2>2. Pushed' = Pushed \ {t} /\ t \in Pushed
    BY <2>1 DEF Pushed
  <2>3. Cardinality(Pushed') = Cardinality(Pushed) - 1
    <3> HIDE DEF Pushed
    <3> QED BY <2>2, CountsFinite, FS_RemoveElement
  <2>4. Cardinality(sources') = Cardinality(sources) + 1
    BY <2>1, CountsFinite, FS_AddElement
  <2> QED BY <1>0, <1>a, <2>1, <2>3, <2>4, CountsFinite
<1>5. ASSUME NEW t \in Threads, SetCallbackAsPending(t)
      PROVE  EventHasSource'
  <2>1. /\ UNCHANGED <<mEventWorkerDataQue, sources, loop>>
        /\ send[t].at = "added" /\ send'[t].at = "idle"
        /\ \A u \in Threads \ {t} : send'[u] = send[u]
    BY <1>5 DEF SetCallbackAsPending, Idle, glibVars, TInv, TypeOK
  <2>2. Pushed' = Pushed
    BY <2>1 DEF Pushed
  <2> QED BY <2>1, <2>2, HasSourceUnchanged
<1>6. CASE SendEventSync
  <2>1. /\ UNCHANGED <<mEventWorkerDataQue, sources, loop>>
        /\ send[Loop].at = "sync" /\ send'[Loop].at = "idle"
        /\ \A u \in Threads \ {Loop} : send'[u] = send[u]
    BY <1>6 DEF SendEventSync, Idle, glibVars, TInv, TypeOK, Threads
  <2>2. Pushed' = Pushed
    BY <2>1 DEF Pushed
  <2> QED BY <2>1, <2>2, HasSourceUnchanged
<1>7. CASE CallListener \/ AllCalled
  <2>1. UNCHANGED <<mEventWorkerDataQue, sources, loop, send>>
    BY <1>7 DEF CallListener, AllCalled, glibVars
  <2>2. Pushed' = Pushed
    BY <2>1 DEF Pushed
  <2> QED BY <2>1, <2>2, HasSourceUnchanged
<1>8. CASE Dispatch
  <2>1. PICK id \in sources : EventManagerThreadFunction(id)
    BY <1>8 DEF Dispatch
  <2>2. /\ UNCHANGED <<mEventWorkerDataQue, send>>
        /\ sources' = sources \ {id}
        /\ Taking(loop) = 0 /\ Taking(loop') = 1
    BY <2>1 DEF EventManagerThreadFunction, SourceRemoved, Idle, Taking
  <2>3. Cardinality(sources') = Cardinality(sources) - 1
    BY <2>2, CountsFinite, FS_RemoveElement
  <2>4. Pushed' = Pushed
    BY <2>2 DEF Pushed
  <2> QED BY <1>0, <1>a, <2>2, <2>3, <2>4, CountsFinite
<1>9. CASE SetCallbackAsDispatched
  <2>1. /\ UNCHANGED <<mEventWorkerDataQue, sources, send>>
        /\ Taking(loop) = 1 /\ Taking(loop') = 1
    BY <1>9 DEF SetCallbackAsDispatched, glibVars, Taking, TInv, TypeOK,
                LoopState
  <2>2. Pushed' = Pushed
    BY <2>1 DEF Pushed
  <2> QED BY <2>1, <2>2, HasSourceUnchanged
<1>10. CASE AsyncEvent
  <2>1. UNCHANGED <<sources, send>> /\ Taking(loop) = 1
    BY <1>10 DEF AsyncEvent, glibVars, Taking
  <2>2. Pushed' = Pushed
    BY <2>1 DEF Pushed
  <2>3. CASE mEventWorkerDataQue = <<>>
    <3>1. Len(mEventWorkerDataQue') = 0 /\ Taking(loop') = 0
      BY <1>10, <2>3 DEF AsyncEvent, Idle, Taking
    <3> QED BY <1>a, <2>1, <2>2, <3>1, CountsFinite
  <2>4. CASE mEventWorkerDataQue # <<>>
    <3>1. Len(mEventWorkerDataQue') = Len(mEventWorkerDataQue) - 1
      BY <1>10, <2>4 DEF AsyncEvent, TInv, TypeOK
    <3>2. Taking(loop') = 0
      BY <1>10, <2>4 DEF AsyncEvent, Idle, Taking
    <3> QED BY <1>0, <1>a, <2>1, <2>2, <3>1, <3>2, CountsFinite
  <2> QED BY <2>3, <2>4
<1>11. CASE AsyncEventDeliver
  <2>1. /\ UNCHANGED <<mEventWorkerDataQue, sources, send>>
        /\ Taking(loop) = 0 /\ Taking(loop') = 0
    BY <1>11 DEF AsyncEventDeliver, glibVars, Taking, Idle
  <2>2. Pushed' = Pushed
    BY <2>1 DEF Pushed
  <2> QED BY <2>1, <2>2, HasSourceUnchanged
<1>12. CASE FlushPendingEvents \/ Destroy
  <2>1. Flush /\ UNCHANGED <<send, loop>>
    BY <1>12 DEF FlushPendingEvents, Destroy
  <2>2. /\ Len(mEventWorkerDataQue') = 0
        /\ sources' \subseteq sources
        /\ Taking(loop') \in {0, 1}
    BY <2>1 DEF Flush, Unflushed, Taking
  <2>3. Pushed' = Pushed
    BY <2>1 DEF Pushed
  <2>4. Cardinality(sources') \in Nat
    BY <2>2, CountsFinite, FS_Subset, FS_CardinalityType
  <2> QED BY <1>a, <2>2, <2>3, <2>4, CountsFinite
<1> QED BY <1>1, <1>2, <1>3, <1>4, <1>5, <1>6, <1>7, <1>8, <1>9, <1>10, <1>11,
           <1>12 DEF Next, SenderStep, LoopStep

(* There are never more events queued than idle sources that run or will   *)
(* run, so the main loop takes out every event that no flush removes.      *)
THEOREM EveryEventHasSource == Spec => []EventHasSource
<1>1. Init => EventHasSource
  <2> SUFFICES ASSUME Init PROVE EventHasSource
    OBVIOUS
  <2>1. sources = {} /\ Pushed = {} /\ Len(mEventWorkerDataQue) = 0
    BY DEF Init, Pushed, Idle
  <2>2. Cardinality(sources) = 0 /\ Cardinality(Pushed) = 0
    BY <2>1, FS_EmptySet
  <2>3. loop.at = "idle"
    BY DEF Init, Idle
  <2> QED BY <2>1, <2>2, <2>3 DEF EventHasSource, Pushed
<1>2. TInv /\ TInv' /\ EventHasSource /\ [Next]_vars => EventHasSource'
  <2>1. EventHasSource /\ UNCHANGED vars => EventHasSource'
    BY DEF vars, glibVars, EventHasSource
  <2> QED BY <2>1, HasSourceStep
<1> QED BY <1>1, <1>2, TypeInit, TypeStep, PTL DEF Spec

------------------------------------------------------------------------------
(* The way of an event: from its sender into the queue, from there to the  *)
(* main loop or to a flush, and to the listeners.                          *)
Owns(t)     == send[t].at \in {"push", "sync"}
InQueue(e)  == \E i \in 1 .. Len(mEventWorkerDataQue) : mEventWorkerDataQue[i] = e
InCalls(e)  == \E i \in 1 .. Len(calls) : calls[i].event = e
Moved(e)    == InQueue(e) \/ InCalls(e) \/ loop.event = e \/ e \in flushed

(* A sender has a newer event than any of its own that has gone on.        *)
FreshInv ==
  /\ \A t \in Threads : Owns(t) =>
       /\ send[t].event.by = t /\ send[t].event.n <= sent
       /\ \A e \in Event : Moved(e) /\ e.by = t => e.n < send[t].event.n
  /\ \A e \in Event : Moved(e) => e.n <= sent

(* The queue keeps the order of each sender, ...                           *)
QueueOrder ==
  \A i, j \in 1 .. Len(mEventWorkerDataQue) :
    i < j /\ mEventWorkerDataQue[i].by = mEventWorkerDataQue[j].by
      => mEventWorkerDataQue[i].n < mEventWorkerDataQue[j].n

(* ... and an event is in one place.                                       *)
OnePlace == \A e \in Event : InQueue(e) => ~InCalls(e) /\ loop.event # e /\ e \notin flushed

WayInv == FreshInv /\ QueueOrder /\ OnePlace /\ FlushedNeverDelivered

LEMMA NoEventIsNone == NoEvent \notin Event /\ Idle.event = NoEvent /\ ~(Idle.at \in {"push", "sync"})
<1>1. \A e \in Event : e.n # 0
  BY EventManagerAssumption DEF Event
<1>2. NoEvent.n = 0
  BY DEF NoEvent
<1> QED BY <1>1, <1>2 DEF Idle

(* What is queued is what a flush takes.                                   *)
LEMMA QueueRange ==
  ASSUME TInv
  PROVE  /\ \A e : InQueue(e) <=> e \in Range(mEventWorkerDataQue)
         /\ \A e : InQueue(e) => e \in Event
         /\ \A e : InCalls(e) => e \in Event
<1>1. /\ mEventWorkerDataQue \in Seq(Event)
      /\ calls \in Seq([event : Event, rest : Seq(Listeners)])
  BY DEF TInv, TypeOK
<1>2. DOMAIN mEventWorkerDataQue = 1 .. Len(mEventWorkerDataQue)
  BY <1>1
<1>3. \A i \in 1 .. Len(calls) : calls[i] \in [event : Event, rest : Seq(Listeners)]
  BY <1>1, ElementOfSeq
<1>4. \A i \in 1 .. Len(mEventWorkerDataQue) : mEventWorkerDataQue[i] \in Event
  BY <1>1, ElementOfSeq
<1> QED BY <1>2, <1>3, <1>4 DEF InQueue, InCalls, Range

(* A delivery adds its event to those that are delivered.                  *)
LEMMA DeliverAdds ==
  ASSUME TInv, NEW e \in Event, Deliver(e)
  PROVE  /\ \A x : InCalls(x)' <=> InCalls(x) \/ x = e
         /\ Len(calls') = Len(calls) + 1 /\ calls'[1].event = e
         /\ \A i \in 1 .. Len(calls) : calls'[i + 1] = calls[i]
<1> DEFINE c == [event |-> e, rest |-> Snapshot(e.type)]
<1>1. calls \in Seq(Call) /\ c \in Call
  <2>1. Snapshot(e.type) \in Seq(Listeners)
    BY SnapshotType DEF Event, TInv
  <2> QED BY <2>1 DEF TInv, TypeOK, Call
<1>2. calls' = <<c>> \o calls /\ c.event = e
  BY DEF Deliver
<1> HIDE DEF c, Call
<1>3. /\ Len(calls') = Len(calls) + 1 /\ calls'[1] = c
      /\ \A i \in 1 .. Len(calls) : calls'[i + 1] = calls[i]
      /\ Len(calls) \in Nat
  BY <1>1, <1>2
<1>4. ASSUME NEW x PROVE InCalls(x)' <=> InCalls(x) \/ x = e
  <2>1. ASSUME InCalls(x)' PROVE InCalls(x) \/ x = e
    <3>1. PICK i \in 1 .. Len(calls') : calls'[i].event = x
      BY <2>1 DEF InCalls
    <3>2. CASE i = 1
      BY <1>2, <1>3, <3>1, <3>2
    <3>3. CASE i # 1
      <4>1. i - 1 \in 1 .. Len(calls) /\ calls'[(i - 1) + 1] = calls[i - 1] /\ (i - 1) + 1 = i
        BY <1>3, <3>3
      <4> QED BY <3>1, <4>1 DEF InCalls
    <3> QED BY <3>2, <3>3
  <2>2. ASSUME InCalls(x) PROVE InCalls(x)'
    <3>1. PICK i \in 1 .. Len(calls) : calls[i].event = x
      BY <2>2 DEF InCalls
    <3>2. i + 1 \in 1 .. Len(calls') /\ calls'[i + 1].event = x
      BY <1>3, <3>1
    <3> QED BY <3>2 DEF InCalls
  <2>3. ASSUME x = e PROVE InCalls(x)'
    <3>1. 1 \in 1 .. Len(calls')
      BY <1>3
    <3> QED BY <1>2, <1>3, <2>3, <3>1 DEF InCalls
  <2> QED BY <2>1, <2>2, <2>3
<1> QED BY <1>2, <1>3, <1>4

(* A step after which no event is anywhere that it was not before.         *)
LEMMA WayUnchanged ==
  ASSUME TInv, TInv', WayInv, UNCHANGED <<mEventWorkerDataQue, flushed, sent>>,
         loop'.event \in {loop.event, NoEvent},
         \A e : InCalls(e)' => InCalls(e),
         \A t \in Threads : send'[t] = send[t] \/ ~Owns(t)'
  PROVE  WayInv'
<1>1. \A e \in Event : /\ InQueue(e)' <=> InQueue(e)
                       /\ Moved(e)' => Moved(e)
                       /\ loop'.event = e => loop.event = e
  BY NoEventIsNone DEF InQueue, Moved
<1>2. \A t \in Threads : Owns(t)' => Owns(t) /\ send'[t] = send[t]
  BY DEF Owns
<1>3. FreshInv'
  BY <1>1, <1>2 DEF WayInv, FreshInv
<1>4. QueueOrder'
  BY DEF WayInv, QueueOrder
<1>5. OnePlace'
  BY <1>1 DEF WayInv, OnePlace
<1>6. FlushedNeverDelivered'
  <2>1. flushed' \subseteq Event
    BY DEF TInv, TypeOK
  <2>2. loop'.event \notin flushed'
    BY <2>1, NoEventIsNone DEF WayInv, FlushedNeverDelivered
  <2>3. \A e \in flushed : ~InCalls(e)
    BY DEF WayInv, FlushedNeverDelivered, InCalls, TInv, TypeOK
  <2>4. \A e \in flushed : ~InCalls(e)'
    BY <2>3
  <2>5. DOMAIN calls' = 1 .. Len(calls')
    BY DEF TInv, TypeOK
  <2> QED BY <2>2, <2>4, <2>5 DEF FlushedNeverDelivered, InCalls
<1> QED BY <1>3, <1>4, <1>5, <1>6 DEF WayInv

(* Sending, queueing and delivering on the main loop's own thread.         *)
LEMMA WaySend ==
  ASSUME TInv, WayInv, Send
  PROVE  WayInv'
<1>1. PICK t \in Threads, type \in Types,
           mode \in {"DEFAULT_MODE", "SYNC_MODE", "ASYNC_MODE"} :
        SendEvent(t, type, mode)
  BY DEF Send
<1> DEFINE e == [n |-> sent + 1, type |-> type, by |-> t]
           a == IF IsSync(t, mode) THEN "sync" ELSE "push"
<1>2. /\ sent' = sent + 1
      /\ send' = [send EXCEPT ![t] = [Idle EXCEPT !.at = a, !.event = e]]
      /\ UNCHANGED <<mEventWorkerDataQue, loop, calls, flushed>>
  BY <1>1 DEF SendEvent, ghostVars
<1>3. \A u \in Threads : u # t => send'[u] = send[u]
  BY <1>2 DEF TInv, TypeOK
<1>4. send'[t].event = e
  BY <1>2 DEF TInv, TypeOK, Idle
<1>5. \A x : /\ Moved(x)' <=> Moved(x)
             /\ InQueue(x)' <=> InQueue(x)
             /\ InCalls(x)' <=> InCalls(x)
  BY <1>2 DEF Moved, InQueue, InCalls
<1>6. sent \in Nat /\ e.n = sent + 1 /\ e.by = t /\ \A x \in Event : x.n \in Nat
  BY EventManagerAssumption DEF TInv, TypeOK, Event
<1> HIDE DEF e, a
<1>7. ASSUME NEW u \in Threads, Owns(u)'
      PROVE  /\ send'[u].event.by = u /\ send'[u].event.n <= sent'
             /\ \A x \in Event : Moved(x)' /\ x.by = u => x.n < send'[u].event.n
  <2>1. CASE u = t
    <3>1. \A x \in Event : Moved(x) => x.n <= sent
      BY DEF WayInv, FreshInv
    <3> QED BY <1>2, <1>4, <1>5, <1>6, <2>1, <3>1
  <2>2. CASE u # t
    <3>1. Owns(u) /\ send'[u] = send[u]
      BY <1>3, <1>7, <2>2 DEF Owns
    <3>2. send[u].event \in Event
      BY <3>1 DEF Owns, TInv, SendInv
    <3> QED BY <1>2, <1>5, <1>6, <3>1, <3>2 DEF WayInv, FreshInv
  <2> QED BY <2>1, <2>2
<1>8. FreshInv'
  BY <1>2, <1>5, <1>6, <1>7 DEF WayInv, FreshInv
<1> QED BY <1>2, <1>5, <1>8 DEF WayInv, QueueOrder, OnePlace, FlushedNeverDelivered

LEMMA WayQueue ==
  ASSUME TInv, WayInv, NEW t \in Threads, SendEventAsync(t)
  PROVE  WayInv'
<1> DEFINE e == send[t].event
<1>1. /\ mEventWorkerDataQue' = Append(mEventWorkerDataQue, e)
      /\ send' = [send EXCEPT ![t] = [Idle EXCEPT !.at = "pushed"]]
      /\ UNCHANGED <<loop, calls, flushed, sent>>
  BY DEF SendEventAsync, Queued, ghostVars
<1>2. /\ Owns(t) /\ e \in Event /\ mEventWorkerDataQue \in Seq(Event)
      /\ ~Owns(t)' /\ \A u \in Threads : u # t => send'[u] = send[u]
  BY <1>1 DEF SendEventAsync, Owns, TInv, TypeOK, SendInv, Idle
<1>3. /\ e.by = t /\ e.n <= sent
      /\ \A x \in Event : Moved(x) /\ x.by = t => x.n < e.n
  BY <1>2 DEF WayInv, FreshInv
<1>4. \A x \in Event : x.n \in Nat
  BY DEF Event
<1> HIDE DEF e
<1>5. /\ Len(mEventWorkerDataQue') = Len(mEventWorkerDataQue) + 1
      /\ Len(mEventWorkerDataQue) \in Nat
      /\ mEventWorkerDataQue'[Len(mEventWorkerDataQue) + 1] = e
      /\ \A i \in 1 .. Len(mEventWorkerDataQue) : mEventWorkerDataQue'[i] = mEventWorkerDataQue[i]
  BY <1>1, <1>2
<1>6. \A x : /\ InQueue(x)' <=> InQueue(x) \/ x = e
             /\ InCalls(x)' <=> InCalls(x)
             /\ Moved(x)' <=> Moved(x) \/ x = e
  BY <1>1, <1>5 DEF InQueue, InCalls, Moved
<1>7. ~Moved(e)
  BY <1>2, <1>3, <1>4
<1>8. FreshInv'
  <2>1. ASSUME NEW u \in Threads, Owns(u)'
        PROVE  /\ send'[u].event.by = u /\ send'[u].event.n <= sent'
               /\ \A x \in Event : Moved(x)' /\ x.by = u => x.n < send'[u].event.n
    <3>1. u # t /\ Owns(u) /\ send'[u] = send[u]
      BY <1>2, <2>1 DEF Owns
    <3> QED BY <1>1, <1>3, <1>6, <3>1 DEF WayInv, FreshInv
  <2> QED BY <1>1, <1>3, <1>6, <2>1 DEF WayInv, FreshInv
<1>9. QueueOrder'
  <2>1. \A i \in 1 .. Len(mEventWorkerDataQue) :
          mEventWorkerDataQue[i].by = t => mEventWorkerDataQue[i].n < e.n
    BY <1>2, <1>3 DEF Moved, InQueue
  <2> QED BY <1>3, <1>5, <2>1 DEF WayInv, QueueOrder
<1>10. OnePlace'
  BY <1>1, <1>6, <1>7 DEF WayInv, OnePlace, Moved
<1> QED BY <1>1, <1>8, <1>9, <1>10 DEF WayInv, FlushedNeverDelivered

LEMMA WaySync ==
  ASSUME TInv, TInv', WayInv, SendEventSync \/ AsyncEventDeliver
  PROVE  WayInv'
<1>0. Loop \in Threads
  BY DEF Threads
<1> DEFINE e == IF SendEventSync THEN send[Loop].event ELSE loop.event
<1>1. /\ Deliver(e) /\ e \in Event /\ ~InQueue(e) /\ e \notin flushed /\ e.n <= sent
      /\ UNCHANGED <<mEventWorkerDataQue, flushed, sent>>
      /\ loop'.event \in {loop.event, NoEvent}
      /\ \A t \in Threads : send'[t] = send[t] \/ ~Owns(t)'
  <2>1. CASE SendEventSync
    <3>1. Owns(Loop) /\ e = send[Loop].event /\ e \in Event
      BY <1>0, <2>1 DEF SendEventSync, Owns, TInv, SendInv
    <3>2. e.by = Loop /\ e.n <= sent /\ \A x \in Event : Moved(x) /\ x.by = Loop => x.n < e.n
      BY <1>0, <3>1 DEF WayInv, FreshInv
    <3>3. e.n \in Nat
      BY <3>1 DEF Event
    <3>4. ~InQueue(e) /\ e \notin flushed
      BY <3>1, <3>2, <3>3 DEF Moved
    <3>5. \A t \in Threads : send'[t] = send[t] \/ ~Owns(t)'
      BY <2>1, NoEventIsNone DEF SendEventSync, Owns, TInv, TypeOK
    <3> QED BY <2>1, <3>1, <3>2, <3>4, <3>5 DEF SendEventSync, ghostVars
  <2>2. CASE ~SendEventSync
    <3>1. AsyncEventDeliver /\ e = loop.event /\ e \in Event
      BY <2>2 DEF AsyncEventDeliver, TInv, LoopInv
    <3>2. e.n <= sent /\ ~InQueue(e) /\ e \notin flushed
      BY <3>1 DEF WayInv, FreshInv, Moved, OnePlace, FlushedNeverDelivered
    <3> QED BY <3>1, <3>2, NoEventIsNone DEF AsyncEventDeliver, ghostVars
  <2> QED BY <2>1, <2>2
<1>b. \A t \in Threads : Owns(t)' /\ e.by = t => e.n < send[t].event.n
  <2>1. CASE SendEventSync
    <3>1. e.by = Loop /\ ~Owns(Loop)'
      BY <1>0, <2>1, NoEventIsNone DEF SendEventSync, Owns, TInv, TypeOK, WayInv, FreshInv
    <3> QED BY <3>1
  <2>2. CASE ~SendEventSync
    <3>1. AsyncEventDeliver /\ e = loop.event /\ UNCHANGED send
      BY <2>2 DEF AsyncEventDeliver
    <3> QED BY <1>1, <3>1 DEF WayInv, FreshInv, Moved, Owns
  <2> QED BY <2>1, <2>2
<1> HIDE DEF e
<1>2. \A x : InCalls(x)' <=> InCalls(x) \/ x = e
  BY <1>1, DeliverAdds
<1>3. \A x \in Event : /\ InQueue(x)' <=> InQueue(x)
                       /\ Moved(x)' => Moved(x) \/ x = e
                       /\ loop'.event = x => loop.event = x
  BY <1>1, <1>2, NoEventIsNone DEF InQueue, Moved
<1>4. \A t \in Threads : Owns(t)' => Owns(t) /\ send'[t] = send[t]
  BY <1>1 DEF Owns
<1>5. FreshInv'
  BY <1>1, <1>3, <1>4, <1>b DEF WayInv, FreshInv
<1>6. OnePlace'
  BY <1>1, <1>2, <1>3 DEF WayInv, OnePlace
<1>7. FlushedNeverDelivered'
  <2>1. loop'.event \notin flushed'
    BY <1>1, NoEventIsNone DEF WayInv, FlushedNeverDelivered, TInv, TypeOK
  <2>a. \A x \in flushed : ~InCalls(x)
    BY DEF WayInv, FlushedNeverDelivered, InCalls, TInv, TypeOK
  <2>2. \A x \in flushed' : ~InCalls(x)'
    BY <1>1, <1>2, <2>a
  <2>3. DOMAIN calls' = 1 .. Len(calls')
    BY DEF TInv, TypeOK
  <2> QED BY <2>1, <2>2, <2>3 DEF FlushedNeverDelivered, InCalls
<1> QED BY <1>1, <1>5, <1>6, <1>7 DEF WayInv, QueueOrder

(* The main loop takes an event out of the queue; a flush takes them all.  *)
LEMMA WayTake ==
  ASSUME TInv, WayInv, AsyncEvent, mEventWorkerDataQue # <<>>
  PROVE  WayInv'
<1>0. PICK e : e = Head(mEventWorkerDataQue)
  OBVIOUS
<1>1. /\ loop' = [Idle EXCEPT !.at = "popped", !.event = e]
      /\ mEventWorkerDataQue' = Tail(mEventWorkerDataQue)
      /\ UNCHANGED <<calls, flushed, sent, send>>
  BY <1>0 DEF AsyncEvent, ghostVars
<1>2. loop'.event = e
  BY <1>1 DEF Idle
<1>3. /\ mEventWorkerDataQue \in Seq(Event) /\ e \in Event
      /\ Len(mEventWorkerDataQue) \in Nat \ {0} /\ e = mEventWorkerDataQue[1]
      /\ Len(mEventWorkerDataQue') = Len(mEventWorkerDataQue) - 1
      /\ \A i \in 1 .. Len(mEventWorkerDataQue) - 1 :
           mEventWorkerDataQue'[i] = mEventWorkerDataQue[i + 1]
  <2>1. mEventWorkerDataQue \in Seq(Event)
    BY DEF TInv, TypeOK
  <2> QED BY <1>0, <1>1, <2>1
<1>4. \A x : InQueue(x)' => InQueue(x)
  BY <1>3 DEF InQueue
<1>5. InQueue(e)
  <2>1. 1 \in 1 .. Len(mEventWorkerDataQue)
    BY <1>3
  <2> QED BY <1>3, <2>1 DEF InQueue
<1>6. ~InQueue(e)'
  <2>1. \A i \in 1 .. Len(mEventWorkerDataQue) - 1 : mEventWorkerDataQue[i + 1] # mEventWorkerDataQue[1]
    <3> SUFFICES ASSUME NEW i \in 1 .. Len(mEventWorkerDataQue) - 1,
                        mEventWorkerDataQue[i + 1] = mEventWorkerDataQue[1]
                 PROVE  FALSE
      OBVIOUS
    <3>1. i + 1 \in 1 .. Len(mEventWorkerDataQue) /\ 1 \in 1 .. Len(mEventWorkerDataQue) /\ 1 < i + 1
      BY <1>3
    <3>2. mEventWorkerDataQue[1].n < mEventWorkerDataQue[i + 1].n
      BY <3>1 DEF WayInv, QueueOrder
    <3>3. mEventWorkerDataQue[1].n \in Nat
      BY <1>3 DEF Event
    <3> QED BY <3>2, <3>3
  <2>2. ASSUME InQueue(e)' PROVE FALSE
    <3>1. PICK i \in 1 .. Len(mEventWorkerDataQue') : mEventWorkerDataQue'[i] = e
      BY <2>2 DEF InQueue
    <3>2. i \in 1 .. Len(mEventWorkerDataQue) - 1
      BY <1>3
    <3> QED BY <1>3, <2>1, <3>1, <3>2
  <2> QED BY <2>2
<1>7. \A x : /\ InCalls(x)' <=> InCalls(x)
             /\ Moved(x)' => Moved(x)
  BY <1>1, <1>2, <1>4, <1>5 DEF InCalls, Moved
<1>8. FreshInv'
  BY <1>1, <1>7 DEF WayInv, FreshInv, Owns
<1>9. QueueOrder'
  <2> SUFFICES ASSUME NEW i \in 1 .. Len(mEventWorkerDataQue'),
                      NEW j \in 1 .. Len(mEventWorkerDataQue'), i < j,
                      mEventWorkerDataQue'[i].by = mEventWorkerDataQue'[j].by
               PROVE  mEventWorkerDataQue'[i].n < mEventWorkerDataQue'[j].n
    BY DEF QueueOrder
  <2>1. /\ i + 1 \in 1 .. Len(mEventWorkerDataQue)
        /\ j + 1 \in 1 .. Len(mEventWorkerDataQue) /\ i + 1 < j + 1
        /\ mEventWorkerDataQue'[i] = mEventWorkerDataQue[i + 1]
        /\ mEventWorkerDataQue'[j] = mEventWorkerDataQue[j + 1]
    BY <1>3
  <2> QED BY <2>1 DEF WayInv, QueueOrder
<1>10. OnePlace'
  <2> SUFFICES ASSUME NEW x \in Event, InQueue(x)'
               PROVE  ~InCalls(x)' /\ loop'.event # x /\ x \notin flushed'
    BY DEF OnePlace
  <2>1. InQueue(x) /\ x # e
    BY <1>4, <1>6
  <2> QED BY <1>1, <1>2, <1>7, <2>1 DEF WayInv, OnePlace
<1>11. FlushedNeverDelivered'
  BY <1>1, <1>2, <1>3, <1>5 DEF WayInv, FlushedNeverDelivered, OnePlace
<1> QED BY <1>8, <1>9, <1>10, <1>11 DEF WayInv

LEMMA WayFlush ==
  ASSUME TInv, WayInv, FlushPendingEvents \/ Destroy
  PROVE  WayInv'
<1>1. /\ mEventWorkerDataQue' = <<>>
      /\ flushed' = flushed \union Range(mEventWorkerDataQue)
      /\ UNCHANGED <<send, loop, calls, sent>>
  BY DEF FlushPendingEvents, Destroy, Flush
<1>2. \A x : /\ InCalls(x)' <=> InCalls(x)
             /\ ~InQueue(x)'
             /\ x \in flushed' <=> x \in flushed \/ InQueue(x)
  BY <1>1, QueueRange DEF InCalls, InQueue
<1>3. \A x : Moved(x)' <=> Moved(x)
  BY <1>1, <1>2 DEF Moved
<1>4. FreshInv'
  BY <1>1, <1>3 DEF WayInv, FreshInv, Owns
<1>5. QueueOrder' /\ OnePlace'
  BY <1>1, <1>2 DEF QueueOrder, OnePlace
<1>6. FlushedNeverDelivered'
  <2>1. loop.event \notin flushed'
    BY <1>2, QueueRange DEF WayInv, OnePlace, FlushedNeverDelivered
  <2>2. \A i \in DOMAIN calls : calls[i].event \notin flushed'
    <3> SUFFICES ASSUME NEW i \in DOMAIN calls PROVE calls[i].event \notin flushed'
      OBVIOUS
    <3>1. i \in 1 .. Len(calls)
      BY DEF TInv, TypeOK
    <3>2. InCalls(calls[i].event)
      BY <3>1 DEF InCalls
    <3>3. ~InQueue(calls[i].event)
      BY <3>2, QueueRange DEF WayInv, OnePlace
    <3> QED BY <1>2, <3>3 DEF WayInv, FlushedNeverDelivered
  <2> QED BY <1>1, <2>1, <2>2 DEF FlushedNeverDelivered
<1> QED BY <1>4, <1>5, <1>6 DEF WayInv

(* The events of a thread's deliveries do not become more when a listener  *)
(* is called, or when the last one has been.                               *)
LEMMA CallsShrink ==
  ASSUME TInv, CallListener \/ AllCalled
  PROVE  /\ calls # <<>> /\ Head(calls) = calls[1] /\ Len(calls) \in Nat \ {0}
         /\ \A i \in 1 .. Len(calls') : \E j \in 1 .. Len(calls) :
              calls'[i].event = calls[j].event /\ i <= j
         /\ \A e : InCalls(e)' => InCalls(e)
<1>1. calls \in Seq(Call) /\ calls # <<>>
  BY DEF TInv, TypeOK, Call, CallListener, AllCalled
<1>2. \A i \in 1 .. Len(calls) : calls[i] \in Call
  BY <1>1, ElementOfSeq
<1>3. Head(calls) = calls[1] /\ Len(calls) \in Nat \ {0}
  <2> HIDE DEF Call
  <2> QED BY <1>1
<1>4. \A i \in 1 .. Len(calls') : \E j \in 1 .. Len(calls) :
        calls'[i].event = calls[j].event /\ i <= j
  <2>1. CASE CallListener
    <3>1. /\ Len(calls') = Len(calls)
          /\ \A i \in 1 .. Len(calls) : calls'[i].event = calls[i].event
      BY <1>1, <1>2, <2>1 DEF CallListener, Call
    <3> QED BY <1>3, <3>1
  <2>2. CASE AllCalled
    <3>1. calls' = Tail(calls)
      BY <2>2 DEF AllCalled
    <3>2. /\ Len(calls') = Len(calls) - 1
          /\ \A i \in 1 .. Len(calls) - 1 : calls'[i] = calls[i + 1]
      <4> HIDE DEF Call
      <4> QED BY <1>1, <1>3, <3>1
    <3> SUFFICES ASSUME NEW i \in 1 .. Len(calls')
                 PROVE  \E j \in 1 .. Len(calls) : calls'[i].event = calls[j].event /\ i <= j
      OBVIOUS
    <3>3. i + 1 \in 1 .. Len(calls) /\ i <= i + 1 /\ calls'[i] = calls[i + 1]
      BY <1>3, <3>2
    <3> QED BY <3>3
  <2> QED BY <2>1, <2>2
<1>5. \A e : InCalls(e)' => InCalls(e)
  BY <1>4 DEF InCalls
<1> QED BY <1>1, <1>3, <1>4, <1>5

LEMMA WayStep ==
  ASSUME TInv, TInv', WayInv, [Next]_vars
  PROVE  WayInv'
<1>1. CASE Register \/ Configure \/ UNCHANGED vars
  <2>1. UNCHANGED <<mEventWorkerDataQue, flushed, sent, loop, calls, send>>
    BY <1>1 DEF Register, Configure, AddEventListener, RemoveEventListener,
         SetFakeTuneFlag, SetAsyncTuneState, vars, ghostVars
  <2> QED BY <2>1, WayUnchanged DEF InCalls
<1>2. CASE Send
  BY <1>2, WaySend
<1>3. ASSUME NEW t \in Threads, SenderStep(t) PROVE WayInv'
  <2>1. CASE SendEventAsync(t)
    BY <2>1, WayQueue
  <2>2. CASE IdleAdd(t) \/ SetCallbackAsPending(t)
    <3>1. UNCHANGED <<mEventWorkerDataQue, flushed, sent, loop, calls>>
      BY <2>2 DEF IdleAdd, SetCallbackAsPending, ghostVars
    <3>2. \A u \in Threads : send'[u] = send[u] \/ ~Owns(u)'
      BY <2>2, NoEventIsNone DEF IdleAdd, SetCallbackAsPending, Owns, TInv, TypeOK, ThreadState
    <3> QED BY <3>1, <3>2, WayUnchanged DEF InCalls
  <2> QED BY <1>3, <2>1, <2>2 DEF SenderStep
<1>4. CASE SendEventSync \/ AsyncEventDeliver
  BY <1>4, WaySync
<1>5. CASE CallListener \/ AllCalled
  <2>1. UNCHANGED <<mEventWorkerDataQue, flushed, sent, loop, send>>
    BY <1>5 DEF CallListener, AllCalled, ghostVars
  <2> QED BY <1>5, <2>1, CallsShrink, WayUnchanged
<1>6. CASE Dispatch \/ SetCallbackAsDispatched
  <2>1. UNCHANGED <<mEventWorkerDataQue, flushed, sent, calls, send>>
    BY <1>6 DEF Dispatch, EventManagerThreadFunction, SetCallbackAsDispatched, ghostVars
  <2>2. loop'.event \in {loop.event, NoEvent}
    BY <1>6 DEF Dispatch, EventManagerThreadFunction, SetCallbackAsDispatched, Idle,
         TInv, TypeOK, LoopState
  <2> QED BY <2>1, <2>2, WayUnchanged DEF InCalls
<1>7. CASE AsyncEvent
  <2>1. CASE mEventWorkerDataQue = <<>>
    <3>1. UNCHANGED <<mEventWorkerDataQue, flushed, sent, calls, send>> /\ loop' = Idle
      BY <1>7, <2>1 DEF AsyncEvent, ghostVars
    <3> QED BY <3>1, NoEventIsNone, WayUnchanged DEF InCalls
  <2>2. CASE mEventWorkerDataQue # <<>>
    BY <1>7, <2>2, WayTake
  <2> QED BY <2>1, <2>2
<1>8. CASE FlushPendingEvents \/ Destroy
  BY <1>8, WayFlush
<1> QED BY <1>1, <1>2, <1>3, <1>4, <1>5, <1>6, <1>7, <1>8 DEF Next, LoopStep

LEMMA WayInit == Init => WayInv
<1> SUFFICES ASSUME Init PROVE WayInv
  OBVIOUS
<1>1. /\ mEventWorkerDataQue = <<>> /\ calls = <<>> /\ flushed = {} /\ loop = Idle
      /\ \A t \in Threads : ~Owns(t)
  BY NoEventIsNone DEF Init, Owns
<1>2. \A e \in Event : ~InQueue(e) /\ ~Moved(e)
  BY <1>1, NoEventIsNone DEF InQueue, InCalls, Moved
<1> QED BY <1>1, <1>2 DEF WayInv, FreshInv, QueueOrder, OnePlace, FlushedNeverDelivered

(* An event that FlushPendingEvents or the destructor took from the queue  *)
(* is never delivered: the event that the main loop has taken out, and     *)
(* those being delivered, were all out of the queue when it was flushed.   *)
THEOREM FlushedStaysFlushed == Spec => []FlushedNeverDelivered
<1>1. Spec => [](TInv /\ WayInv)
  <2>1. TInv /\ TInv' /\ WayInv /\ [Next]_vars => WayInv'
    BY WayStep
  <2> QED BY <2>1, BookHolds, WayInit, PTL DEF Spec
<1>2. WayInv => FlushedNeverDelivered
  BY DEF WayInv
<1> QED BY <1>1, <1>2, PTL

------------------------------------------------------------------------------
(* The order in which a listener gets the events of a background thread.   *)
Ahead(e)   == InCalls(e) \/ loop.event = e
Pending(e) == InQueue(e) \/ Ahead(e)

(* The main loop takes an event out of the queue only when it delivers     *)
(* none, so a delivery from the queue is the outermost one, ...            *)
AloneInv ==
  /\ loop # Idle => calls = <<>> /\ send[Loop] = Idle
  /\ \A i \in 1 .. Len(calls) : calls[i].event.by # Loop => i = Len(calls)

(* ... what is queued is newer than what is being delivered, ...           *)
CallOrder ==
  \A x, y \in Event :
    Ahead(x) /\ InQueue(y) /\ x.by = y.by /\ x.by # Loop => x.n < y.n

(* ... and nothing that a listener has yet to get is older than what it    *)
(* has got.                                                                *)
LatestInv ==
  \A l \in Listeners, t \in Background :
    /\ latest[l][t] <= sent
    /\ Owns(t) => latest[l][t] <= send[t].event.n
    /\ \A e \in Event : Pending(e) /\ e.by = t => latest[l][t] <= e.n

OrderInv == AloneInv /\ CallOrder /\ LatestInv

(* What a step adds to the events that wait: the one its sender had.       *)
LEMMA PendingGrows ==
  ASSUME TInv, WayInv, Next
  PROVE  \A e \in Event : Pending(e)' => Pending(e) \/ (Owns(e.by) /\ send[e.by].event = e)
<1>1. CASE Register \/ Configure \/ Send \/ Dispatch \/ SetCallbackAsDispatched
  <2>1. UNCHANGED <<mEventWorkerDataQue, calls>> /\ loop'.event \in {loop.event, NoEvent}
    BY <1>1 DEF Register, Configure, AddEventListener, RemoveEventListener,
         SetFakeTuneFlag, SetAsyncTuneState, Send, SendEvent, Dispatch,
         EventManagerThreadFunction, SetCallbackAsDispatched, ghostVars, Idle,
         TInv, TypeOK, LoopState
  <2> QED BY <2>1, NoEventIsNone DEF Pending, Ahead, InQueue, InCalls
<1>2. ASSUME NEW t \in Threads, IdleAdd(t) \/ SetCallbackAsPending(t)
      PROVE  \A e \in Event : Pending(e)' => Pending(e)
  BY <1>2 DEF IdleAdd, SetCallbackAsPending, Pending, Ahead, InQueue, InCalls
<1>3. ASSUME NEW t \in Threads, SendEventAsync(t)
      PROVE  \A e \in Event : Pending(e)' => Pending(e) \/ (Owns(e.by) /\ send[e.by].event = e)
  <2>1. /\ mEventWorkerDataQue' = Append(mEventWorkerDataQue, send[t].event)
        /\ UNCHANGED <<loop, calls>> /\ Owns(t)
    BY <1>3 DEF SendEventAsync, Queued, Owns
  <2>2. send[t].event \in Event /\ send[t].event.by = t /\ mEventWorkerDataQue \in Seq(Event)
    BY <2>1 DEF Owns, TInv, TypeOK, SendInv, WayInv, FreshInv
  <2>3. \A x : InQueue(x)' => InQueue(x) \/ x = send[t].event
    BY <2>1, <2>2 DEF InQueue
  <2> QED BY <2>1, <2>2, <2>3 DEF Pending, Ahead, InCalls
<1>4. CASE SendEventSync
  <2>0. Loop \in Threads
    BY DEF Threads
  <2>1. Owns(Loop) /\ send[Loop].event \in Event /\ UNCHANGED <<mEventWorkerDataQue, loop>>
    BY <1>4, <2>0 DEF SendEventSync, Owns, TInv, SendInv
  <2>2. send[Loop].event.by = Loop
    BY <2>0, <2>1 DEF WayInv, FreshInv
  <2>3. \A x : InCalls(x)' <=> InCalls(x) \/ x = send[Loop].event
    BY <1>4, <2>1, DeliverAdds DEF SendEventSync
  <2> QED BY <2>1, <2>2, <2>3 DEF Pending, Ahead, InQueue
<1>5. CASE AsyncEventDeliver
  <2>1. loop.event \in Event /\ UNCHANGED mEventWorkerDataQue /\ loop'.event = NoEvent
    BY <1>5, NoEventIsNone DEF AsyncEventDeliver, TInv, LoopInv
  <2>2. \A x : InCalls(x)' <=> InCalls(x) \/ x = loop.event
    BY <1>5, <2>1, DeliverAdds DEF AsyncEventDeliver
  <2> QED BY <2>1, <2>2, NoEventIsNone DEF Pending, Ahead, InQueue
<1>6. CASE CallListener \/ AllCalled
  <2>1. UNCHANGED <<mEventWorkerDataQue, loop>>
    BY <1>6 DEF CallListener, AllCalled
  <2> QED BY <1>6, <2>1, CallsShrink DEF Pending, Ahead, InQueue
<1>7. CASE AsyncEvent
  <2>1. CASE mEventWorkerDataQue = <<>>
    BY <1>7, <2>1, NoEventIsNone DEF AsyncEvent, Pending, Ahead, InQueue, InCalls
  <2>2. CASE mEventWorkerDataQue # <<>>
    <3>1. /\ loop'.event = Head(mEventWorkerDataQue) /\ UNCHANGED calls
          /\ mEventWorkerDataQue' = Tail(mEventWorkerDataQue)
      BY <1>7, <2>2 DEF AsyncEvent, Idle
    <3>2. mEventWorkerDataQue \in Seq(Event)
      BY DEF TInv, TypeOK
    <3>3. \A x : InQueue(x)' => InQueue(x)
      BY <2>2, <3>1, <3>2 DEF InQueue
    <3>4. InQueue(Head(mEventWorkerDataQue))
      BY <2>2, <3>2 DEF InQueue
    <3> QED BY <3>1, <3>3, <3>4 DEF Pending, Ahead, InCalls
  <2> QED BY <2>1, <2>2
<1>8. CASE FlushPendingEvents \/ Destroy
  <2>1. mEventWorkerDataQue' = <<>> /\ UNCHANGED <<loop, calls>>
    BY <1>8 DEF FlushPendingEvents, Destroy, Flush
  <2>2. \A x : ~InQueue(x)'
    BY <2>1 DEF InQueue
  <2> QED BY <2>1, <2>2 DEF Pending, Ahead, InCalls
<1> QED BY <1>1, <1>2, <1>3, <1>4, <1>5, <1>6, <1>7, <1>8 DEF Next, LoopStep, SenderStep

(* Taking an event out leaves only events that were queued.               *)
LEMMA TakeShrinks ==
  ASSUME TInv, AsyncEvent
  PROVE  \A e : InQueue(e)' => InQueue(e)
<1>1. mEventWorkerDataQue \in Seq(Event)
  BY DEF TInv, TypeOK
<1>2. mEventWorkerDataQue # <<>> => mEventWorkerDataQue' = Tail(mEventWorkerDataQue)
  BY DEF AsyncEvent
<1>3. mEventWorkerDataQue = <<>> => mEventWorkerDataQue' = <<>>
  BY DEF AsyncEvent
<1> QED BY <1>1, <1>2, <1>3 DEF InQueue

(* A thread that has an event after a step had it before, or has got the   *)
(* newest.                                                                 *)
LEMMA OwnsNewest ==
  ASSUME TInv, Next
  PROVE  /\ sent \in Nat /\ sent' \in {sent, sent + 1}
         /\ \A t \in Threads : Owns(t)' =>
              \/ Owns(t) /\ send'[t] = send[t]
              \/ sent' = sent + 1 /\ send'[t].event.n = sent + 1
<1>0. sent \in Nat
  BY EventManagerAssumption DEF TInv, TypeOK
<1>1. CASE Register \/ Configure \/ (LoopStep /\ ~SendEventSync) \/ FlushPendingEvents \/ Destroy
  <2>1. UNCHANGED <<send, sent>>
    BY <1>1 DEF Register, Configure, AddEventListener, RemoveEventListener,
         SetFakeTuneFlag, SetAsyncTuneState, Dispatch, LoopStep, CallListener, AllCalled,
         EventManagerThreadFunction, SetCallbackAsDispatched, AsyncEvent, AsyncEventDeliver,
         FlushPendingEvents, Destroy
  <2> QED BY <1>0, <2>1 DEF Owns
<1>2. CASE SendEventSync
  BY <1>0, <1>2, NoEventIsNone DEF SendEventSync, Owns, TInv, TypeOK
<1>3. ASSUME NEW t \in Threads, SenderStep(t)
      PROVE  UNCHANGED sent /\ \A u \in Threads : Owns(u)' => Owns(u) /\ send'[u] = send[u]
  BY <1>3, NoEventIsNone DEF SenderStep, SendEventAsync, IdleAdd, SetCallbackAsPending, Owns,
       TInv, TypeOK, ThreadState, Idle
<1>4. CASE Send
  <2>1. PICK t \in Threads, type \in Types,
             mode \in {"DEFAULT_MODE", "SYNC_MODE", "ASYNC_MODE"} :
          SendEvent(t, type, mode)
    BY <1>4 DEF Send
  <2>2. sent' = sent + 1 /\ \A u \in Threads : u # t => send'[u] = send[u]
    BY <2>1 DEF SendEvent, TInv, TypeOK
  <2>3. send'[t].event.n = sent + 1
    BY <2>1, <2>2 DEF SendEvent, TInv, TypeOK, Idle
  <2> QED BY <1>0, <2>2, <2>3 DEF Owns
<1> QED BY <1>0, <1>1, <1>2, <1>3, <1>4 DEF Next, LoopStep

LEMMA AloneStep ==
  ASSUME TInv, TInv', WayInv, AloneInv, Next
  PROVE  AloneInv'
<1>0. Loop \in Threads
  BY DEF Threads
<1>1. CASE Register \/ Configure \/ FlushPendingEvents \/ Destroy
  <2>1. UNCHANGED <<send, loop, calls>>
    BY <1>1 DEF Register, Configure, AddEventListener, RemoveEventListener,
         SetFakeTuneFlag, SetAsyncTuneState, FlushPendingEvents, Destroy
  <2> QED BY <2>1 DEF AloneInv
<1>2. CASE Send
  <2>1. UNCHANGED <<loop, calls>> /\ (send'[Loop] # send[Loop] => loop = Idle)
    BY <1>0, <1>2 DEF Send, SendEvent, Free, TInv, TypeOK
  <2> QED BY <2>1 DEF AloneInv
<1>3. ASSUME NEW t \in Threads, SenderStep(t)
      PROVE  AloneInv'
  <2>1. UNCHANGED <<loop, calls>> /\ (t # Loop => send'[Loop] = send[Loop]) /\ send[t] # Idle
    BY <1>0, <1>3 DEF SenderStep, SendEventAsync, IdleAdd, SetCallbackAsPending, TInv, TypeOK, Idle
  <2> QED BY <2>1 DEF AloneInv
<1>4. CASE CallListener \/ AllCalled
  <2>1. loop' = Idle
    BY <1>4 DEF CallListener, AllCalled
  <2>2. calls \in Seq(Call) /\ calls # <<>>
    BY <1>4 DEF TInv, TypeOK, Call, CallListener, AllCalled
  <2>3. \A i \in 1 .. Len(calls) : calls[i] \in Call
    BY <2>2, ElementOfSeq
  <2>4. CASE CallListener
    <3>1. /\ Len(calls') = Len(calls)
          /\ \A i \in 1 .. Len(calls) : calls'[i].event = calls[i].event
      BY <2>2, <2>3, <2>4 DEF CallListener, Call
    <3> QED BY <2>1, <3>1 DEF AloneInv
  <2>5. CASE AllCalled
    <3>1. calls' = Tail(calls)
      BY <2>5 DEF AllCalled
    <3>2. /\ Len(calls') = Len(calls) - 1 /\ Len(calls) \in Nat
          /\ \A i \in 1 .. Len(calls) - 1 : calls'[i] = calls[i + 1]
      <4> HIDE DEF Call
      <4> QED BY <2>2, <3>1
    <3>3. ASSUME NEW i \in 1 .. Len(calls'), calls'[i].event.by # Loop
          PROVE  i = Len(calls')
      <4>1. i + 1 \in 1 .. Len(calls) /\ calls[i + 1].event.by # Loop
        BY <3>2, <3>3
      <4>2. i + 1 = Len(calls)
        BY <4>1 DEF AloneInv
      <4> QED BY <3>2, <4>2
    <3> QED BY <2>1, <3>3 DEF AloneInv
  <2> QED BY <1>4, <2>4, <2>5
<1>5. CASE Dispatch \/ SetCallbackAsDispatched \/ AsyncEvent
  <2>1. CASE Dispatch
    BY <2>1 DEF Dispatch, EventManagerThreadFunction, AloneInv
  <2>2. CASE SetCallbackAsDispatched \/ AsyncEvent
    <3>1. loop # Idle /\ UNCHANGED <<send, calls>>
      BY <2>2 DEF SetCallbackAsDispatched, AsyncEvent, Idle
    <3> QED BY <3>1 DEF AloneInv
  <2> QED BY <1>5, <2>1, <2>2
<1>6. CASE SendEventSync
  <2>1. loop' = Idle
    BY <1>6 DEF SendEventSync, AloneInv, Idle
  <2>2. PICK e \in Event : e = send[Loop].event
    BY <1>0, <1>6 DEF SendEventSync, TInv, SendInv
  <2>3. Deliver(e) /\ e.by = Loop
    BY <1>0, <1>6, <2>2 DEF SendEventSync, Owns, WayInv, FreshInv
  <2>4. /\ Len(calls') = Len(calls) + 1 /\ calls'[1].event = e
        /\ \A i \in 1 .. Len(calls) : calls'[i + 1] = calls[i]
    BY <2>3, DeliverAdds
  <2>5. Len(calls) \in Nat
    BY DEF TInv, TypeOK
  <2>6. ASSUME NEW i \in 1 .. Len(calls'), calls'[i].event.by # Loop
        PROVE  i = Len(calls')
    <3>1. i # 1
      BY <2>3, <2>4, <2>6
    <3>2. i - 1 \in 1 .. Len(calls) /\ (i - 1) + 1 = i
      BY <2>4, <2>5, <3>1
    <3>3. calls[i - 1].event.by # Loop
      BY <2>4, <2>6, <3>2
    <3>4. i - 1 = Len(calls)
      BY <3>2, <3>3 DEF AloneInv
    <3> QED BY <2>4, <2>5, <3>4
  <2> QED BY <2>1, <2>6 DEF AloneInv
<1>7. CASE AsyncEventDeliver
  <2>1. loop' = Idle /\ calls = <<>> /\ loop.event \in Event /\ Deliver(loop.event)
    BY <1>7 DEF AsyncEventDeliver, AloneInv, Idle, TInv, LoopInv
  <2>2. Len(calls') = Len(calls) + 1 /\ Len(calls) = 0
    BY <2>1, DeliverAdds
  <2> QED BY <2>1, <2>2 DEF AloneInv
<1> QED BY <1>1, <1>2, <1>3, <1>4, <1>5, <1>6, <1>7 DEF Next, LoopStep

LEMMA CallOrderStep ==
  ASSUME TInv, TInv', WayInv, AloneInv, CallOrder, Next
  PROVE  CallOrder'
<1> SUFFICES ASSUME NEW x \in Event, NEW y \in Event,
                    Ahead(x)', InQueue(y)', x.by = y.by, x.by # Loop
             PROVE  x.n < y.n
  BY DEF CallOrder
<1>1. CASE Ahead(x) /\ InQueue(y)
  BY <1>1 DEF CallOrder
<1>2. CASE ~InQueue(y)
  <2>1. PICK t \in Threads : SendEventAsync(t)
    <3>1. SUFFICES ASSUME \A t \in Threads : ~SendEventAsync(t)
                   PROVE  FALSE
      OBVIOUS
    <3>2. CASE AsyncEvent
      BY <1>2, <3>2, TakeShrinks
    <3>3. CASE FlushPendingEvents \/ Destroy
      BY <3>3 DEF FlushPendingEvents, Destroy, Flush, InQueue
    <3>4. CASE ~AsyncEvent /\ ~FlushPendingEvents /\ ~Destroy
      <4>1. UNCHANGED mEventWorkerDataQue
        BY <3>1, <3>4 DEF Next, Register, Configure, AddEventListener, RemoveEventListener,
             SetFakeTuneFlag, SetAsyncTuneState, Send, SendEvent, SenderStep, IdleAdd,
             SetCallbackAsPending, LoopStep, CallListener, AllCalled, Dispatch, SendEventSync,
             EventManagerThreadFunction, SetCallbackAsDispatched, AsyncEventDeliver
      <4> QED BY <1>2, <4>1 DEF InQueue
    <3> QED BY <3>2, <3>3, <3>4
  <2>2. /\ mEventWorkerDataQue' = Append(mEventWorkerDataQue, send[t].event)
        /\ UNCHANGED <<loop, calls>> /\ Owns(t)
    BY <2>1 DEF SendEventAsync, Queued, Owns
  <2>3. send[t].event \in Event /\ mEventWorkerDataQue \in Seq(Event)
    BY <2>2 DEF Owns, TInv, TypeOK, SendInv
  <2>4. y = send[t].event
    BY <1>2, <2>2, <2>3 DEF InQueue
  <2>5. Moved(x)
    BY <2>2 DEF Ahead, InCalls, Moved
  <2>6. y.by = t
    BY <2>2, <2>4 DEF WayInv, FreshInv
  <2> QED BY <2>2, <2>4, <2>5, <2>6 DEF WayInv, FreshInv
<1>3. CASE ~Ahead(x) /\ InQueue(y)
  <2>1. AsyncEvent /\ mEventWorkerDataQue # <<>> /\ x = Head(mEventWorkerDataQue)
    <3>1. CASE AsyncEvent
      BY <1>3, <3>1, NoEventIsNone DEF AsyncEvent, Ahead, InCalls, Idle
    <3>2. CASE CallListener \/ AllCalled
      <4>1. UNCHANGED loop
        BY <3>2 DEF CallListener, AllCalled
      <4> QED BY <1>3, <3>2, <4>1, CallsShrink DEF Ahead
    <3>3. CASE SendEventSync
      <4>0. Loop \in Threads
        BY DEF Threads
      <4>1. send[Loop].event \in Event /\ UNCHANGED loop /\ Deliver(send[Loop].event)
        BY <3>3, <4>0 DEF SendEventSync, TInv, SendInv
      <4>2. send[Loop].event.by = Loop
        BY <3>3, <4>0 DEF SendEventSync, Owns, WayInv, FreshInv
      <4>3. InCalls(x)' => InCalls(x) \/ x = send[Loop].event
        BY <4>1, DeliverAdds
      <4> QED BY <1>3, <4>1, <4>2, <4>3 DEF Ahead
    <3>4. CASE AsyncEventDeliver
      <4>1. loop.event \in Event /\ Deliver(loop.event) /\ loop'.event = NoEvent
        BY <3>4, NoEventIsNone DEF AsyncEventDeliver, TInv, LoopInv
      <4>2. InCalls(x)' => InCalls(x) \/ x = loop.event
        BY <4>1, DeliverAdds
      <4> QED BY <1>3, <4>1, <4>2, NoEventIsNone DEF Ahead
    <3>5. CASE Dispatch \/ SetCallbackAsDispatched
      <4>1. UNCHANGED calls /\ loop'.event \in {loop.event, NoEvent}
        BY <3>5 DEF Dispatch, EventManagerThreadFunction, SetCallbackAsDispatched, Idle,
             TInv, TypeOK, LoopState
      <4> QED BY <1>3, <4>1, NoEventIsNone DEF Ahead, InCalls
    <3>6. CASE ~LoopStep
      <4>1. UNCHANGED <<calls, loop>>
        BY <3>6 DEF Next, Register, Configure, AddEventListener, RemoveEventListener,
             SetFakeTuneFlag, SetAsyncTuneState, Send, SendEvent, SenderStep, IdleAdd,
             SetCallbackAsPending, SendEventAsync, FlushPendingEvents, Destroy
      <4> QED BY <1>3, <4>1 DEF Ahead, InCalls
    <3> QED BY <3>1, <3>2, <3>3, <3>4, <3>5, <3>6 DEF LoopStep
  <2>2. mEventWorkerDataQue' = Tail(mEventWorkerDataQue) /\ mEventWorkerDataQue \in Seq(Event)
    BY <2>1 DEF AsyncEvent, TInv, TypeOK
  <2>3. PICK i \in 1 .. Len(mEventWorkerDataQue') : mEventWorkerDataQue'[i] = y
    BY DEF InQueue
  <2>4. /\ i + 1 \in 1 .. Len(mEventWorkerDataQue) /\ y = mEventWorkerDataQue[i + 1]
        /\ 1 \in 1 .. Len(mEventWorkerDataQue) /\ x = mEventWorkerDataQue[1] /\ 1 < i + 1
    BY <2>1, <2>2, <2>3
  <2> QED BY <2>4 DEF WayInv, QueueOrder
<1> QED BY <1>1, <1>2, <1>3

LEMMA LatestStep ==
  ASSUME TInv, TInv', WayInv, AloneInv, CallOrder, LatestInv, Next
  PROVE  /\ LatestInv'
         /\ \A l \in Listeners, t \in Background : latest'[l][t] >= latest[l][t]
<1>0. /\ latest \in [Listeners -> [Threads -> Nat]] /\ latest' \in [Listeners -> [Threads -> Nat]]
      /\ Background \subseteq Threads /\ Loop \notin Background
      /\ \A e \in Event : e.n \in Nat /\ e.by \in Threads
  <2>1. /\ latest \in [Listeners -> [Threads -> 0 .. MaxEvents]]
        /\ latest' \in [Listeners -> [Threads -> 0 .. MaxEvents]]
    BY DEF TInv, TypeOK
  <2>2. 0 .. MaxEvents \subseteq Nat
    OBVIOUS
  <2>3. \A l \in Listeners : latest[l] \in [Threads -> Nat] /\ latest'[l] \in [Threads -> Nat]
    BY <2>1, <2>2
  <2>4. latest \in [Listeners -> [Threads -> Nat]] /\ latest' \in [Listeners -> [Threads -> Nat]]
    BY <2>1, <2>3
  <2>5. Background \subseteq Threads /\ Loop \notin Background
    BY EventManagerAssumption DEF Threads
  <2>6. \A e \in Event : e.n \in Nat /\ e.by \in Threads
    BY DEF Event
  <2> QED BY <2>4, <2>5, <2>6
<1>1. CASE UNCHANGED latest
  <2> SUFFICES ASSUME NEW l \in Listeners, NEW t \in Background
               PROVE  /\ latest[l][t] <= sent'
                      /\ Owns(t)' => latest[l][t] <= send'[t].event.n
                      /\ \A e \in Event : Pending(e)' /\ e.by = t => latest[l][t] <= e.n
                      /\ latest[l][t] >= latest[l][t]
    BY <1>1 DEF LatestInv
  <2>1. latest[l][t] <= sent /\ latest[l][t] \in Nat /\ t \in Threads
    BY <1>0 DEF LatestInv
  <2>2. /\ Owns(t) => latest[l][t] <= send[t].event.n
        /\ \A e \in Event : Pending(e) /\ e.by = t => latest[l][t] <= e.n
    BY DEF LatestInv
  <2>3. latest[l][t] <= sent'
    BY <2>1, OwnsNewest
  <2>4. Owns(t)' => latest[l][t] <= send'[t].event.n
    BY <2>1, <2>2, OwnsNewest
  <2>5. \A e \in Event : Pending(e)' /\ e.by = t => latest[l][t] <= e.n
    BY <2>2, PendingGrows
  <2> QED BY <2>1, <2>3, <2>4, <2>5
<1>2. CASE CallListener
  <2>1. PICK m \in Listeners, e \in Event :
           /\ e = calls[1].event /\ latest' = [latest EXCEPT ![m][e.by] = e.n]
           /\ 1 \in 1 .. Len(calls)
    <3>1. calls \in Seq(Call) /\ calls # <<>>
      BY <1>2 DEF TInv, TypeOK, Call, CallListener
    <3>2. calls[1] \in Call /\ Head(calls) = calls[1] /\ 1 \in 1 .. Len(calls)
      <4> HIDE DEF Call
      <4> QED BY <3>1, ElementOfSeq
    <3>3. calls[1].event \in Event /\ Head(calls[1].rest) \in Listeners
      BY <1>2, <3>2 DEF Call, CallListener
    <3> QED BY <1>2, <3>2, <3>3 DEF CallListener
  <2>2. UNCHANGED <<send, sent, mEventWorkerDataQue, loop>> /\ loop = Idle
    BY <1>2 DEF CallListener
  <2>3. \A x \in Event : Pending(x)' => Pending(x)
    BY <1>2, <2>2, CallsShrink DEF Pending, Ahead, InQueue
  <2>4. InCalls(e)
    BY <2>1 DEF InCalls
  <2>5. \A x \in Event : Pending(x) /\ x.by = e.by /\ e.by # Loop => e.n <= x.n
    <3> SUFFICES ASSUME NEW x \in Event, Pending(x), x.by = e.by, e.by # Loop
                 PROVE  e.n <= x.n
      OBVIOUS
    <3>1. CASE InQueue(x)
      BY <1>0, <2>4, <3>1 DEF CallOrder, Ahead
    <3>2. CASE InCalls(x)
      <4>1. PICK i \in 1 .. Len(calls) : calls[i].event = x
        BY <3>2 DEF InCalls
      <4>2. i = Len(calls) /\ 1 = Len(calls)
        BY <2>1, <4>1 DEF AloneInv
      <4>3. x = e
        BY <2>1, <4>1, <4>2
      <4>4. e.n \in Nat
        BY <1>0
      <4> QED BY <4>3, <4>4
    <3>3. loop.event # x
      BY <2>2, NoEventIsNone
    <3> QED BY <3>1, <3>2, <3>3 DEF Pending, Ahead
  <2> SUFFICES ASSUME NEW l \in Listeners, NEW t \in Background
               PROVE  /\ latest'[l][t] <= sent'
                      /\ Owns(t)' => latest'[l][t] <= send'[t].event.n
                      /\ \A x \in Event : Pending(x)' /\ x.by = t => latest'[l][t] <= x.n
                      /\ latest'[l][t] >= latest[l][t]
    BY DEF LatestInv
  <2>6. CASE l = m /\ t = e.by
    <3>1. latest'[l][t] = e.n /\ e.n \in Nat /\ e.by # Loop
      BY <1>0, <2>1, <2>6
    <3>2. Moved(e) /\ Ahead(e) /\ Pending(e)
      BY <2>4 DEF Moved, Ahead, Pending
    <3>3. e.n <= sent /\ (Owns(t) => e.n < send[t].event.n)
      BY <1>0, <2>6, <3>2 DEF WayInv, FreshInv
    <3>4. Owns(t)' => e.n <= send'[t].event.n
      <4>1. Owns(t)' => send[t].event \in Event /\ Owns(t)
        BY <1>0, <2>2 DEF Owns, TInv, SendInv
      <4> QED BY <1>0, <2>2, <3>3, <4>1
    <3>5. latest[l][t] <= e.n /\ latest[l][t] \in Nat
      BY <1>0, <2>6, <3>2 DEF LatestInv
    <3> QED BY <2>2, <2>3, <2>5, <2>6, <3>1, <3>3, <3>4, <3>5
  <2>7. CASE ~(l = m /\ t = e.by)
    <3>1. latest'[l][t] = latest[l][t] /\ latest[l][t] \in Nat
      BY <1>0, <2>1, <2>7
    <3> QED BY <2>2, <2>3, <3>1 DEF LatestInv, Owns
  <2> QED BY <2>6, <2>7
<1>3. CASE ~CallListener
  <2>1. UNCHANGED latest
    BY <1>3 DEF Next, Register, Configure, AddEventListener, RemoveEventListener,
         SetFakeTuneFlag, SetAsyncTuneState, Send, SendEvent, SenderStep, IdleAdd,
         SetCallbackAsPending, SendEventAsync, LoopStep, AllCalled, Dispatch, SendEventSync,
         EventManagerThreadFunction, SetCallbackAsDispatched, AsyncEvent, AsyncEventDeliver,
         FlushPendingEvents, Destroy, ghostVars
  <2> QED BY <1>1, <2>1
<1> QED BY <1>2, <1>3

LEMMA OrderStep ==
  ASSUME TInv, TInv', WayInv, OrderInv, [Next]_vars
  PROVE  /\ OrderInv'
         /\ \A l \in Listeners, t \in Background : latest'[l][t] >= latest[l][t]
<1>1. CASE Next
  BY <1>1, AloneStep, CallOrderStep, LatestStep DEF OrderInv
<1>2. CASE UNCHANGED vars
  <2>1. UNCHANGED <<mEventWorkerDataQue, send, loop, calls, sent, latest>>
    BY <1>2 DEF vars, ghostVars
  <2>2. OrderInv'
    BY <2>1 DEF OrderInv, AloneInv, CallOrder, LatestInv, Ahead, Pending, InQueue, InCalls, Owns
  <2>3. \A l \in Listeners, t \in Background : latest[l][t] \in Nat
    BY EventManagerAssumption DEF TInv, TypeOK, Threads
  <2> QED BY <2>1, <2>2, <2>3
<1> QED BY <1>1, <1>2

LEMMA OrderInit == Init => OrderInv
<1> SUFFICES ASSUME Init PROVE OrderInv
  OBVIOUS
<1>1. /\ mEventWorkerDataQue = <<>> /\ calls = <<>> /\ loop = Idle /\ sent = 0
      /\ \A t \in Threads : ~Owns(t)
      /\ \A l \in Listeners, t \in Background : latest[l][t] = 0
  BY NoEventIsNone DEF Init, Owns, Threads
<1>2. \A e \in Event : ~InQueue(e) /\ ~Ahead(e)
  BY <1>1, NoEventIsNone DEF InQueue, InCalls, Ahead
<1>3. Background \subseteq Threads
  BY DEF Threads
<1> QED BY <1>1, <1>2, <1>3 DEF OrderInv, AloneInv, CallOrder, LatestInv, Pending

(* A listener gets the events of one background thread in the order in     *)
(* which they were sent, although the main loop may run their idle sources *)
(* in any order, listeners may send events of their own in between, and    *)
(* flushes may drop any of them.                                           *)
THEOREM EventsArriveInOrder == Spec => SenderOrder
<1> DEFINE Grows == \A l \in Listeners, t \in Background : latest'[l][t] >= latest[l][t]
<1>1. TInv /\ TInv' /\ WayInv /\ [Next]_vars => WayInv'
  BY WayStep
<1>2. TInv /\ TInv' /\ WayInv /\ OrderInv /\ [Next]_vars => OrderInv' /\ Grows
  BY OrderStep
<1> HIDE DEF Grows
<1>3. Spec => [][Grows]_vars
  BY <1>1, <1>2, BookHolds, WayInit, OrderInit, PTL DEF Spec
<1> QED BY <1>3 DEF SenderOrder, Grows
=============================================================================
