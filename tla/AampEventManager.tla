-------------------------- MODULE AampEventManager --------------------------
(***************************************************************************)
(* Delivery of player events to the application (AampEventManager.cpp).    *)
(* Any thread may send an event.  On the thread of the GLib main loop it   *)
(* may be delivered at once; from every other thread it is queued, and an  *)
(* idle source is added to the main loop to deliver it.  The ids of the    *)
(* idle sources are kept in mPendingAsyncEvents, so that a flush can       *)
(* remove them: a source whose callback ran first is entered as done, and  *)
(* struck out when its sender gets round to entering it as pending.        *)
(*                                                                         *)
(* A region protected by mMutexVar is one atomic step.  The first tests of *)
(* SendEvent are made without it and are a step of their own.  mPlayerState*)
(* is left out: the code only ever sets it to eSTATE_IDLE, its first value *)
(* (ReloadTSB, TuneHelper), and the tests for eSTATE_RELEASED never fire.  *)
(***************************************************************************)
EXTENDS Naturals, Sequences, SequencesExt, FiniteSets

CONSTANTS
  Background,   (* threads other than the one that runs the main loop      *)
  Loop,         (* the thread of the main loop                             *)
  Listeners,
  Types,        (* event types                                             *)
  TuneEvents,   (* types a fake tune lets through: EOS, state COMPLETE     *)
  MaxEvents,    (* bound: events accepted over a behaviour                 *)
  MaxSettings   (* bound: changes of listeners and settings                *)

ASSUME EventManagerAssumption ==
  /\ IsFiniteSet(Background)
  /\ Loop \notin Background
  /\ TuneEvents \subseteq Types
  /\ "ALL_EVENTS" \notin Types
  /\ MaxEvents \in Nat /\ MaxSettings \in Nat

VARIABLES
  mEventWorkerDataQue, (* events that wait for an idle source              *)
  mPendingAsyncEvents, (* per source id: pending (true), done (false), none*)
  mEventListeners,     (* per type, the latest registration first          *)
  mIsFakeTune,
  mAsyncTuneEnabled,
  sources,             (* GLib: idle sources not yet dispatched or removed *)
  lastSource,          (* GLib: the last source id given out               *)
  send,                (* per thread: where it is in SendEvent             *)
  loop,                (* where the main loop is in a source's callback    *)
  calls,               (* stack of deliveries in progress, innermost first *)
  alive,               (* FALSE once the manager is destroyed              *)
  settings,            (* ghost: changes made so far, for the bound        *)
  sent,                (* ghost: number of events accepted by SendEvent    *)
  latest,              (* ghost: per listener and sender, the last event   *)
  flushed              (* ghost: events dropped from the queue by a flush  *)

regVars   == <<mEventListeners, mIsFakeTune, mAsyncTuneEnabled>>
glibVars  == <<sources, lastSource>>
ghostVars == <<settings, latest, flushed>>
vars == <<mEventWorkerDataQue, mPendingAsyncEvents, regVars, glibVars, send,
          loop, calls, alive, sent, ghostVars>>

Threads   == Background \cup {Loop}
Keys      == Types \cup {"ALL_EVENTS"}
SourceIds == 1 .. MaxEvents
Event     == [n : 1 .. MaxEvents, type : Types, by : Threads]
NoEvent   == [n |-> 0]
NoSource  == 0

Idle == [at |-> "idle", event |-> NoEvent, source |-> NoSource]

(* AampEventManager()                                                      *)
Init ==
  /\ mEventWorkerDataQue = <<>>
  /\ mPendingAsyncEvents = [id \in SourceIds |-> "none"]
  /\ mEventListeners = [k \in Keys |-> <<>>]
  /\ mIsFakeTune = FALSE
  /\ mAsyncTuneEnabled = FALSE
  /\ sources = {}
  /\ lastSource = 0
  /\ send = [t \in Threads |-> Idle]
  /\ loop = Idle
  /\ calls = <<>>
  /\ alive = TRUE
  /\ settings = 0
  /\ sent = 0
  /\ latest = [l \in Listeners |-> [t \in Threads |-> 0]]
  /\ flushed = {}

(* The main loop's thread is free to run application code: in a callback   *)
(* of its own, or in a listener that is being called.                      *)
Free(t) ==
  /\ alive
  /\ send[t] = Idle
  /\ t = Loop => loop = Idle

------------------------------------------------------------------------------
(* Registration and settings, from any thread.                             *)

Change == alive /\ settings < MaxSettings /\ settings' = settings + 1

AddEventListener(k, l) ==
  /\ Change
  /\ mEventListeners' = [mEventListeners EXCEPT ![k] = <<l>> \o @]
  /\ UNCHANGED <<mEventWorkerDataQue, mPendingAsyncEvents, mIsFakeTune,
                 mAsyncTuneEnabled, glibVars, send, loop, calls, alive, sent,
                 latest, flushed>>

(* The latest registration of l is removed, if there is one.               *)
RemoveEventListener(k, l) ==
  /\ Change
  /\ l \in Range(mEventListeners[k])
  /\ mEventListeners' =
       [mEventListeners EXCEPT ![k] = RemoveFirst(@, l)]
  /\ UNCHANGED <<mEventWorkerDataQue, mPendingAsyncEvents, mIsFakeTune,
                 mAsyncTuneEnabled, glibVars, send, loop, calls, alive, sent,
                 latest, flushed>>

SetFakeTuneFlag(isFakeTuneSetting) ==
  /\ Change
  /\ mIsFakeTune' = isFakeTuneSetting
  /\ UNCHANGED <<mEventWorkerDataQue, mPendingAsyncEvents, mEventListeners,
                 mAsyncTuneEnabled, glibVars, send, loop, calls, alive, sent,
                 latest, flushed>>

(* Also sets the priority of later idle sources: the model lets the main   *)
(* loop dispatch its sources in any order.                                 *)
SetAsyncTuneState(isAsyncTuneSetting) ==
  /\ Change
  /\ mAsyncTuneEnabled' = isAsyncTuneSetting
  /\ UNCHANGED <<mEventWorkerDataQue, mPendingAsyncEvents, mEventListeners,
                 mIsFakeTune, glibVars, send, loop, calls, alive, sent,
                 latest, flushed>>

------------------------------------------------------------------------------
(* Sending.                                                                *)

(* The tests of SendEvent; an event that fails them is dropped.            *)
Accepts(type) ==
  /\ mIsFakeTune => type \in TuneEvents
  /\ mEventListeners["ALL_EVENTS"] # <<>> \/ mEventListeners[type] # <<>>

(* GetSourceID() is 0 everywhere but in a callback of the main loop.       *)
IsSync(t, mode) ==
  /\ t = Loop
  /\ mode = "SYNC_MODE" \/ (mode = "DEFAULT_MODE" /\ ~mAsyncTuneEnabled)

SendEvent(t, type, mode) ==
  /\ Free(t)
  /\ sent < MaxEvents
  /\ Accepts(type)
  /\ sent' = sent + 1
  /\ send' = [send EXCEPT ![t] =
       [Idle EXCEPT !.at = IF IsSync(t, mode) THEN "sync" ELSE "push",
                    !.event = [n |-> sent', type |-> type, by |-> t]]]
  /\ UNCHANGED <<mEventWorkerDataQue, mPendingAsyncEvents, regVars, glibVars,
                 loop, calls, alive, ghostVars>>

(* Mutant: the newest event is put in front.                               *)
QueuedAtFront(q, e) == <<e>> \o q

Queued(q, e) == Append(q, e)

SendEventAsync(t) ==
  /\ send[t].at = "push"
  /\ mEventWorkerDataQue' = Queued(mEventWorkerDataQue, send[t].event)
  /\ send' = [send EXCEPT ![t] = [Idle EXCEPT !.at = "pushed"]]
  /\ UNCHANGED <<mPendingAsyncEvents, regVars, glibVars, loop, calls, alive,
                 sent, ghostVars>>

(* Mutant: no source is added while there is one.                          *)
IdleAddOnce(t) ==
  /\ send[t].at = "pushed"
  /\ lastSource' = IF sources = {} THEN lastSource + 1 ELSE lastSource
  /\ sources' = IF sources = {} THEN {lastSource'} ELSE sources
  /\ send' = [send EXCEPT ![t] =
       IF sources = {} THEN [@ EXCEPT !.at = "added", !.source = lastSource']
       ELSE Idle]
  /\ UNCHANGED <<mEventWorkerDataQue, mPendingAsyncEvents, regVars, loop,
                 calls, alive, sent, ghostVars>>

(* g_idle_add_full: from here on the callback may run, also before the     *)
(* next step of this thread.                                               *)
IdleAdd(t) ==
  /\ send[t].at = "pushed"
  /\ lastSource' = lastSource + 1
  /\ sources' = sources \cup {lastSource'}
  /\ send' = [send EXCEPT ![t].at = "added", ![t].source = lastSource']
  /\ UNCHANGED <<mEventWorkerDataQue, mPendingAsyncEvents, regVars, loop,
                 calls, alive, sent, ghostVars>>

SetCallbackAsPending(t) ==
  /\ send[t].at = "added"
  /\ mPendingAsyncEvents' = [mPendingAsyncEvents EXCEPT ![send[t].source] =
       IF @ = "none" THEN "pending" ELSE "none"]
  /\ send' = [send EXCEPT ![t] = Idle]
  /\ UNCHANGED <<mEventWorkerDataQue, regVars, glibVars, loop, calls, alive,
                 sent, ghostVars>>

------------------------------------------------------------------------------
(* Delivery, on the thread of the main loop.                               *)

(* The list SendEventSync makes of the registered listeners: it is built   *)
(* back to front, so those for all events come first, the oldest first.    *)
Snapshot(type) ==
  Reverse(mEventListeners["ALL_EVENTS"]) \o Reverse(mEventListeners[type])

Deliver(e) == calls' = <<[event |-> e, rest |-> Snapshot(e.type)]>> \o calls

SendEventSync ==
  /\ send[Loop].at = "sync"
  /\ Deliver(send[Loop].event)
  /\ send' = [send EXCEPT ![Loop] = Idle]
  /\ UNCHANGED <<mEventWorkerDataQue, mPendingAsyncEvents, regVars, glibVars,
                 loop, alive, sent, ghostVars>>

(* One listener is called with the mutex released.  What it does in turn   *)
(* is an action of this thread that comes before the next call.            *)
CallListener ==
  /\ calls # <<>>
  /\ Head(calls).rest # <<>>
  /\ send[Loop] = Idle /\ loop = Idle
  /\ LET e == Head(calls).event
         l == Head(Head(calls).rest)
     IN  latest' = [latest EXCEPT ![l][e.by] = e.n]
  /\ calls' = [calls EXCEPT ![1].rest = Tail(@)]
  /\ UNCHANGED <<mEventWorkerDataQue, mPendingAsyncEvents, regVars, glibVars,
                 send, loop, alive, sent, flushed, settings>>

AllCalled ==
  /\ calls # <<>>
  /\ Head(calls).rest = <<>>
  /\ send[Loop] = Idle /\ loop = Idle
  /\ calls' = Tail(calls)
  /\ UNCHANGED <<mEventWorkerDataQue, mPendingAsyncEvents, regVars, glibVars,
                 send, loop, alive, sent, ghostVars>>

SourceRemoved(id) == sources \ {id}

(* GLib runs the callback of an idle source, EventManagerThreadFunction.   *)
EventManagerThreadFunction(id) ==
  /\ id \in sources
  /\ calls = <<>>
  /\ send[Loop] = Idle /\ loop = Idle
  /\ sources' = SourceRemoved(id)
  /\ loop' = [Idle EXCEPT !.at = "dispatch", !.source = id]
  /\ UNCHANGED <<mEventWorkerDataQue, mPendingAsyncEvents, regVars,
                 lastSource, send, calls, alive, sent, ghostVars>>

SetCallbackAsDispatched ==
  /\ loop.at = "dispatch"
  /\ mPendingAsyncEvents' = [mPendingAsyncEvents EXCEPT ![loop.source] =
       IF @ = "none" THEN "done" ELSE "none"]
  /\ loop' = [loop EXCEPT !.at = "async", !.source = NoSource]
  /\ UNCHANGED <<mEventWorkerDataQue, regVars, glibVars, send, calls, alive,
                 sent, ghostVars>>

(* AsyncEvent takes one event, if there is one left.                       *)
AsyncEvent ==
  /\ loop.at = "async"
  /\ IF mEventWorkerDataQue = <<>>
     THEN /\ loop' = Idle
          /\ UNCHANGED mEventWorkerDataQue
     ELSE /\ loop' = [Idle EXCEPT !.at = "popped",
                                  !.event = Head(mEventWorkerDataQue)]
          /\ mEventWorkerDataQue' = Tail(mEventWorkerDataQue)
  /\ UNCHANGED <<mPendingAsyncEvents, regVars, glibVars, send, calls, alive,
                 sent, ghostVars>>

(* IsEventListenerAvailable and SendEventSync: with no listener left the   *)
(* list is empty.                                                          *)
AsyncEventDeliver ==
  /\ loop.at = "popped"
  /\ Deliver(loop.event)
  /\ loop' = Idle
  /\ UNCHANGED <<mEventWorkerDataQue, mPendingAsyncEvents, regVars, glibVars,
                 send, alive, sent, ghostVars>>

------------------------------------------------------------------------------
(* Flush and destruction.                                                  *)

(* g_source_remove for the ids that are entered as pending.                *)
Unflushed == {id \in sources : mPendingAsyncEvents[id] # "pending"}

(* Mutant: the idle sources are left in the main loop.                     *)
FlushQueueOnly ==
  /\ UNCHANGED sources
  /\ mEventWorkerDataQue' = <<>>
  /\ mPendingAsyncEvents' = [id \in SourceIds |-> "none"]
  /\ flushed' = flushed \cup Range(mEventWorkerDataQue)

(* Mutant: the events are left in the queue.                               *)
FlushSourcesOnly ==
  /\ sources' = Unflushed
  /\ UNCHANGED mEventWorkerDataQue
  /\ mPendingAsyncEvents' = [id \in SourceIds |-> "none"]
  /\ flushed' = flushed \cup Range(mEventWorkerDataQue)

Flush ==
  /\ sources' = Unflushed
  /\ mEventWorkerDataQue' = <<>>
  /\ mPendingAsyncEvents' = [id \in SourceIds |-> "none"]
  /\ flushed' = flushed \cup Range(mEventWorkerDataQue)

FlushPendingEvents ==
  /\ alive
  /\ Flush
  /\ UNCHANGED <<regVars, lastSource, send, loop, calls, alive, sent, settings,
                 latest>>

(* ~AampEventManager: the player's threads have ended, and nothing of the  *)
(* manager is running on the main loop.                                    *)
Destroy ==
  /\ alive
  /\ \A t \in Threads : send[t] = Idle
  /\ loop = Idle /\ calls = <<>>
  /\ Flush
  /\ mEventListeners' = [k \in Keys |-> <<>>]
  /\ alive' = FALSE
  /\ UNCHANGED <<mIsFakeTune, mAsyncTuneEnabled, lastSource, send, loop,
                 calls, sent, settings, latest>>

------------------------------------------------------------------------------

Register ==
  \E k \in Keys, l \in Listeners :
    AddEventListener(k, l) \/ RemoveEventListener(k, l)

Configure ==
  \E b \in BOOLEAN : SetFakeTuneFlag(b) \/ SetAsyncTuneState(b)

Send ==
  \E t \in Threads, type \in Types,
     mode \in {"DEFAULT_MODE", "SYNC_MODE", "ASYNC_MODE"} :
    SendEvent(t, type, mode)

SenderStep(t) == SendEventAsync(t) \/ IdleAdd(t) \/ SetCallbackAsPending(t)

Dispatch == \E id \in sources : EventManagerThreadFunction(id)

LoopStep ==
  \/ SendEventSync \/ CallListener \/ AllCalled
  \/ Dispatch \/ SetCallbackAsDispatched \/ AsyncEvent \/ AsyncEventDeliver

Next ==
  \/ Register \/ Configure \/ Send
  \/ \E t \in Threads : SenderStep(t)
  \/ LoopStep
  \/ FlushPendingEvents \/ Destroy

Spec == Init /\ [][Next]_vars

(* A thread inside SendEvent goes on, the main loop runs, and listeners    *)
(* return.                                                                 *)
Fairness == (\A t \in Threads : WF_vars(SenderStep(t))) /\ WF_vars(LoopStep)

FairSpec == Spec /\ Fairness

------------------------------------------------------------------------------
(* Properties.                                                             *)

ThreadState ==
  [at : {"idle", "push", "pushed", "added", "sync"},
   event : Event \cup {NoEvent}, source : SourceIds \cup {NoSource}]
LoopState ==
  [at : {"idle", "dispatch", "async", "popped"},
   event : Event \cup {NoEvent}, source : SourceIds \cup {NoSource}]

(* Types of the state: one source id per event at most, and the list of    *)
(* pending callbacks knows no id that GLib has not given out.              *)
TypeOK ==
  /\ mEventWorkerDataQue \in Seq(Event)
  /\ mPendingAsyncEvents \in [SourceIds -> {"none", "pending", "done"}]
  /\ mEventListeners \in [Keys -> Seq(Listeners)]
  /\ mIsFakeTune \in BOOLEAN /\ mAsyncTuneEnabled \in BOOLEAN
  /\ lastSource \in 0 .. MaxEvents
  /\ sources \subseteq 1 .. lastSource
  /\ \A id \in SourceIds :
       mPendingAsyncEvents[id] # "none" => id <= lastSource
  /\ send \in [Threads -> ThreadState]
  /\ loop \in LoopState
  /\ calls \in Seq([event : Event, rest : Seq(Listeners)])
  /\ alive \in BOOLEAN
  /\ settings \in 0 .. MaxSettings
  /\ sent \in 0 .. MaxEvents
  /\ latest \in [Listeners -> [Threads -> 0 .. MaxEvents]]
  /\ flushed \subseteq Event

(* An idle source that has not run is entered as pending, or its sender is *)
(* about to enter it: a flush finds every source but those.  Two threads   *)
(* and a flush race for each entry of mPendingAsyncEvents.                 *)
LiveIsPending ==
  \A id \in sources :
    \/ mPendingAsyncEvents[id] = "pending"
    \/ \E t \in Threads : send[t].at = "added" /\ send[t].source = id

(* No idle callback is left to run on a manager that has been destroyed.   *)
NoCallbackAfterDestroy == ~alive => sources = {}

(* The assertions of SetCallbackAsDispatched (AampEventManager.cpp:437)    *)
(* and SetCallbackAsPending (:457) hold whichever of the two comes first   *)
(* and wherever a flush falls.                                             *)
AssertionsHold ==
  /\ loop.at = "dispatch" => mPendingAsyncEvents[loop.source] # "done"
  /\ \A t \in Threads :
       send[t].at = "added" => mPendingAsyncEvents[send[t].source] # "pending"

(* "Every event need a idle task to execute it": there are never more      *)
(* events queued than idle sources that run or will run, in spite of the   *)
(* sources and events that flushes remove separately.                      *)
EventHasSource ==
  Len(mEventWorkerDataQue) <=
    Cardinality(sources) + Cardinality({t \in Threads : send[t].at = "pushed"})
      + (IF loop.at \in {"dispatch", "async"} THEN 1 ELSE 0)

(* A listener gets the events of one background thread in the order they   *)
(* were sent, each once per registration.  (It does not hold for events    *)
(* sent on the main loop: a synchronous event overtakes the queue, and one *)
(* sent by a listener reaches the remaining listeners first.)              *)
SenderOrder ==
  [][\A l \in Listeners, t \in Background : latest'[l][t] >= latest[l][t]]_vars

(* An event that a flush took from the queue is not delivered later.       *)
FlushedNeverDelivered ==
  /\ loop.event \notin flushed
  /\ \A i \in DOMAIN calls : calls[i].event \notin flushed

(* Every event that is queued is taken out, by a callback or by a flush.   *)
QueuedIsServed ==
  \A n \in 1 .. MaxEvents :
    (\E i \in DOMAIN mEventWorkerDataQue : mEventWorkerDataQue[i].n = n)
      ~> ~(\E i \in DOMAIN mEventWorkerDataQue : mEventWorkerDataQue[i].n = n)

(* Does not hold: that an entry marked pending names a source that still   *)
(* exists.  The callback runs first (entry done), a flush clears the list, *)
(* and the sender then enters the finished source as pending; the next     *)
(* flush calls g_source_remove for an id that is gone.                     *)
PendingIsLive ==
  \A id \in SourceIds :
    mPendingAsyncEvents[id] = "pending" =>
      id \in sources \/ (loop.at = "dispatch" /\ loop.source = id)
=============================================================================
