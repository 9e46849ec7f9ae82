-------------------- MODULE AampTSBSessionManagerProofs ---------------------
(***************************************************************************)
(* Proofs about the session of the local TSB, for any number of fragments, *)
(* any init segments, any window and capacity, any number of failing       *)
(* writes and of seeks.                                                    *)
(***************************************************************************)
EXTENDS AampTSBSessionManager, SequenceTheorems, FiniteSetTheorems,
        WellFoundedInduction, TLAPS

(***************************************************************************)
(* The invariants.                                                         *)
(***************************************************************************)

(* What can be downloaded: a media fragment or an init segment.            *)
Items == {x \in [track : Tracks, pos : Nat \ {0}, rep : AnyRepresentation \union {0}] :
            x.pos <= LastPosition[x.track]}

(* Where the next item the downloader of t enqueues can begin.             *)
Rest(t) == IF At(t, "wait") THEN downloader[t].item.pos ELSE downloader[t].last

Nodes(t) == 1 .. Len(mTsbFragmentData[t])

Busy == ~WriterAt("test")

DownloaderState == [at : {"download", "wait", "push"}, pos : Nat \ {0},
                    last : Nat, inits : Nat, item : Items \cup {NoItem}]

DownloaderTypes ==
  /\ downloader \in [Tracks -> DownloaderState]
  /\ mIsLocalTSBInjection \subseteq Tracks
  /\ \A t \in Tracks :
       /\ downloader[t].last <= downloader[t].pos
       /\ ~At(t, "download") =>
            /\ downloader[t].item \in Items /\ downloader[t].item.track = t
            /\ downloader[t].last = End(downloader[t].item)

WriterTypes ==
  /\ mWriteQueue \in Seq(Items)
  /\ writer \in [at : {"test", "write", "add", "makeRoom"},
                 item : Items \cup {NoItem}]
  /\ Busy => writer.item \in Items

DataTypes ==
  /\ mTsbFragmentData \in [Tracks -> Seq([pos : Positions, init : InitSegments])]
  /\ culled \in [Tracks -> Nat]
  /\ \A t \in Tracks : culled[t] <= Len(mTsbFragmentData[t])
  /\ users \in [InitSegments -> Nat]
  /\ mCurrentInitData \in [Tracks -> InitSegments \cup {NoItem}]
  /\ \A t \in Tracks :
       /\ mCurrentInitData[t] # NoItem => mCurrentInitData[t].track = t
       /\ \A i \in Nodes(t) : Node(t, i).init.track = t
  /\ store \subseteq Items /\ culler \subseteq Items /\ emptied \subseteq Tracks

ReaderState == [enabled : BOOLEAN, first : BOOLEAN, cur : Nat, eos : BOOLEAN,
                lastInit : InitSegments \cup {NoItem}, endInjected : BOOLEAN]

ReaderTypes ==
  /\ reader \in [Tracks -> ReaderState]
  /\ tsbReader \in [at : {"off", "loop", "init", "media", "cache"},
                    track : Tracks]
  /\ injected \in [Tracks -> [init : InitSegments \cup {NoItem}, pos : Nat]]
  /\ overtaken \in BOOLEAN
  /\ app \in [at : {"idle", "join", "invoke", "inject", "start"},
             tune : {"NEW", "SEEK", "SEEKTOLIVE"}, pos : Nat]
  /\ {mTuneType, mActiveTuneType} \subseteq {"NEW", "SEEK", "SEEKTOLIVE"}
  /\ \A t \in Tracks :
       /\ reader[t].cur <= Len(mTsbFragmentData[t])
       /\ reader[t].enabled => reader[t].cur > 0
       /\ Pushing(t) => reader[t].cur > 0

SideTypes == DownloaderTypes /\ WriterTypes /\ DataTypes

(* Whatever has been entered for t ends before p.                          *)
Above(t, p) ==
  /\ \A i \in Nodes(t) : Node(t, i).pos < p
  /\ mCurrentInitData[t].pos <= p

(* An item that is on its way is between what has been entered and what is *)
(* to be enqueued.                                                         *)
Fits(x) == End(x) <= Rest(x.track) /\ Above(x.track, x.pos)

BehindWriter(x) ==
  Busy /\ writer.item.track = x.track => End(writer.item) <= x.pos

(* From the data managers through the write thread and the queue to the    *)
(* downloader, each track is in the order of the presentation.             *)
OrderInv ==
  /\ \A i, j \in 1 .. Len(mWriteQueue) :
       i < j /\ mWriteQueue[i].track = mWriteQueue[j].track
         => End(mWriteQueue[i]) <= mWriteQueue[j].pos
  /\ \A j \in 1 .. Len(mWriteQueue) :
       Fits(mWriteQueue[j]) /\ BehindWriter(mWriteQueue[j])
  /\ Busy => Fits(writer.item)
  /\ \A t \in Tracks : Above(t, Rest(t))

(* The fragments of a data manager are in order, each uses an init segment *)
(* before it, and those behind the current one use that.                   *)
NodeInv ==
  \A t \in Tracks :
    /\ \A i, j \in Nodes(t) : i < j => Node(t, i).pos < Node(t, j).pos
    /\ \A i \in Nodes(t) :
         /\ Node(t, i).init.pos <= Node(t, i).pos
         /\ mCurrentInitData[t].pos <= Node(t, i).pos =>
              Node(t, i).init = mCurrentInitData[t]

UsersOf(x) == {i \in Stored(x.track) : Node(x.track, i).init = x}

(* The users of an init segment are counted correctly.                     *)
UsersInv ==
  \A x \in InitSegments : users[x] = Cardinality(UsersOf(x))

(* Files still wanted are in the store.                                    *)
KeptInv ==
  /\ WriterAt("add") => writer.item \in store
  /\ \A t \in Tracks :
       /\ \A i \in Stored(t) : Media(t, Node(t, i).pos) \in store
       /\ t \notin emptied =>
            /\ \A i \in Stored(t) : Node(t, i).init \in store
            /\ mCurrentInitData[t] # NoItem => mCurrentInitData[t] \in store
            /\ Stored(t) = {} => Nodes(t) = {}

(* Those of a fragment that has left the map are not: its media file is at *)
(* most still to be deleted, and its init segment in use by another one.   *)
GoneInv ==
  /\ \A f \in culler : ~IsInit(f) /\ \E i \in 1 .. culled[f.track] :
                                       Node(f.track, i).pos = f.pos
  /\ \A t \in Tracks : \A i \in 1 .. culled[t] :
       /\ Media(t, Node(t, i).pos) \in store => Media(t, Node(t, i).pos) \in culler
       /\ Node(t, i).init \in store => UsersOf(Node(t, i).init) # {}

DataInv == OrderInv /\ NodeInv /\ UsersInv /\ KeptInv /\ GoneInv

(* A seek goes through its steps with the reader thread off, and leaves    *)
(* readers that have not begun.                                            *)
Fresh(t) == /\ ~reader[t].eos /\ ~reader[t].endInjected
            /\ reader[t].first /\ reader[t].lastInit = NoItem

AppInv ==
  /\ app.at # "idle" => app.tune # "NEW"
  /\ app.at \in {"invoke", "inject", "start"} =>
       tsbReader.at = "off" /\ mTuneType = app.tune
  /\ app.at \in {"inject", "start"} =>
       mActiveTuneType = app.tune /\ \A t \in Tracks : Fresh(t)
  /\ tsbReader.at # "off" => mTuneType = mActiveTuneType
  /\ \A t \in Tracks : Pushing(t) => reader[t].enabled /\ ~reader[t].first

(* After a seek to live, a reader that has told the downloader of its end  *)
(* pushes no more.                                                         *)
EndInv ==
  /\ EosIsTheEnd
  /\ \A t \in Tracks :
       tsbReader.at # "off" /\ mActiveTuneType = "SEEKTOLIVE" /\ reader[t].endInjected
         => reader[t].eos /\ ~Pushing(t)

(* Who puts fragments of t into the ring, as long as no seek overtakes a   *)
(* downloader: the reader until the downloader has taken over.             *)
OwnerInv ==
  /\ app.at = "start" /\ ~overtaken =>
       mIsLocalTSBInjection = Tracks /\ \A t \in Tracks : At(t, "download")
  /\ tsbReader.at # "off" /\ ~overtaken =>
       \A t \in Tracks :
         /\ At(t, "wait") => reader[t].eos /\ mActiveTuneType = "SEEKTOLIVE"
         /\ At(t, "push") => t \notin mIsLocalTSBInjection
         /\ t \notin mIsLocalTSBInjection =>
              reader[t].endInjected /\ mActiveTuneType = "SEEKTOLIVE"

(* The init segment the reader of t believes to have pushed was the last   *)
(* one pushed, unless all the fragments it is for are gone.                *)
InitIsPushed(t) ==
  reader[t].lastInit # NoItem /\ ~ReaderAt(t, "init") /\ t \in mIsLocalTSBInjection =>
    \/ injected[t].init = reader[t].lastInit
    \/ /\ reader[t].lastInit.pos < mCurrentInitData[t].pos
       /\ \A i \in Stored(t) : Node(t, i).init # reader[t].lastInit

PushedInv ==
  \A t \in Tracks :
    tsbReader.at # "off" /\ t \notin emptied /\ ~overtaken =>
      /\ Pushing(t) => reader[t].lastInit = Node(t, reader[t].cur).init
      /\ InitIsPushed(t)

(* What is in the ring is before what comes next.                          *)
NextIsLater(t) ==
  /\ Pushing(t) => injected[t].pos < Node(t, reader[t].cur).pos
  /\ t \in mIsLocalTSBInjection /\ ~Pushing(t) =>
       IF reader[t].first THEN injected[t].pos = 0
       ELSE injected[t].pos <= Node(t, reader[t].cur).pos

RingInv ==
  \A t \in Tracks : ~overtaken =>
    /\ injected[t].pos < downloader[t].pos
    /\ ~At(t, "download") /\ ~IsInit(downloader[t].item) =>
         injected[t].pos < downloader[t].item.pos
    /\ tsbReader.at # "off" /\ reader[t].enabled => NextIsLater(t)

ReadInv == AppInv /\ EndInv /\ OwnerInv /\ PushedInv /\ RingInv

(* What the writing side of the session works on.                          *)
sideVars == <<downloader, mWriteQueue, writer, store, mTsbFragmentData, culled,
              users, mCurrentInitData, culler, emptied>>

storedVars == <<store, mTsbFragmentData, culled, users, mCurrentInitData, culler,
                emptied>>

LEMMA PositionsAre ==
  /\ Positions \subseteq Nat \ {0}
  /\ \A t \in Tracks : LastPosition[t] \in Nat
  /\ \A t \in Tracks : 1 .. LastPosition[t] \subseteq Positions
  BY SessionAssumption DEF Positions, Tracks

LEMMA RepresentationsAre ==
  /\ 0 \notin AnyRepresentation
  /\ \A t \in Tracks : Representations[t] \subseteq AnyRepresentation
  BY SessionAssumption DEF AnyRepresentation

(* The steps of reader and player leave the writing side alone.            *)
LEMMA OtherStep ==
  ASSUME [Next]_vars
  PROVE  \/ \E t \in Tracks : \/ OnFragmentDownloadSuccess(t)
                              \/ CheckForWaitIfReaderDone(t)
                              \/ CacheStagingFragmentForInjection(t)
                              \/ OnFragmentDownloadFailed(t)
         \/ Writer \/ Culler
         \/ UNCHANGED sideVars
<1>1. ASSUME NEW t \in Tracks, Reader(t) PROVE UNCHANGED sideVars
  <2>1. CASE ReadNext(t)
    BY <2>1 DEF ReadNext, sideVars, writeVars, dataVars, history
  <2>2. CASE ReadInit(t)
    BY <2>2 DEF ReadInit, sideVars, writeVars, dataVars, history
  <2>3. CASE ReadMedia(t)
    BY <2>3 DEF ReadMedia, sideVars, writeVars, dataVars, history
  <2>4. CASE CacheMedia(t)
    BY <2>4 DEF CacheMedia, sideVars, writeVars, dataVars, history
  <2> QED BY <1>1, <2>1, <2>2, <2>3, <2>4 DEF Reader
<1>2. CASE ReaderExit
  BY <1>2 DEF ReaderExit, sideVars, writeVars, dataVars, history
<1>3. ASSUME NEW tune, NEW pos, Seek(tune, pos) PROVE UNCHANGED sideVars
  BY <1>3 DEF Seek, sideVars, writeVars, dataVars, history
<1>4. CASE FinishSeek
  <2>1. CASE JoinReader
    BY <2>1 DEF JoinReader, sideVars, writeVars, dataVars
  <2>2. CASE InvokeTsbReaders
    BY <2>2 DEF InvokeTsbReaders, sideVars, writeVars, dataVars
  <2>3. CASE SetLocalTSBInjection
    BY <2>3 DEF SetLocalTSBInjection, sideVars, writeVars, dataVars
  <2>4. CASE StartFromAampLocalTsb
    BY <2>4 DEF StartFromAampLocalTsb, sideVars, writeVars, dataVars
  <2> QED BY <1>4, <2>1, <2>2, <2>3, <2>4 DEF FinishSeek
<1>5. CASE UNCHANGED vars
  BY <1>5 DEF vars, sideVars, writeVars, dataVars, history
<1> QED BY <1>1, <1>2, <1>3, <1>4, <1>5 DEF Next, Downloader

LEMMA ItemType ==
  ASSUME NEW x \in Items
  PROVE  /\ x.pos \in Nat /\ x.pos > 0 /\ x.track \in Tracks
         /\ End(x) \in Nat /\ x.pos <= End(x)
         /\ x.pos \in Positions
         /\ IsInit(x) => x \in InitSegments /\ End(x) = x.pos
         /\ ~IsInit(x) => x = Media(x.track, x.pos) /\ End(x) = x.pos + 1
<1>1. /\ x.pos \in Nat \ {0} /\ x.track \in Tracks /\ x.rep \in AnyRepresentation \union {0}
      /\ x = [track |-> x.track, pos |-> x.pos, rep |-> x.rep]
      /\ x.pos <= LastPosition[x.track] /\ 0 \notin AnyRepresentation
  BY RepresentationsAre DEF Items
<1>2. x.pos \in Positions
  BY <1>1, PositionsAre
<1>3. IsInit(x) => x \in InitSegments
  BY <1>1, <1>2 DEF IsInit, InitSegments
<1>4. ~IsInit(x) => x = Media(x.track, x.pos)
  BY <1>1 DEF IsInit, Media
<1>5. End(x) = IF IsInit(x) THEN x.pos ELSE x.pos + 1
  BY DEF End
<1> QED BY <1>1, <1>2, <1>3, <1>4, <1>5

LEMMA RestType ==
  ASSUME DownloaderTypes
  PROVE  \A t \in Tracks : Rest(t) \in Nat
<1> SUFFICES ASSUME NEW t \in Tracks PROVE Rest(t) \in Nat OBVIOUS
<1>1. downloader[t].last \in Nat
  BY DEF DownloaderTypes, DownloaderState
<1>2. At(t, "wait") => downloader[t].item.pos \in Nat
  BY ItemType DEF DownloaderTypes, At
<1> QED BY <1>1, <1>2 DEF Rest

(* The downloader of t has x, and goes on with it at a label.              *)
LEMMA Downloads ==
  ASSUME DownloaderTypes, NEW t \in Tracks, NEW x \in Downloadable(t),
         NEW label \in {"download", "wait", "push"}, Downloaded(t, x, label),
         mIsLocalTSBInjection' \subseteq Tracks
  PROVE  /\ x \in Items /\ x.track = t
         /\ downloader[t].last <= x.pos /\ (~IsInit(x) => x.pos = downloader[t].pos)
         /\ downloader'[t].at = label /\ downloader'[t].last = End(x)
         /\ downloader'[t].pos = IF IsInit(x) THEN downloader[t].pos
                                 ELSE downloader[t].pos + 1
         /\ label # "download" => downloader'[t].item = x
         /\ \A u \in Tracks \ {t} : downloader'[u] = downloader[u]
         /\ DownloaderTypes'
<1> DEFINE d == downloader[t]
           e == [at |-> label, pos |-> IF IsInit(x) THEN d.pos ELSE d.pos + 1,
                 last |-> End(x), inits |-> IF IsInit(x) THEN d.inits + 1 ELSE d.inits,
                 item |-> IF label = "download" THEN NoItem ELSE x]
<1>1. /\ d \in DownloaderState /\ d.last <= d.pos
      /\ d.pos \in Nat \ {0} /\ d.last \in Nat /\ d.inits \in Nat
  BY DEF DownloaderTypes, DownloaderState
<1>2. /\ LastPosition[t] \in Nat /\ 0 \notin AnyRepresentation
      /\ Representations[t] \subseteq AnyRepresentation
  BY PositionsAre, RepresentationsAre
<1>3. d.pos <= LastPosition[t]
  BY <1>1, <1>2 DEF Downloadable
<1>4. /\ x \in Items /\ x.track = t /\ d.last <= x.pos /\ x.pos <= d.pos
      /\ (~IsInit(x) => x.pos = d.pos)
  <2> DEFINE p == IF d.last > 0 THEN d.last ELSE d.pos
  <2>1. p \in Nat \ {0} /\ d.last <= p /\ p <= d.pos
    BY <1>1
  <2>2. \/ x = Media(t, d.pos)
        \/ \E r \in AnyRepresentation : x = InitSegment(t, p, r)
    BY <1>1, <1>2, <1>3 DEF Downloadable
  <2> HIDE DEF p
  <2>3. CASE x = Media(t, d.pos)
    BY <1>1, <1>2, <1>3, <2>3 DEF Media, Items, IsInit
  <2>4. ASSUME NEW r \in AnyRepresentation, x = InitSegment(t, p, r)
        PROVE  /\ x \in Items /\ x.track = t /\ d.last <= x.pos /\ x.pos <= d.pos
               /\ (~IsInit(x) => x.pos = d.pos)
    BY <1>1, <1>2, <1>3, <2>1, <2>4 DEF InitSegment, Items, IsInit
  <2> QED BY <2>2, <2>3, <2>4
<1>5. x.pos \in Nat /\ End(x) \in Nat
  BY <1>4 DEF Items, End
<1>6. /\ e \in DownloaderState /\ e.at = label /\ e.last = End(x)
      /\ e.pos = (IF IsInit(x) THEN d.pos ELSE d.pos + 1)
      /\ (label # "download" => e.item = x)
  BY <1>1, <1>4, <1>5 DEF DownloaderState
<1>7. downloader' = [downloader EXCEPT ![t] = e]
  BY DEF Downloaded
<1> HIDE DEF e
<1>8. /\ downloader' \in [Tracks -> DownloaderState] /\ downloader'[t] = e
      /\ \A u \in Tracks \ {t} : downloader'[u] = downloader[u]
  BY <1>6, <1>7 DEF DownloaderTypes
<1>9. e.last <= e.pos
  BY <1>1, <1>4, <1>5, <1>6 DEF End
<1>10. DownloaderTypes'
  BY <1>4, <1>6, <1>8, <1>9 DEF DownloaderTypes, At
<1> QED BY <1>4, <1>6, <1>8, <1>10

(* The downloader of t goes from one label to another.                     *)
LEMMA Goes ==
  ASSUME DownloaderTypes, NEW t \in Tracks, NEW e \in DownloaderState,
         downloader' = [downloader EXCEPT ![t] = e],
         e.last = downloader[t].last, e.pos >= downloader[t].pos,
         e.at # "download" => ~At(t, "download") /\ e.item = downloader[t].item,
         mIsLocalTSBInjection' \subseteq Tracks
  PROVE  /\ downloader'[t] = e
         /\ \A u \in Tracks \ {t} : downloader'[u] = downloader[u]
         /\ DownloaderTypes'
<1>1. /\ downloader' \in [Tracks -> DownloaderState] /\ downloader'[t] = e
      /\ \A u \in Tracks \ {t} : downloader'[u] = downloader[u]
  BY DEF DownloaderTypes
<1>2. downloader[t].last <= downloader[t].pos /\ downloader[t] \in DownloaderState
  BY DEF DownloaderTypes
<1>3. e.last <= e.pos
  BY <1>2 DEF DownloaderState
<1>4. DownloaderTypes'
  BY <1>1, <1>3 DEF DownloaderTypes, At
<1> QED BY <1>1, <1>4

(* An item is enqueued, and what follows.                                  *)
EnqueuedItem(t, x) ==
  /\ x \in Items /\ x.track = t /\ Rest(t) <= x.pos /\ Rest(t)' = End(x)
  /\ At(t, "download") /\ ~IsInit(x) => x.pos = downloader[t].pos
  /\ At(t, "wait") => x = downloader[t].item /\ UNCHANGED downloader[t].pos
  /\ downloader'[t].at \in {"download", "push"}
  /\ downloader'[t].at = "push" => downloader'[t].item = x
  /\ downloader[t].pos <= downloader'[t].pos
  /\ At(t, "download") /\ ~IsInit(x) => downloader'[t].pos = downloader[t].pos + 1
  /\ \A u \in Tracks \ {t} : downloader'[u] = downloader[u]
  /\ DownloaderTypes'
  /\ mWriteQueue' = Append(mWriteQueue, x)
  /\ UNCHANGED <<writer, store, mTsbFragmentData, culled, users,
                 mCurrentInitData, culler, emptied>>

Enqueued(t) == ~At(t, "push") /\ \E x \in Items : EnqueuedItem(t, x)

LEMMA DownloadEnqueues ==
  ASSUME DownloaderTypes, NEW t \in Tracks,
         OnFragmentDownloadSuccess(t) \/ CheckForWaitIfReaderDone(t),
         ~(At(t, "download") /\ CheckEos(t))
  PROVE  Enqueued(t)
<1>1. CASE OnFragmentDownloadSuccess(t)
  <2> DEFINE label == IF t \in mIsLocalTSBInjection THEN "download" ELSE "push"
  <2>1. PICK x \in Downloadable(t) :
          /\ mWriteQueue' = Append(mWriteQueue, x)
          /\ Downloaded(t, x, label)
    BY <1>1 DEF OnFragmentDownloadSuccess, EnqueueWrite
  <2>2. /\ At(t, "download") /\ label \in {"download", "push"}
        /\ mIsLocalTSBInjection' \subseteq Tracks
    BY <1>1 DEF OnFragmentDownloadSuccess, DownloaderTypes
  <2> HIDE DEF label
  <2>3. /\ x \in Items /\ x.track = t
        /\ downloader[t].last <= x.pos /\ (~IsInit(x) => x.pos = downloader[t].pos)
        /\ downloader'[t].at = label /\ downloader'[t].last = End(x)
        /\ downloader'[t].pos = (IF IsInit(x) THEN downloader[t].pos
                                 ELSE downloader[t].pos + 1)
        /\ (label # "download" => downloader'[t].item = x)
        /\ \A u \in Tracks \ {t} : downloader'[u] = downloader[u]
        /\ DownloaderTypes'
    BY <2>1, <2>2, Downloads
  <2>4. Rest(t) = downloader[t].last /\ Rest(t)' = downloader'[t].last
    BY <2>2, <2>3 DEF Rest, At
  <2>5. UNCHANGED <<writer, store, mTsbFragmentData, culled, users,
                    mCurrentInitData, culler, emptied>>
    BY <1>1 DEF OnFragmentDownloadSuccess, dataVars, history
  <2>6. downloader[t].pos \in Nat
    BY DEF DownloaderTypes, DownloaderState
  <2>7. EnqueuedItem(t, x)
    BY <2>1, <2>2, <2>3, <2>4, <2>5, <2>6 DEF EnqueuedItem, At
  <2> QED BY <2>2, <2>3, <2>7 DEF Enqueued, At
<1>2. CASE CheckForWaitIfReaderDone(t)
  <2> DEFINE x == downloader[t].item
  <2>1. /\ At(t, "wait") /\ mIsLocalTSBInjection' \subseteq Tracks
        /\ mWriteQueue' = Append(mWriteQueue, x)
        /\ UNCHANGED <<writer, store, mTsbFragmentData, culled, users,
                       mCurrentInitData, culler, emptied>>
    BY <1>2 DEF CheckForWaitIfReaderDone, EnqueueWrite, DownloaderTypes, dataVars,
                history
  <2>2. /\ x \in Items /\ x.track = t /\ downloader[t].last = End(x)
        /\ downloader[t] \in DownloaderState /\ downloader[t].pos \in Nat
    BY <2>1 DEF DownloaderTypes, At, DownloaderState
  <2>3. PICK e : e = [downloader[t] EXCEPT !.at = "push"]
    OBVIOUS
  <2>4. /\ downloader'[t].at = "push" /\ downloader'[t].pos = downloader[t].pos
        /\ downloader'[t].last = downloader[t].last /\ downloader'[t].item = x
        /\ \A u \in Tracks \ {t} : downloader'[u] = downloader[u]
        /\ DownloaderTypes'
    <3>1. /\ e \in DownloaderState /\ e.at = "push" /\ e.pos = downloader[t].pos
          /\ e.last = downloader[t].last /\ e.item = x
      BY <2>2, <2>3 DEF DownloaderState
    <3>2. downloader' = [downloader EXCEPT ![t] = e]
      BY <1>2, <2>3 DEF CheckForWaitIfReaderDone, Goto
    <3>3. /\ e.pos >= downloader[t].pos
          /\ e.at # "download" => ~At(t, "download") /\ e.item = downloader[t].item
      BY <2>1, <2>2, <3>1 DEF At
    <3>4. /\ downloader'[t] = e /\ DownloaderTypes'
          /\ \A u \in Tracks \ {t} : downloader'[u] = downloader[u]
      BY <2>1, <3>1, <3>2, <3>3, Goes, Zenon
    <3> QED BY <3>1, <3>4
  <2>5. Rest(t) = x.pos /\ Rest(t)' = End(x)
    BY <2>1, <2>2, <2>4 DEF Rest, At
  <2>6. x.pos \in Nat
    BY <2>2 DEF Items
  <2>7. EnqueuedItem(t, x)
    BY <2>1, <2>2, <2>4, <2>5, <2>6 DEF EnqueuedItem, At
  <2> QED BY <2>1, <2>2, <2>7 DEF Enqueued, At
<1> QED BY <1>1, <1>2

(* The downloader that is to take over waits for the reader.               *)
LEMMA DownloadWaits ==
  ASSUME DownloaderTypes, NEW t \in Tracks,
         OnFragmentDownloadSuccess(t) \/ CheckForWaitIfReaderDone(t),
         At(t, "download") /\ CheckEos(t)
  PROVE  /\ \A u \in Tracks : Rest(u)' \in Nat /\ Rest(u)' >= Rest(u)
         /\ At(t, "wait")' /\ downloader[t].pos <= downloader'[t].pos
         /\ ~IsInit(downloader'[t].item) =>
              downloader'[t].item.pos = downloader[t].pos
         /\ \A u \in Tracks \ {t} : downloader'[u] = downloader[u]
         /\ DownloaderTypes'
         /\ UNCHANGED <<mWriteQueue, writer, store, mTsbFragmentData, culled,
                        users, mCurrentInitData, culler, emptied,
                        mIsLocalTSBInjection, reader, tsbReader, injected>>
<1>1. OnFragmentDownloadSuccess(t)
  BY DEF CheckForWaitIfReaderDone, At
<1>2. PICK x \in Downloadable(t) :
        Downloaded(t, x, "wait") /\ UNCHANGED mWriteQueue
  BY <1>1 DEF OnFragmentDownloadSuccess
<1>3. mIsLocalTSBInjection' \subseteq Tracks
  BY <1>1 DEF OnFragmentDownloadSuccess, DownloaderTypes
<1>4. /\ x \in Items /\ x.track = t
      /\ downloader[t].last <= x.pos /\ (~IsInit(x) => x.pos = downloader[t].pos)
      /\ downloader'[t].at = "wait"
      /\ downloader'[t].pos = (IF IsInit(x) THEN downloader[t].pos
                               ELSE downloader[t].pos + 1)
      /\ downloader'[t].item = x
      /\ \A u \in Tracks \ {t} : downloader'[u] = downloader[u]
      /\ DownloaderTypes'
  BY <1>2, <1>3, Downloads
<1>5. UNCHANGED <<writer, store, mTsbFragmentData, culled, users,
                  mCurrentInitData, culler, emptied, mIsLocalTSBInjection,
                  reader, tsbReader, injected>>
  BY <1>1 DEF OnFragmentDownloadSuccess, dataVars, history, readVars
<1>6. x.pos \in Nat /\ downloader[t].pos \in Nat
  BY <1>4 DEF Items, DownloaderTypes, DownloaderState
<1>7. ASSUME NEW u \in Tracks PROVE Rest(u)' \in Nat /\ Rest(u)' >= Rest(u)
  <2>1. CASE u = t
    BY <1>4, <1>6, <2>1 DEF Rest, At
  <2>2. CASE u # t
    BY <1>4, <2>2, RestType DEF Rest, At
  <2> QED BY <2>1, <2>2
<1> QED BY <1>2, <1>4, <1>5, <1>6, <1>7 DEF At

(* The downloader has put its item into the ring, or leaves a fragment out.*)
LEMMA PushGoesOn ==
  ASSUME DownloaderTypes, NEW t \in Tracks,
         CacheStagingFragmentForInjection(t) \/ OnFragmentDownloadFailed(t)
  PROVE  /\ \A u \in Tracks : Rest(u)' = Rest(u)
         /\ downloader'[t].at = "download" /\ downloader[t].pos <= downloader'[t].pos
         /\ CacheStagingFragmentForInjection(t) =>
              At(t, "push") /\ downloader'[t].pos = downloader[t].pos
         /\ OnFragmentDownloadFailed(t) =>
              /\ At(t, "download")
              /\ UNCHANGED <<injected, reader, tsbReader, overtaken, tuneVars>>
         /\ \A u \in Tracks \ {t} : downloader'[u] = downloader[u]
         /\ DownloaderTypes'
         /\ UNCHANGED <<mWriteQueue, writer, store, mTsbFragmentData, culled,
                        users, mCurrentInitData, culler, emptied,
                        mIsLocalTSBInjection, reader, tsbReader>>
<1>1. /\ mIsLocalTSBInjection' \subseteq Tracks
      /\ UNCHANGED <<mWriteQueue, writer, store, mTsbFragmentData, culled,
                     users, mCurrentInitData, culler, emptied,
                     mIsLocalTSBInjection, reader, tsbReader>>
  BY DEF CacheStagingFragmentForInjection, OnFragmentDownloadFailed, DownloaderTypes,
         writeVars, dataVars, history, readVars
<1>2. /\ downloader[t] \in DownloaderState /\ downloader[t].pos \in Nat
      /\ downloader[t].item \in Items \cup {NoItem}
  BY DEF DownloaderTypes, DownloaderState
<1>3. CASE CacheStagingFragmentForInjection(t)
  <2>1. PICK f, e : /\ f = [downloader[t] EXCEPT !.at = "download"]
                   /\ e = [f EXCEPT !.item = NoItem]
    OBVIOUS
  <2>2. /\ downloader'[t].at = "download" /\ downloader'[t].pos = downloader[t].pos
        /\ downloader'[t].last = downloader[t].last
        /\ \A u \in Tracks \ {t} : downloader'[u] = downloader[u]
        /\ DownloaderTypes'
    <3>1. /\ f \in DownloaderState /\ f.at = "download" /\ f.pos = downloader[t].pos
          /\ f.last = downloader[t].last
      BY <1>2, <2>1 DEF DownloaderState
    <3>2. /\ e \in DownloaderState /\ e.at = "download" /\ e.pos = downloader[t].pos
          /\ e.last = downloader[t].last
      BY <2>1, <3>1 DEF DownloaderState
    <3>3. downloader' = [downloader EXCEPT ![t] = e]
      BY <1>3, <2>1 DEF CacheStagingFragmentForInjection, DownloaderTypes
    <3>4. /\ e.pos >= downloader[t].pos
          /\ e.at # "download" => ~At(t, "download") /\ e.item = downloader[t].item
      BY <1>2, <3>2
    <3>5. /\ downloader'[t] = e /\ DownloaderTypes'
          /\ \A u \in Tracks \ {t} : downloader'[u] = downloader[u]
      BY <1>1, <3>2, <3>3, <3>4, Goes, Zenon
    <3> QED BY <3>2, <3>5
  <2>3. At(t, "push") /\ ~OnFragmentDownloadFailed(t)
    BY <1>3 DEF CacheStagingFragmentForInjection, OnFragmentDownloadFailed, At
  <2>4. \A u \in Tracks : Rest(u)' = Rest(u)
    BY <2>2, <2>3 DEF Rest, At
  <2> QED BY <1>1, <1>2, <2>2, <2>3, <2>4
<1>4. CASE OnFragmentDownloadFailed(t)
  <2>1. PICK e : e = [downloader[t] EXCEPT !.pos = downloader[t].pos + 1]
    OBVIOUS
  <2>2. /\ downloader'[t].at = "download" /\ downloader'[t].pos = downloader[t].pos + 1
        /\ downloader'[t].last = downloader[t].last
        /\ \A u \in Tracks \ {t} : downloader'[u] = downloader[u]
        /\ DownloaderTypes'
    <3>1. /\ e \in DownloaderState /\ e.at = "download"
          /\ e.pos = downloader[t].pos + 1 /\ e.last = downloader[t].last
      BY <1>2, <1>4, <2>1 DEF DownloaderState, OnFragmentDownloadFailed, At
    <3>2. downloader' = [downloader EXCEPT ![t] = e]
      BY <1>4, <2>1 DEF OnFragmentDownloadFailed
    <3>3. /\ e.pos >= downloader[t].pos
          /\ e.at # "download" => ~At(t, "download") /\ e.item = downloader[t].item
      BY <1>2, <3>1
    <3>4. /\ downloader'[t] = e /\ DownloaderTypes'
          /\ \A u \in Tracks \ {t} : downloader'[u] = downloader[u]
      BY <1>1, <3>1, <3>2, <3>3, Goes, Zenon
    <3> QED BY <3>1, <3>4
  <2>3. /\ At(t, "download") /\ ~CacheStagingFragmentForInjection(t)
        /\ UNCHANGED <<injected, reader, tsbReader, overtaken, tuneVars>>
    BY <1>4 DEF CacheStagingFragmentForInjection, OnFragmentDownloadFailed, At,
                history, readVars
  <2>4. \A u \in Tracks : Rest(u)' = Rest(u)
    BY <2>2, <2>3 DEF Rest, At
  <2> QED BY <1>1, <1>2, <2>2, <2>3, <2>4
<1> QED BY <1>3, <1>4

------------------------------------------------------------------------------
(* Types.                                                                  *)

LEMMA DownloaderTypesStep ==
  ASSUME SideTypes, [Next]_vars
  PROVE  DownloaderTypes'
<1>1. DownloaderTypes
  BY DEF SideTypes
<1>2. ASSUME NEW t \in Tracks,
             OnFragmentDownloadSuccess(t) \/ CheckForWaitIfReaderDone(t)
      PROVE  DownloaderTypes'
  BY <1>1, <1>2, DownloadEnqueues, DownloadWaits DEF Enqueued, EnqueuedItem
<1>3. ASSUME NEW t \in Tracks,
             CacheStagingFragmentForInjection(t) \/ OnFragmentDownloadFailed(t)
      PROVE  DownloaderTypes'
  BY <1>1, <1>3, PushGoesOn
<1>4. ASSUME UNCHANGED downloader, mIsLocalTSBInjection' \subseteq Tracks
      PROVE  DownloaderTypes'
  BY <1>1, <1>4 DEF DownloaderTypes, At
<1>5. ASSUME Writer \/ Culler PROVE DownloaderTypes'
  BY <1>1, <1>4, <1>5
  DEF DownloaderTypes, Writer, WriterTest, WriterWrite, AddFragment, MakeRoom,
      Culler, CullRemove, CullDelete
<1>6. ASSUME NEW t \in Tracks, Reader(t) PROVE DownloaderTypes'
  BY <1>1, <1>4, <1>6
  DEF DownloaderTypes, Reader, ReadNext, ReadInit, ReadMedia, CacheMedia
<1>7. ASSUME ReaderExit \/ FinishSeek PROVE DownloaderTypes'
  BY <1>1, <1>4, <1>7
  DEF DownloaderTypes, ReaderExit, FinishSeek, JoinReader, InvokeTsbReaders,
      SetLocalTSBInjection, StartFromAampLocalTsb
<1>8. ASSUME NEW tune, NEW pos, Seek(tune, pos) PROVE DownloaderTypes'
  BY <1>1, <1>4, <1>8 DEF DownloaderTypes, Seek
<1>9. CASE UNCHANGED vars
  BY <1>1, <1>4, <1>9 DEF DownloaderTypes, vars
<1> QED BY <1>2, <1>3, <1>5, <1>6, <1>7, <1>8, <1>9 DEF Next, Downloader

LEMMA WriterTypesStep ==
  ASSUME SideTypes, [Next]_vars
  PROVE  WriterTypes'
<1> USE DEF SideTypes
<1>1. CASE UNCHANGED sideVars
  BY <1>1 DEF WriterTypes, sideVars, Busy, WriterAt
<1>2. ASSUME NEW t \in Tracks,
             OnFragmentDownloadSuccess(t) \/ CheckForWaitIfReaderDone(t)
      PROVE  WriterTypes'
  <2>1. CASE At(t, "download") /\ CheckEos(t)
    BY <1>2, <2>1, DownloadWaits DEF WriterTypes, Busy, WriterAt
  <2>2. CASE ~(At(t, "download") /\ CheckEos(t))
    <3>1. Enqueued(t)
      BY <1>2, <2>2, DownloadEnqueues
    <3>2. mWriteQueue' \in Seq(Items) /\ UNCHANGED writer
      BY <3>1 DEF Enqueued, EnqueuedItem, WriterTypes
    <3> QED BY <3>2 DEF WriterTypes, Busy, WriterAt
  <2> QED BY <2>1, <2>2
<1>3. ASSUME NEW t \in Tracks,
             CacheStagingFragmentForInjection(t) \/ OnFragmentDownloadFailed(t)
      PROVE  WriterTypes'
  BY <1>3, PushGoesOn DEF WriterTypes, Busy, WriterAt
<1>4. CASE WriterTest
  <2>1. mWriteQueue \in Seq(Items) /\ mWriteQueue # <<>>
    BY <1>4 DEF WriterTest, WriterTypes
  <2>2. Head(mWriteQueue) \in Items /\ Tail(mWriteQueue) \in Seq(Items)
    BY <2>1
  <2> QED BY <1>4, <2>2 DEF WriterTest, WriterTypes, Busy, WriterAt
<1>5. CASE WriterWrite
  BY <1>5 DEF WriterWrite, WriterTypes, Busy, WriterAt, WriterGoto
<1>6. CASE AddFragment
  BY <1>6 DEF AddFragment, WriterTypes, Busy, WriterAt
<1>7. CASE MakeRoom
  BY <1>7 DEF MakeRoom, WriterTypes, Busy, WriterAt, WriterGoto
<1>8. CASE Culler
  BY <1>8 DEF Culler, CullRemove, CullDelete, writeVars, WriterTypes, Busy, WriterAt
<1> QED BY <1>1, <1>2, <1>3, <1>4, <1>5, <1>6, <1>7, <1>8, OtherStep DEF Writer

------------------------------------------------------------------------------
(* The order of what is on its way.                                        *)

LEMMA NodeType ==
  ASSUME DataTypes, NEW t \in Tracks
  PROVE  /\ Len(mTsbFragmentData[t]) \in Nat
         /\ culled[t] \in Nat /\ culled[t] <= Len(mTsbFragmentData[t])
         /\ \A i \in Nodes(t) : /\ Node(t, i).pos \in Positions
                                /\ Node(t, i).init \in InitSegments
                                /\ Node(t, i).init.track = t
                                /\ Node(t, i).pos \in Nat
                                /\ Node(t, i).init.pos \in Nat
         /\ mCurrentInitData[t].pos \in Nat
<1>1. mTsbFragmentData[t] \in Seq([pos : Positions, init : InitSegments])
  BY DEF DataTypes
<1>2. \A i \in Nodes(t) : Node(t, i) \in [pos : Positions, init : InitSegments]
  BY <1>1, ElementOfSeq DEF Nodes, Node
<1>3. \A i \in Nodes(t) : /\ Node(t, i).pos \in Positions
                          /\ Node(t, i).init \in InitSegments
  BY <1>2
<1>4. mCurrentInitData[t] \in InitSegments \cup {NoItem}
  BY DEF DataTypes
<1>5. /\ culled[t] \in Nat /\ culled[t] <= Len(mTsbFragmentData[t])
      /\ Len(mTsbFragmentData[t]) \in Nat
      /\ \A i \in Nodes(t) : Node(t, i).init.track = t
  BY <1>1 DEF DataTypes
<1>6. \A p \in Positions : p \in Nat
  BY PositionsAre
<1>7. \A x \in InitSegments \cup {NoItem} : x.pos \in Nat
  BY <1>6 DEF InitSegments, NoItem
<1> HIDE DEF Nodes
<1> QED BY <1>3, <1>4, <1>5, <1>6, <1>7

LEMMA AboveMore ==
  ASSUME DataTypes, NEW t \in Tracks, NEW r \in Nat, NEW s \in Nat,
         r <= s, Above(t, r)
  PROVE  Above(t, s)
  BY NodeType DEF Above

LEMMA QueueType ==
  ASSUME WriterTypes
  PROVE  /\ Len(mWriteQueue) \in Nat
         /\ \A j \in 1 .. Len(mWriteQueue) : mWriteQueue[j] \in Items
  BY DEF WriterTypes

(* The downloader goes on to something later.                              *)
LEMMA RestGrows ==
  ASSUME DownloaderTypes, NEW t \in Tracks, NEW x, EnqueuedItem(t, x)
  PROVE  /\ x \in Items /\ x.track = t /\ Rest(t) <= x.pos /\ Rest(t)' = End(x)
         /\ \A u \in Tracks : /\ Rest(u) \in Nat /\ Rest(u)' \in Nat
                              /\ Rest(u)' >= Rest(u)
<1>1. x \in Items /\ x.track = t /\ Rest(t) <= x.pos /\ Rest(t)' = End(x)
  BY DEF EnqueuedItem
<1>2. \A u \in Tracks \ {t} : Rest(u)' = Rest(u)
  BY DEF EnqueuedItem, Rest, At
<1>3. \A u \in Tracks : Rest(u) \in Nat
  BY RestType
<1>4. End(x) \in Nat /\ x.pos \in Nat /\ x.pos <= End(x)
  BY <1>1, ItemType
<1> QED BY <1>1, <1>2, <1>3, <1>4

LEMMA QueueGrows ==
  ASSUME WriterTypes, NEW t \in Tracks, NEW x, EnqueuedItem(t, x)
  PROVE  /\ Len(mWriteQueue') = Len(mWriteQueue) + 1
         /\ \A j \in 1 .. Len(mWriteQueue) : mWriteQueue'[j] = mWriteQueue[j]
         /\ mWriteQueue'[Len(mWriteQueue) + 1] = x
  BY DEF EnqueuedItem, WriterTypes

(* What fits still does as long as nothing is entered for its track.       *)
LEMMA FitsStays ==
  ASSUME DownloaderTypes, \A u \in Tracks : Rest(u)' \in Nat /\ Rest(u)' >= Rest(u),
         UNCHANGED <<mTsbFragmentData, mCurrentInitData>>
  PROVE  /\ \A x \in Items : Fits(x) => Fits(x)'
         /\ \A u \in Tracks, r \in Nat : Above(u, r)' <=> Above(u, r)
<1>1. \A u \in Tracks, r \in Nat : Above(u, r)' <=> Above(u, r)
  BY DEF Above, Nodes, Node
<1>2. ASSUME NEW x \in Items, Fits(x) PROVE Fits(x)'
  <2>1. /\ x.track \in Tracks /\ x.pos \in Nat /\ End(x) \in Nat
        /\ End(x) <= Rest(x.track) /\ Above(x.track, x.pos)
    BY <1>2, ItemType DEF Fits
  <2>2. Rest(x.track) \in Nat /\ Rest(x.track)' \in Nat /\ Rest(x.track)' >= Rest(x.track)
    BY <2>1, RestType
  <2>3. End(x) <= Rest(x.track)' /\ Above(x.track, x.pos)'
    BY <1>1, <2>1, <2>2
  <2> QED BY <2>3 DEF Fits
<1> QED BY <1>1, <1>2

LEMMA OrderEnqueue ==
  ASSUME SideTypes, OrderInv, NEW t \in Tracks, Enqueued(t)
  PROVE  OrderInv'
<1> DEFINE n == Len(mWriteQueue) + 1
<1> USE DEF SideTypes
<1>0. PICK x : EnqueuedItem(t, x)
  BY DEF Enqueued
<1>1. /\ x \in Items /\ x.track = t /\ Rest(t) <= x.pos /\ Rest(t)' = End(x)
      /\ x.pos \in Nat /\ End(x) \in Nat
      /\ \A u \in Tracks : Rest(u) \in Nat /\ Rest(u)' \in Nat /\ Rest(u)' >= Rest(u)
  BY <1>0, RestGrows, ItemType
<1>2. /\ n \in Nat /\ Len(mWriteQueue') = n
      /\ \A j \in 1 .. n - 1 : mWriteQueue'[j] = mWriteQueue[j]
      /\ mWriteQueue'[n] = x
      /\ \A j \in 1 .. n - 1 : mWriteQueue[j] \in Items
  BY <1>0, QueueGrows, QueueType
<1>3. /\ Busy' <=> Busy
      /\ UNCHANGED <<writer, mTsbFragmentData, mCurrentInitData>>
  BY <1>0 DEF EnqueuedItem, Busy, WriterAt
<1>4. /\ \A y \in Items : Fits(y) => Fits(y)'
      /\ \A u \in Tracks, r \in Nat : Above(u, r)' <=> Above(u, r)
  BY <1>1, <1>3, FitsStays
<1>5. Fits(x)' /\ BehindWriter(x)'
  <2>1. Above(t, x.pos)
    BY <1>1, AboveMore DEF OrderInv
  <2>2. Fits(x)'
    BY <1>1, <1>4, <2>1 DEF Fits
  <2>3. Busy => Fits(writer.item)
    BY DEF OrderInv
  <2>4. BehindWriter(x)
    <3> SUFFICES ASSUME Busy, writer.item.track = x.track
                 PROVE  End(writer.item) <= x.pos
      BY DEF BehindWriter
    <3>1. writer.item \in Items /\ End(writer.item) <= Rest(t)
      BY <1>1, <2>3 DEF Fits, WriterTypes
    <3> QED BY <1>1, <3>1, ItemType
  <2>5. BehindWriter(x)'
    BY <1>3, <2>4 DEF BehindWriter, End
  <2> QED BY <2>2, <2>5
<1>6. ASSUME NEW j \in 1 .. n
      PROVE  Fits(mWriteQueue[j])' /\ BehindWriter(mWriteQueue[j])'
  <2>1. CASE j = n
    BY <1>2, <1>5, <2>1
  <2>2. CASE j # n
    <3>1. j \in 1 .. n - 1
      BY <1>2, <2>2
    <3>2. PICK y \in Items : y = mWriteQueue[j]
      BY <1>2, <3>1
    <3>3. Fits(y) /\ BehindWriter(y)
      BY <3>1, <3>2, <1>2 DEF OrderInv
    <3>4. Fits(y)' /\ BehindWriter(y)'
      BY <1>3, <1>4, <3>3 DEF BehindWriter, End
    <3> QED BY <1>2, <3>1, <3>2, <3>4
  <2> QED BY <2>1, <2>2
<1>7. ASSUME NEW i \in 1 .. n, NEW j \in 1 .. n, i < j,
             mWriteQueue'[i].track = mWriteQueue'[j].track
      PROVE  End(mWriteQueue[i])' <= mWriteQueue'[j].pos
  <2>1. i \in 1 .. n - 1 /\ mWriteQueue'[i] = mWriteQueue[i]
    BY <1>2, <1>7
  <2>2. CASE j = n
    <3>1. Fits(mWriteQueue[i])
      BY <1>2, <2>1 DEF OrderInv
    <3>2. mWriteQueue[i].track = t
      BY <1>1, <1>2, <1>7, <2>1, <2>2
    <3>3. mWriteQueue[i] \in Items /\ End(mWriteQueue[i]) <= Rest(t)
      BY <1>2, <2>1, <3>1, <3>2 DEF Fits
    <3>4. End(mWriteQueue[i]) <= x.pos
      BY <1>1, <3>3, ItemType
    <3> QED BY <1>2, <2>1, <2>2, <3>4 DEF End
  <2>3. CASE j # n
    <3>1. j \in 1 .. n - 1 /\ mWriteQueue'[j] = mWriteQueue[j]
      BY <1>2, <2>3
    <3>2. End(mWriteQueue[i]) <= mWriteQueue[j].pos
      BY <1>2, <1>7, <2>1, <3>1 DEF OrderInv
    <3> QED BY <2>1, <3>1, <3>2 DEF End
  <2> QED BY <2>2, <2>3
<1>8. Busy' => Fits(writer.item)'
  <2>1. CASE Busy
    <3>1. PICK y \in Items : y = writer.item
      BY <2>1 DEF WriterTypes
    <3>2. Fits(y)'
      BY <1>4, <2>1, <3>1 DEF OrderInv
    <3> QED BY <1>3, <3>1, <3>2
  <2>2. CASE ~Busy
    BY <1>3, <2>2
  <2> QED BY <2>1, <2>2
<1>9. ASSUME NEW u \in Tracks PROVE Above(u, Rest(u))'
  <2>1. PICK r \in Nat : r = Rest(u)'
    BY <1>1
  <2>2. Above(u, r)
    BY <1>1, <2>1, AboveMore DEF OrderInv
  <2>3. Above(u, r)'
    BY <1>4, <2>2
  <2> QED BY <2>1, <2>3
<1>10. Len(mWriteQueue)' = n
  BY <1>2
<1> HIDE DEF n
<1> QED BY <1>6, <1>7, <1>8, <1>9, <1>10 DEF OrderInv

(* Steps that move nothing along the way, but for the writer that may let  *)
(* go of what it cannot enter.                                             *)
OnTheWayKept ==
  /\ UNCHANGED <<mWriteQueue, mTsbFragmentData, mCurrentInitData>>
  /\ Busy' => Busy /\ writer'.item = writer.item
  /\ \A u \in Tracks : Rest(u)' \in Nat /\ Rest(u)' >= Rest(u)

LEMMA WayKept ==
  ASSUME SideTypes, [Next]_vars
  PROVE  \/ \E t \in Tracks : Enqueued(t)
         \/ WriterTest \/ AddFragment
         \/ OnTheWayKept
<1> USE DEF SideTypes
<1>0. \A u \in Tracks : Rest(u) \in Nat
  BY RestType
<1>1. ASSUME UNCHANGED downloader
      PROVE  \A u \in Tracks : Rest(u)' \in Nat /\ Rest(u)' >= Rest(u)
  BY <1>0, <1>1 DEF Rest, At
<1>2. CASE UNCHANGED sideVars
  BY <1>1, <1>2 DEF OnTheWayKept, sideVars, Busy, WriterAt
<1>3. ASSUME NEW t \in Tracks,
             OnFragmentDownloadSuccess(t) \/ CheckForWaitIfReaderDone(t)
      PROVE  Enqueued(t) \/ OnTheWayKept
  <2>1. CASE At(t, "download") /\ CheckEos(t)
    BY <1>3, <2>1, DownloadWaits DEF OnTheWayKept, Busy, WriterAt
  <2>2. CASE ~(At(t, "download") /\ CheckEos(t))
    BY <1>3, <2>2, DownloadEnqueues
  <2> QED BY <2>1, <2>2
<1>4. ASSUME NEW t \in Tracks,
             CacheStagingFragmentForInjection(t) \/ OnFragmentDownloadFailed(t)
      PROVE  OnTheWayKept
  <2>1. \A u \in Tracks : Rest(u)' \in Nat /\ Rest(u)' >= Rest(u)
    BY <1>0, <1>4, PushGoesOn
  <2> QED BY <1>4, <2>1, PushGoesOn DEF OnTheWayKept, Busy, WriterAt
<1>5. CASE WriterWrite
  <2>1. /\ UNCHANGED <<downloader, mWriteQueue, mTsbFragmentData, mCurrentInitData>>
        /\ Busy' => Busy /\ writer'.item = writer.item
    BY <1>5 DEF WriterWrite, Busy, WriterAt, WriterGoto, dataVars, WriterTypes
  <2> QED BY <1>1, <2>1 DEF OnTheWayKept
<1>6. CASE MakeRoom
  BY <1>1, <1>6 DEF MakeRoom, RemoveFragment, OnTheWayKept, Busy, WriterAt,
                    WriterGoto, dataVars, WriterTypes
<1>7. CASE CullRemove
  BY <1>1, <1>7 DEF CullRemove, RemoveFragment, OnTheWayKept, Busy, WriterAt, writeVars
<1>8. CASE CullDelete
  BY <1>1, <1>8 DEF CullDelete, OnTheWayKept, Busy, WriterAt, writeVars, dataVars
<1> QED
  BY <1>2, <1>3, <1>4, <1>5, <1>6, <1>7, <1>8, OtherStep DEF Writer, Culler

LEMMA OrderKept ==
  ASSUME SideTypes, OrderInv, OnTheWayKept
  PROVE  OrderInv'
<1> USE DEF SideTypes
<1>1. /\ UNCHANGED <<mWriteQueue, mTsbFragmentData, mCurrentInitData>>
      /\ Busy' => Busy /\ writer'.item = writer.item
      /\ \A u \in Tracks : Rest(u)' \in Nat /\ Rest(u)' >= Rest(u)
  BY DEF OnTheWayKept
<1>2. /\ \A y \in Items : Fits(y) => Fits(y)'
      /\ \A u \in Tracks, r \in Nat : Above(u, r)' <=> Above(u, r)
  BY <1>1, FitsStays
<1>3. \A y : BehindWriter(y) => BehindWriter(y)'
  BY <1>1 DEF BehindWriter, End
<1>4. ASSUME NEW j \in 1 .. Len(mWriteQueue)
      PROVE  Fits(mWriteQueue[j])' /\ BehindWriter(mWriteQueue[j])'
  <2>1. PICK y \in Items : y = mWriteQueue[j]
    BY QueueType
  <2>2. Fits(y)' /\ BehindWriter(y)'
    BY <1>2, <1>3, <2>1 DEF OrderInv
  <2> QED BY <1>1, <2>1, <2>2
<1>5. Busy' => Fits(writer.item)'
  <2> SUFFICES ASSUME Busy' PROVE Fits(writer.item)' OBVIOUS
  <2>1. PICK y \in Items : y = writer.item
    BY <1>1 DEF WriterTypes
  <2>2. Fits(y)'
    BY <1>1, <1>2, <2>1 DEF OrderInv
  <2>3. y = writer'.item
    BY <1>1, <2>1
  <2> QED BY <2>2, <2>3
<1>6. ASSUME NEW u \in Tracks PROVE Above(u, Rest(u))'
  <2>1. PICK r \in Nat : r = Rest(u)'
    BY <1>1
  <2>2. Rest(u) \in Nat /\ Rest(u) <= r
    BY <1>1, <2>1, RestType
  <2>3. Above(u, r)
    BY <2>2, AboveMore DEF OrderInv
  <2>4. Above(u, r)'
    BY <1>2, <2>3
  <2> QED BY <2>1, <2>4
<1>7. \A i, j \in 1 .. Len(mWriteQueue) :
        i < j /\ mWriteQueue'[i].track = mWriteQueue'[j].track
          => End(mWriteQueue[i])' <= mWriteQueue'[j].pos
  BY <1>1 DEF OrderInv, End
<1> QED BY <1>1, <1>4, <1>5, <1>6, <1>7 DEF OrderInv

LEMMA OrderTest ==
  ASSUME SideTypes, OrderInv, WriterTest
  PROVE  OrderInv'
<1> USE DEF SideTypes
<1> DEFINE q == mWriteQueue
<1>1. /\ q \in Seq(Items) /\ q # <<>> /\ ~Busy /\ Busy'
      /\ writer'.item = Head(q) /\ mWriteQueue' = Tail(q)
      /\ UNCHANGED <<downloader, mTsbFragmentData, mCurrentInitData>>
  BY DEF WriterTest, WriterTypes, Busy, WriterAt, dataVars
<1>2. /\ Len(q) \in Nat /\ Len(q) > 0 /\ Head(q) = q[1]
      /\ Len(mWriteQueue') = Len(q) - 1
      /\ \A j \in 1 .. Len(q) - 1 : mWriteQueue'[j] = q[j + 1]
  BY <1>1
<1>3. \A u \in Tracks : Rest(u)' = Rest(u) /\ Rest(u) \in Nat
  BY <1>1, RestType DEF Rest, At
<1>4. /\ \A y \in Items : Fits(y) => Fits(y)'
      /\ \A u \in Tracks, r \in Nat : Above(u, r)' <=> Above(u, r)
  BY <1>1, <1>3, FitsStays
<1>5. ASSUME NEW j \in 1 .. Len(q) - 1
      PROVE  Fits(mWriteQueue[j])' /\ BehindWriter(mWriteQueue[j])'
  <2>1. PICK y \in Items : y = q[j + 1]
    BY <1>2, QueueType
  <2>2. j + 1 \in 1 .. Len(q) /\ 1 \in 1 .. Len(q) /\ 1 < j + 1
    BY <1>2
  <2>3. Fits(y)'
    BY <1>4, <2>1, <2>2 DEF OrderInv
  <2>4. q[1].track = y.track => End(q[1]) <= y.pos
    BY <2>1, <2>2 DEF OrderInv
  <2>5. BehindWriter(y)'
    BY <1>1, <1>2, <2>4 DEF BehindWriter, End
  <2> QED BY <1>2, <2>1, <2>3, <2>5
<1>6. Fits(writer.item)'
  <2>1. PICK y \in Items : y = q[1]
    BY <1>2, QueueType
  <2>2. Fits(y)'
    BY <1>2, <1>4, <2>1 DEF OrderInv
  <2> QED BY <1>1, <1>2, <2>1, <2>2
<1>7. ASSUME NEW i \in 1 .. Len(q) - 1, NEW j \in 1 .. Len(q) - 1, i < j,
             mWriteQueue'[i].track = mWriteQueue'[j].track
      PROVE  End(mWriteQueue[i])' <= mWriteQueue'[j].pos
  <2>1. /\ i + 1 \in 1 .. Len(q) /\ j + 1 \in 1 .. Len(q) /\ i + 1 < j + 1
        /\ q[i + 1].track = q[j + 1].track
    BY <1>2, <1>7
  <2>2. End(q[i + 1]) <= q[j + 1].pos
    BY <2>1 DEF OrderInv
  <2> QED BY <1>2, <2>2 DEF End
<1>8. ASSUME NEW u \in Tracks PROVE Above(u, Rest(u))'
  <2>1. PICK r \in Nat : r = Rest(u) /\ r = Rest(u)'
    BY <1>3
  <2>2. Above(u, r)'
    BY <1>4, <2>1 DEF OrderInv
  <2> QED BY <2>1, <2>2
<1>9. Len(mWriteQueue)' = Len(q) - 1
  BY <1>2
<1> HIDE DEF q
<1> QED BY <1>5, <1>6, <1>7, <1>8, <1>9 DEF OrderInv

------------------------------------------------------------------------------
(* What a step does to the data managers.                                  *)

(* The writer enters its item.                                             *)
AddedInit(t) ==
  /\ IsInit(writer.item)
  /\ mCurrentInitData'[t] = writer.item
  /\ UNCHANGED <<mTsbFragmentData, users>>

AddedMedia(t) ==
  LET n == Len(mTsbFragmentData[t]) + 1 IN
  /\ ~IsInit(writer.item) /\ mCurrentInitData[t] # NoItem
  /\ mTsbFragmentData' \in [Tracks -> Seq([pos : Positions, init : InitSegments])]
  /\ Nodes(t)' = 1 .. n /\ Len(mTsbFragmentData'[t]) = n
  /\ \A i \in 1 .. n - 1 : Node(t, i)' = Node(t, i)
  /\ mTsbFragmentData'[t][n] =
       [pos |-> writer.item.pos, init |-> mCurrentInitData[t]]
  /\ users' = UsersAfterAdd(t)
  /\ UNCHANGED mCurrentInitData

Added(t) ==
  /\ WriterAt("add") /\ Busy /\ ~Busy' /\ WriterAt("test")'
  /\ writer.item \in Items /\ writer.item.track = t /\ t \in Tracks
  /\ AddedInit(t) \/ AddedMedia(t)
  /\ \A u \in Tracks \ {t} : /\ mTsbFragmentData'[u] = mTsbFragmentData[u]
                             /\ mCurrentInitData'[u] = mCurrentInitData[u]
  /\ UNCHANGED <<downloader, mWriteQueue, store, culled, culler, emptied>>

LEMMA AddFragmentAdds ==
  ASSUME SideTypes, AddFragment,
         IsInit(writer.item) \/ mCurrentInitData[writer.item.track] # NoItem
  PROVE  Added(writer.item.track)
<1> DEFINE t == writer.item.track
           n == Len(mTsbFragmentData[t]) + 1
           e == [pos |-> writer.item.pos, init |-> mCurrentInitData[t]]
<1> USE DEF SideTypes
<1>1. /\ WriterAt("add") /\ Busy /\ ~Busy' /\ WriterAt("test")'
      /\ writer.item \in Items /\ t \in Tracks
      /\ UNCHANGED <<downloader, mWriteQueue, store, culled, culler, emptied>>
  BY ItemType DEF AddFragment, WriterAt, Busy, WriterTypes, history
<1>2. /\ mTsbFragmentData[t] \in Seq([pos : Positions, init : InitSegments])
      /\ mTsbFragmentData \in [Tracks -> Seq([pos : Positions, init : InitSegments])]
      /\ mCurrentInitData \in [Tracks -> InitSegments \cup {NoItem}]
  BY <1>1 DEF DataTypes
<1>3. CASE IsInit(writer.item)
  <2>1. /\ mCurrentInitData' = [mCurrentInitData EXCEPT ![t] = writer.item]
        /\ UNCHANGED <<mTsbFragmentData, users>>
    BY <1>3 DEF AddFragment
  <2>2. /\ mCurrentInitData'[t] = writer.item
        /\ \A u \in Tracks \ {t} : mCurrentInitData'[u] = mCurrentInitData[u]
    BY <1>1, <1>2, <2>1
  <2> HIDE DEF t
  <2> QED BY <1>1, <1>3, <2>1, <2>2 DEF Added, AddedInit, t
<1>4. CASE ~IsInit(writer.item)
  <2>1. /\ mTsbFragmentData' = [mTsbFragmentData EXCEPT ![t] = Append(@, e)]
        /\ users' = UsersAfterAdd(t)
        /\ UNCHANGED mCurrentInitData
    BY <1>4 DEF AddFragment
  <2>2. e \in [pos : Positions, init : InitSegments]
    <3>1. writer.item.pos \in Positions
      BY <1>1, ItemType
    <3>2. mCurrentInitData[t] \in InitSegments
      BY <1>1, <1>2, <1>4
    <3> QED BY <3>1, <3>2
  <2> HIDE DEF e
  <2>3. Append(mTsbFragmentData[t], e) \in Seq([pos : Positions, init : InitSegments])
    BY <1>2, <2>2
  <2>4. /\ mTsbFragmentData' \in [Tracks -> Seq([pos : Positions, init : InitSegments])]
        /\ mTsbFragmentData'[t] = Append(mTsbFragmentData[t], e)
        /\ \A u \in Tracks \ {t} : mTsbFragmentData'[u] = mTsbFragmentData[u]
    BY <1>1, <1>2, <2>1, <2>3
  <2>5. /\ Len(mTsbFragmentData'[t]) = n
        /\ \A i \in 1 .. n - 1 : mTsbFragmentData'[t][i] = mTsbFragmentData[t][i]
        /\ mTsbFragmentData'[t][n] = e
    BY <1>2, <2>2, <2>4
  <2>6. PICK c \in Tracks : c = t
    BY <1>1
  <2>7. AddedMedia(c)
    BY <1>4, <2>1, <2>4, <2>5, <2>6 DEF AddedMedia, Nodes, Node, e
  <2>8. \A u \in Tracks \ {c} : /\ mTsbFragmentData'[u] = mTsbFragmentData[u]
                                /\ mCurrentInitData'[u] = mCurrentInitData[u]
    BY <2>1, <2>4, <2>6
  <2>9. Added(c)
    BY <1>1, <2>6, <2>7, <2>8 DEF Added
  <2> QED BY <2>6, <2>9
<1> QED BY <1>3, <1>4

(* The writer does not enter a fragment without an init segment.           *)
LEMMA AddFragmentEnters ==
  ASSUME SideTypes, AddFragment
  PROVE  Added(writer.item.track) \/ (OnTheWayKept /\ UNCHANGED storedVars)
<1> USE DEF SideTypes
<1>1. CASE IsInit(writer.item) \/ mCurrentInitData[writer.item.track] # NoItem
  BY <1>1, AddFragmentAdds
<1>2. CASE ~(IsInit(writer.item) \/ mCurrentInitData[writer.item.track] # NoItem)
  <2>1. /\ UNCHANGED storedVars /\ ~Busy' /\ UNCHANGED <<downloader, mWriteQueue>>
    BY <1>2 DEF AddFragment, storedVars, Busy, WriterAt, history
  <2>2. \A u \in Tracks : Rest(u)' \in Nat /\ Rest(u)' >= Rest(u)
    BY <2>1, RestType DEF Rest, At
  <2> QED BY <2>1, <2>2 DEF OnTheWayKept, storedVars
<1> QED BY <1>1, <1>2

(* What comes after the item entered still does.                           *)
LEMMA AboveAdded ==
  ASSUME SideTypes, NEW t, Added(t), NEW u \in Tracks, NEW r \in Nat,
         Above(u, r), u = t => End(writer.item) <= r
  PROVE  Above(u, r)'
<1> USE DEF SideTypes
<1>1. CASE u # t
  BY <1>1 DEF Added, Above, Nodes, Node
<1>2. CASE u = t /\ AddedInit(t)
  <2>1. End(writer.item) = writer.item.pos
    BY <1>2 DEF AddedInit, End
  <2> QED BY <1>2, <2>1 DEF AddedInit, Above, Nodes, Node
<1>3. CASE u = t /\ AddedMedia(t)
  <2> DEFINE n == Len(mTsbFragmentData[t]) + 1
  <2>1. End(writer.item) = writer.item.pos + 1
    BY <1>3 DEF AddedMedia, End
  <2>2. Len(mTsbFragmentData[t]) \in Nat /\ Nodes(t) = 1 .. n - 1
    BY <1>3, NodeType DEF Nodes
  <2>3. Nodes(t)' = 1 .. n /\ (\A i \in 1 .. n - 1 : Node(t, i)' = Node(t, i))
        /\ mTsbFragmentData'[t][n].pos = writer.item.pos
        /\ mCurrentInitData' = mCurrentInitData
    BY <1>3 DEF AddedMedia
  <2>4. ASSUME NEW i \in 1 .. n PROVE Node(t, i)'.pos < r
    <3>1. CASE i = n
      <4>1. Node(t, i)' = mTsbFragmentData'[t][n]
        BY <3>1 DEF Node
      <4>2. writer.item.pos \in Nat
        BY DEF Added, Items
      <4> QED BY <1>3, <2>1, <2>3, <4>1, <4>2
    <3>2. CASE i # n
      <4>1. i \in 1 .. n - 1
        BY <2>2, <3>2
      <4> HIDE DEF n
      <4> QED BY <1>3, <2>2, <2>3, <4>1 DEF Above
    <3> QED BY <3>1, <3>2
  <2> HIDE DEF n
  <2> QED BY <1>3, <2>3, <2>4 DEF Above
<1> QED BY <1>1, <1>2, <1>3 DEF Added

LEMMA OrderAdd ==
  ASSUME SideTypes, OrderInv, NEW t \in Tracks, Added(t)
  PROVE  OrderInv'
<1> USE DEF SideTypes
<1>2. /\ Busy /\ ~Busy' /\ writer.item \in Items /\ writer.item.track = t
      /\ UNCHANGED <<downloader, mWriteQueue>>
  BY DEF Added
<1>3. \A u \in Tracks : Rest(u)' = Rest(u) /\ Rest(u) \in Nat
  BY <1>2, RestType DEF Rest, At
<1>4. ASSUME NEW j \in 1 .. Len(mWriteQueue)
      PROVE  Fits(mWriteQueue[j])' /\ BehindWriter(mWriteQueue[j])'
  <2>1. PICK y \in Items : y = mWriteQueue[j]
    BY QueueType
  <2>2. Fits(y) /\ BehindWriter(y) /\ y.track \in Tracks /\ y.pos \in Nat
    BY <2>1, ItemType DEF OrderInv
  <2>3. Above(y.track, y.pos)'
    BY <1>2, <2>2, AboveAdded DEF Fits, BehindWriter
  <2>4. Fits(y)' /\ BehindWriter(y)'
    BY <1>2, <1>3, <2>2, <2>3 DEF Fits, BehindWriter
  <2> QED BY <1>2, <2>1, <2>4
<1>5. ASSUME NEW u \in Tracks PROVE Above(u, Rest(u))'
  <2>1. PICK r \in Nat : r = Rest(u) /\ r = Rest(u)'
    BY <1>3
  <2>2. Above(u, r) /\ (u = t => End(writer.item) <= r)
    BY <1>2, <2>1 DEF OrderInv, Fits
  <2>3. Above(u, r)'
    BY <2>2, AboveAdded
  <2> QED BY <2>1, <2>3
<1>6. \A i, j \in 1 .. Len(mWriteQueue) :
        i < j /\ mWriteQueue'[i].track = mWriteQueue'[j].track
          => End(mWriteQueue[i])' <= mWriteQueue'[j].pos
  BY <1>2 DEF OrderInv, End
<1> QED BY <1>2, <1>4, <1>5, <1>6 DEF OrderInv

LEMMA OrderInvStep ==
  ASSUME SideTypes, OrderInv, [Next]_vars
  PROVE  OrderInv'
<1>1. CASE AddFragment
  <2>1. writer.item.track \in Tracks
    BY <1>1, ItemType DEF AddFragment, SideTypes, WriterTypes, Busy, WriterAt
  <2> QED BY <1>1, <2>1, AddFragmentEnters, OrderAdd, OrderKept
<1> QED BY <1>1, WayKept, OrderEnqueue, OrderTest, OrderKept


------------------------------------------------------------------------------
(* The oldest fragment of t leaves the map.                                *)

First(t)   == culled[t] + 1
OldInit(t) == Node(t, First(t)).init

Removal(t) ==
  /\ ~IsEmpty(t) /\ RemoveFragment(t)
  /\ UNCHANGED <<downloader, mWriteQueue>>
  /\ \/ /\ WriterAt("makeRoom") /\ WriterAt("write")' /\ UNCHANGED culler
        /\ store' = store \ ({Oldest(t)} \union InitOfRemoved(t))
     \/ /\ culler = {} /\ culler' = {Oldest(t)} /\ UNCHANGED writer
        /\ store' = store \ InitOfRemoved(t)

Written ==
  /\ WriterAt("write") /\ WriterAt("add")' /\ writer'.item = writer.item
  /\ store' = store \union {writer.item}
  /\ UNCHANGED <<dataVars, culler, emptied>>

DataKept ==
  /\ UNCHANGED <<store, dataVars, culler, emptied>>
  /\ WriterAt("add")' => WriterAt("add") /\ UNCHANGED writer

LEMMA InitType ==
  /\ \A x \in InitSegments : IsInit(x) /\ x # NoItem /\ x.track \in Tracks
                             /\ x.pos \in Nat
  /\ \A t, p : ~IsInit(Media(t, p)) /\ Media(t, p).track = t /\ Media(t, p).pos = p
<1>1. 0 \notin AnyRepresentation /\ \A p \in Positions : p \in Nat
  BY RepresentationsAre, PositionsAre
<1>2. ASSUME NEW x \in InitSegments
      PROVE  IsInit(x) /\ x # NoItem /\ x.track \in Tracks /\ x.pos \in Nat
  <2>1. x.rep # 0 /\ x.track \in Tracks /\ x.pos \in Nat
    BY <1>1 DEF InitSegments
  <2> QED BY <2>1 DEF IsInit, NoItem
<1> QED BY <1>2 DEF IsInit, Media

LEMMA CullTargetStored ==
  ASSUME NEW iter \in Tracks, NEW t \in CullTarget(iter)
  PROVE  t \in Tracks /\ ~IsEmpty(t)
<1>1. \A u : IsEmpty(u) => GetTotalStoreDuration(u) = 0
  BY DEF GetTotalStoreDuration
<1>2. mTsbLength \in Nat
  BY SessionAssumption
<1>3. GetTotalStoreDuration("video") > mTsbLength => ~IsEmpty("video")
  BY <1>1, <1>2
<1>4. t \in {"video", iter} /\ "video" \in Tracks
  BY DEF CullTarget, Tracks
<1>5. CASE GetTotalStoreDuration("video") > mTsbLength
  <2>1. t = "video"
    BY <1>5 DEF CullTarget
  <2> QED BY <1>3, <1>4, <1>5, <2>1
<1>6. CASE ~(GetTotalStoreDuration("video") > mTsbLength)
  <2>1. t = iter /\ GetTotalStoreDuration(iter) # 0
    BY <1>6 DEF CullTarget
  <2> QED BY <1>1, <2>1
<1> QED BY <1>5, <1>6

LEMMA DataSteps ==
  ASSUME SideTypes, [Next]_vars
  PROVE  \/ CullDelete \/ \E t \in Tracks : AddFragment /\ Added(t)
         \/ \E t \in Tracks : Removal(t)
         \/ Written \/ DataKept
<1> USE DEF SideTypes
<1>1. CASE UNCHANGED sideVars
  BY <1>1 DEF sideVars, DataKept, dataVars, WriterAt
<1>2. ASSUME NEW t \in Tracks,
             OnFragmentDownloadSuccess(t) \/ CheckForWaitIfReaderDone(t)
      PROVE  DataKept
  <2>1. CASE At(t, "download") /\ CheckEos(t)
    BY <1>2, <2>1, DownloadWaits DEF DataKept, dataVars, WriterAt
  <2>2. CASE ~(At(t, "download") /\ CheckEos(t))
    BY <1>2, <2>2, DownloadEnqueues
    DEF Enqueued, EnqueuedItem, DataKept, dataVars, WriterAt
  <2> QED BY <2>1, <2>2
<1>3. ASSUME NEW t \in Tracks,
             CacheStagingFragmentForInjection(t) \/ OnFragmentDownloadFailed(t)
      PROVE  DataKept
  BY <1>3, PushGoesOn DEF DataKept, dataVars, WriterAt
<1>4. CASE WriterTest
  BY <1>4 DEF WriterTest, DataKept, dataVars, WriterAt, history
<1>5. CASE WriterWrite
  BY <1>5 DEF WriterWrite, Written, DataKept, dataVars, WriterAt, WriterGoto, history,
              WriterTypes
<1>6. CASE MakeRoom
  <2>1. CASE IsEmpty(writer.item.track)
    BY <1>6, <2>1 DEF MakeRoom, DataKept, dataVars, WriterAt, WriterGoto, WriterTypes
  <2>2. CASE ~IsEmpty(writer.item.track)
    <3>1. PICK t \in Tracks : t = writer.item.track
      BY <1>6, ItemType DEF MakeRoom, WriterTypes, Busy, WriterAt
    <3>2. Removal(t)
      BY <1>6, <2>2, <3>1 DEF MakeRoom, Removal, WriterAt, WriterGoto, WriterTypes
    <3> QED BY <3>2
  <2> QED BY <2>1, <2>2
<1>7. CASE CullRemove
  <2>0. PICK iter \in Tracks : \E t \in CullTarget(iter) :
          /\ RemoveFragment(t) /\ store' = store \ InitOfRemoved(t)
          /\ culler' = {Oldest(t)}
    BY <1>7 DEF CullRemove
  <2>1. PICK t \in CullTarget(iter) :
          /\ RemoveFragment(t) /\ store' = store \ InitOfRemoved(t)
          /\ culler' = {Oldest(t)}
    BY <2>0
  <2>2. Removal(t) /\ t \in Tracks
    BY <1>7, <2>1, CullTargetStored DEF CullRemove, Removal, writeVars
  <2> QED BY <2>2
<1>8. CASE AddFragment
  <2>1. writer.item.track \in Tracks
    BY <1>8, ItemType DEF AddFragment, WriterTypes, Busy, WriterAt
  <2>2. CASE Added(writer.item.track)
    BY <1>8, <2>1, <2>2
  <2>3. CASE UNCHANGED storedVars
    BY <1>8, <2>3 DEF AddFragment, storedVars, DataKept, dataVars, WriterAt
  <2> QED BY <1>8, <2>2, <2>3, AddFragmentEnters
<1> QED
  BY <1>1, <1>2, <1>3, <1>4, <1>5, <1>6, <1>7, <1>8, OtherStep DEF Writer, Culler

LEMMA StoredType ==
  ASSUME DataTypes, NEW t \in Tracks
  PROVE  /\ Stored(t) \subseteq Nodes(t) /\ IsFiniteSet(Stored(t))
         /\ \A x : x.track = t => UsersOf(x) \subseteq Stored(t) /\ IsFiniteSet(UsersOf(x))
<1>1. Len(mTsbFragmentData[t]) \in Nat /\ culled[t] \in Nat
  BY NodeType
<1>2. Stored(t) \subseteq Nodes(t)
  BY <1>1 DEF Stored, Nodes
<1>3. IsFiniteSet(Stored(t))
  <2>1. culled[t] + 1 \in Int /\ Len(mTsbFragmentData[t]) \in Int
    BY <1>1
  <2> QED BY <2>1, FS_Interval DEF Stored
<1>4. \A x : x.track = t => UsersOf(x) \subseteq Stored(t)
  BY DEF UsersOf
<1>5. \A x : x.track = t => IsFiniteSet(UsersOf(x))
  BY <1>3, <1>4, FS_Subset
<1> QED BY <1>2, <1>3, <1>4, <1>5

(* What is left after it.                                                  *)
Removed(t) ==
  /\ First(t) \in Stored(t) /\ First(t) \in Nodes(t) /\ First(t) \in Nat
  /\ \A i \in Stored(t) : i >= First(t)
  /\ Oldest(t) = Media(t, Node(t, First(t)).pos)
  /\ OldInit(t) \in InitSegments /\ OldInit(t).track = t
  /\ InitOfRemoved(t) = IF UsersOf(OldInit(t)) = {First(t)}
                          THEN {OldInit(t)} ELSE {}
  /\ culled'[t] = First(t) /\ \A u \in Tracks \ {t} : culled'[u] = culled[u]
  /\ Stored(t)' = Stored(t) \ {First(t)}
  /\ UsersOf(OldInit(t)) # {}
  /\ \A x : x.track = t => UsersOf(x)' = UsersOf(x) \ {First(t)}
  /\ \A x : x # OldInit(t) /\ x.track \in Tracks => UsersOf(x)' = UsersOf(x)
  /\ \A u \in Tracks \ {t} : Stored(u)' = Stored(u)
  /\ emptied \subseteq emptied' /\ emptied' \subseteq emptied \cup {t}
  /\ Stored(t) = {First(t)} => t \in emptied'
  /\ UNCHANGED <<mTsbFragmentData, mCurrentInitData>>
  /\ UsersInv'
  /\ culled' \in [Tracks -> Nat] /\ users' \in [InitSegments -> Nat]

LEMMA RemovalRemoves ==
  ASSUME DataTypes, UsersInv, NEW t \in Tracks, ~IsEmpty(t), RemoveFragment(t)
  PROVE  Removed(t)
<1> DEFINE c == culled[t] + 1
           q == Node(t, c).init
<1>1. /\ Len(mTsbFragmentData[t]) \in Nat /\ culled[t] \in Nat
      /\ culled[t] <= Len(mTsbFragmentData[t])
  BY NodeType
<1>2. /\ c \in Stored(t) /\ c \in Nodes(t) /\ c \in Nat
      /\ \A i \in Stored(t) : i >= c
  BY <1>1 DEF IsEmpty, Stored, Nodes
<1>3. /\ culled' = [culled EXCEPT ![t] = culled[t] + 1]
      /\ users' = [users EXCEPT ![q] = users[q] - 1]
      /\ emptied' = IF Cardinality(Stored(t)) = 1 THEN emptied \union {t} ELSE emptied
      /\ UNCHANGED <<mTsbFragmentData, mCurrentInitData>>
  BY DEF RemoveFragment
<1>4. culled'[t] = c /\ \A u \in Tracks \ {t} : culled'[u] = culled[u]
  BY <1>3 DEF DataTypes
<1>5. Stored(t)' = Stored(t) \ {c}
  <2>1. Stored(t)' = c + 1 .. Len(mTsbFragmentData[t])
    BY <1>3, <1>4 DEF Stored
  <2>2. Stored(t) = c .. Len(mTsbFragmentData[t])
    BY DEF Stored
  <2> HIDE DEF c
  <2> QED BY <1>1, <1>2, <2>1, <2>2
<1>6. \A u \in Tracks \ {t} : Stored(u)' = Stored(u)
  BY <1>3, <1>4 DEF Stored
<1>7. \A x : x.track = t => UsersOf(x)' = UsersOf(x) \ {c}
  BY <1>3, <1>5 DEF UsersOf, Node
<1>8. \A x : x.track \in Tracks \ {t} => UsersOf(x)' = UsersOf(x)
  BY <1>3, <1>6 DEF UsersOf, Node
<1>10. q \in InitSegments /\ q.track = t
  BY <1>2, NodeType
<1>9. c \in UsersOf(q) /\ \A x : x.track = t /\ x # q => c \notin UsersOf(x)
  BY <1>2, <1>10 DEF UsersOf
<1>11. users[q] = Cardinality(UsersOf(q)) /\ IsFiniteSet(UsersOf(q))
  BY <1>10, StoredType DEF UsersInv
<1>12. Cardinality(UsersOf(q)) \in Nat
  BY <1>11, FS_CardinalityType
<1>13. Cardinality(UsersOf(q)) # 0
  BY <1>9, <1>11, FS_EmptySet
<1>14. InitUnused(q) <=> UsersOf(q) = {c}
  <2>1. CASE UsersOf(q) = {c}
    <3>1. users[q] = 1
      BY <1>11, <2>1, FS_Singleton
    <3> QED BY <2>1, <3>1 DEF InitUnused
  <2>2. CASE InitUnused(q)
    <3>1. Cardinality(UsersOf(q)) = 1
      BY <1>11, <1>12, <1>13, <2>2 DEF InitUnused
    <3>2. PICK x : UsersOf(q) = {x}
      BY <1>11, <3>1, FS_Singleton
    <3> QED BY <1>9, <2>2, <3>2
  <2> QED BY <2>1, <2>2
<1>15. Stored(t) = {c} => t \in emptied'
  <2> SUFFICES ASSUME Stored(t) = {c} PROVE t \in emptied' OBVIOUS
  <2>1. Cardinality(Stored(t)) = 1
    BY FS_Singleton
  <2> QED BY <1>3, <2>1
<1>16. Oldest(t) = Media(t, Node(t, c).pos)
  BY DEF Oldest, FirstPosition
<1>20. \A x : x # q /\ x.track \in Tracks => UsersOf(x)' = UsersOf(x)
  BY <1>7, <1>8, <1>9
<1>17. UsersInv'
  <2>1. ASSUME NEW x \in InitSegments
        PROVE  users'[x] = Cardinality(UsersOf(x)')
    <3>1. users[x] = Cardinality(UsersOf(x))
      BY DEF UsersInv
    <3>2. CASE x = q
      <4>1. users'[q] = users[q] - 1
        BY <1>3, <1>10 DEF DataTypes
      <4>2. Cardinality(UsersOf(q) \ {c}) = Cardinality(UsersOf(q)) - 1
        BY <1>9, <1>11, FS_RemoveElement
      <4> QED BY <1>7, <1>10, <1>11, <3>2, <4>1, <4>2
    <3>3. CASE x # q
      <4>1. users'[x] = users[x]
        BY <1>3, <3>3 DEF DataTypes
      <4>2. UsersOf(x)' = UsersOf(x)
        BY <1>20, <3>3, InitType
      <4> QED BY <3>1, <4>1, <4>2
    <3> QED BY <3>2, <3>3
  <2> QED BY <2>1 DEF UsersInv
<1>18. First(t) = c /\ OldInit(t) = q
  BY DEF First, OldInit
<1>19. InitOfRemoved(t) = IF UsersOf(q) = {c} THEN {q} ELSE {}
  BY <1>14 DEF InitOfRemoved
<1>21. emptied \subseteq emptied' /\ emptied' \subseteq emptied \cup {t}
  BY <1>3
<1>22. UsersOf(q) # {}
  BY <1>9
<1>23. UNCHANGED <<mTsbFragmentData, mCurrentInitData>>
  BY <1>3
<1>25. culled' \in [Tracks -> Nat]
  BY <1>1, <1>3 DEF DataTypes
<1>26. users' \in [InitSegments -> Nat]
  <2>1. users[q] - 1 \in Nat
    BY <1>11, <1>12, <1>13
  <2> HIDE DEF q
  <2> QED BY <1>3, <1>10, <2>1 DEF DataTypes
<1> HIDE DEF c, q
<1>24. /\ \A u \in Tracks \ {t} : culled'[u] = culled[u]
       /\ \A u \in Tracks \ {t} : Stored(u)' = Stored(u)
  BY <1>4, <1>6
<1> QED
  BY <1>2, <1>4, <1>5, <1>7, <1>10, <1>15, <1>16, <1>17, <1>18, <1>19, <1>20, <1>21,
     <1>22, <1>23, <1>24, <1>25, <1>26, Zenon
  DEF Removed

(* What is added is counted.                                               *)
AddedNode(t, n) ==
  /\ n = Len(mTsbFragmentData[t]) + 1 /\ n \notin Nodes(t)
  /\ Nodes(t)' = Nodes(t) \cup {n} /\ Stored(t)' = Stored(t) \cup {n}
  /\ \A i \in Nodes(t) : i < n /\ Node(t, i)' = Node(t, i)
  /\ Node(t, n)' = [pos |-> writer.item.pos, init |-> mCurrentInitData[t]]
  /\ mCurrentInitData[t] \in InitSegments /\ mCurrentInitData[t].track = t
  /\ \A x : x.track = t => UsersOf(x)' =
       UsersOf(x) \cup (IF x = mCurrentInitData[t] THEN {n} ELSE {})

SameNodes(u) ==
  /\ Nodes(u)' = Nodes(u) /\ Stored(u)' = Stored(u)
  /\ \A i : Node(u, i)' = Node(u, i)
  /\ \A x : x.track = u => UsersOf(x)' = UsersOf(x)

LEMMA AddedStored ==
  ASSUME SideTypes, NEW t, Added(t)
  PROVE  /\ AddedMedia(t) => \E n \in Nat \ {0} : AddedNode(t, n)
         /\ \A u \in Tracks : u # t \/ AddedInit(t) => SameNodes(u)
<1> USE DEF SideTypes
<1>1. ASSUME AddedMedia(t)
      PROVE  \E n \in Nat \ {0} : AddedNode(t, n)
  <2>1. /\ Len(mTsbFragmentData[t]) \in Nat /\ culled[t] \in Nat /\ t \in Tracks
        /\ culled[t] <= Len(mTsbFragmentData[t])
    BY NodeType DEF Added
  <2>2. PICK n \in Nat \ {0} : n = Len(mTsbFragmentData[t]) + 1
    BY <2>1
  <2>3. /\ Nodes(t) = 1 .. n - 1 /\ Nodes(t)' = 1 .. n
        /\ Stored(t) = culled[t] + 1 .. n - 1
        /\ Stored(t)' = culled[t] + 1 .. n
    BY <1>1, <2>1, <2>2 DEF Nodes, Stored, AddedMedia, Added
  <2>4. /\ Nodes(t)' = Nodes(t) \cup {n} /\ n \notin Nodes(t)
        /\ Stored(t)' = Stored(t) \cup {n} /\ n \notin Stored(t)
        /\ \A i \in Nodes(t) : i < n
    BY <2>1, <2>2, <2>3
  <2>5. \A i \in Nodes(t) : Node(t, i)' = Node(t, i)
    BY <1>1, <2>2, <2>3 DEF AddedMedia
  <2>6. Node(t, n)' = [pos |-> writer.item.pos, init |-> mCurrentInitData[t]]
    BY <1>1, <2>2 DEF AddedMedia, Node
  <2>7. mCurrentInitData[t] \in InitSegments /\ mCurrentInitData[t].track = t
    BY <1>1, <2>1 DEF AddedMedia, DataTypes
  <2>8. Stored(t) \subseteq Nodes(t)
    BY StoredType, <2>1
  <2> DEFINE c == mCurrentInitData[t]
  <2>9. Node(t, n)'.init = c
    BY <2>6
  <2>10. ASSUME NEW x, x.track = t
         PROVE  UsersOf(x)' = UsersOf(x) \cup (IF x = c THEN {n} ELSE {})
    <3>1. UsersOf(x)' = {i \in Stored(t)' : Node(t, i)'.init = x}
      BY <2>10 DEF UsersOf
    <3>2. UsersOf(x) = {i \in Stored(t) : Node(t, i).init = x}
      BY <2>10 DEF UsersOf
    <3> HIDE DEF c
    <3> QED BY <2>4, <2>5, <2>8, <2>9, <3>1, <3>2
  <2> HIDE DEF c
  <2> QED BY <2>2, <2>4, <2>5, <2>6, <2>7, <2>10 DEF c, AddedNode
<1>2. ASSUME NEW u \in Tracks, u # t \/ AddedInit(t)
      PROVE  SameNodes(u)
  <2>1. mTsbFragmentData'[u] = mTsbFragmentData[u] /\ culled'[u] = culled[u]
    BY <1>2 DEF Added, AddedInit
  <2> QED BY <2>1 DEF SameNodes, Nodes, Stored, Node, UsersOf
<1> QED BY <1>1, <1>2

LEMMA UsersAdded ==
  ASSUME SideTypes, UsersInv, NEW t, Added(t)
  PROVE  UsersInv' /\ users' \in [InitSegments -> Nat]
<1> USE DEF SideTypes
<1>1. t \in Tracks
  BY DEF Added
<1>2. CASE AddedInit(t)
  <2>1. users' = users /\ \A u \in Tracks : SameNodes(u)
    BY <1>2, AddedStored DEF AddedInit
  <2> QED BY <2>1, InitType DEF UsersInv, SameNodes, DataTypes
<1>3. CASE AddedMedia(t)
  <2>1. PICK n \in Nat \ {0} : AddedNode(t, n)
    BY <1>3, AddedStored
  <2>2. PICK c \in InitSegments : c = mCurrentInitData[t] /\ c.track = t
    BY <2>1 DEF AddedNode
  <2>3. users' = [users EXCEPT ![c] = @ + 1] /\ users \in [InitSegments -> Nat]
    BY <1>3, <2>2 DEF AddedMedia, UsersAfterAdd, DataTypes
  <2>4. users' \in [InitSegments -> Nat]
    BY <1>1, <2>2, <2>3
  <2>5. ASSUME NEW x \in InitSegments
        PROVE  users'[x] = Cardinality(UsersOf(x)')
    <3>1. users[x] = Cardinality(UsersOf(x)) /\ x.track \in Tracks
      BY InitType DEF UsersInv
    <3>2. CASE x = c
      <4>1. users'[x] = users[x] + 1
        BY <2>3, <3>2
      <4>2. UsersOf(x)' = UsersOf(x) \cup {n}
        BY <2>1, <2>2, <3>2 DEF AddedNode
      <4>3. IsFiniteSet(UsersOf(x)) /\ n \notin UsersOf(x)
        BY <1>1, <2>1, <2>2, <3>2, StoredType DEF AddedNode
      <4> QED BY <3>1, <4>1, <4>2, <4>3, FS_AddElement
    <3>3. CASE x.track = t /\ x # c
      <4>0. UsersOf(x)' = UsersOf(x) \cup (IF x = mCurrentInitData[t] THEN {n} ELSE {})
        BY <2>1, <3>3, Zenon DEF AddedNode
      <4>1. UsersOf(x)' = UsersOf(x)
        BY <2>2, <3>3, <4>0
      <4>2. users'[x] = users[x]
        BY <2>3, <3>3
      <4> QED BY <3>1, <3>3, <4>1, <4>2
    <3>4. CASE x.track # t
      <4>1. UsersOf(x)' = UsersOf(x)
        BY <3>1, <3>4, AddedStored DEF SameNodes
      <4> QED BY <2>2, <2>3, <3>1, <3>4, <4>1
    <3> QED BY <3>2, <3>3, <3>4
  <2> QED BY <2>4, <2>5 DEF UsersInv
<1> QED BY <1>2, <1>3 DEF Added

LEMMA UsersInvStep ==
  ASSUME SideTypes, DataInv, [Next]_vars
  PROVE  UsersInv'
<1> USE DEF SideTypes, DataInv
<1>1. CASE UNCHANGED <<mTsbFragmentData, culled, users>>
  BY <1>1 DEF UsersInv, UsersOf, Stored, Node
<1>2. ASSUME NEW t \in Tracks, Added(t) PROVE UsersInv'
  BY <1>2, UsersAdded
<1>3. ASSUME NEW t \in Tracks, Removal(t) PROVE UsersInv'
  BY <1>3, RemovalRemoves DEF Removal, Removed
<1> QED
  BY <1>1, <1>2, <1>3, DataSteps DEF CullDelete, Written, DataKept, dataVars

LEMMA DataTypesStep ==
  ASSUME SideTypes, DataInv, [Next]_vars
  PROVE  DataTypes'
<1> USE DEF SideTypes, DataInv
<1>1. ASSUME NEW t \in Tracks, AddFragment, Added(t) PROVE DataTypes'
  <2>2. users' \in [InitSegments -> Nat]
    BY <1>1, UsersAdded
  <2>3. UNCHANGED <<store, culled, culler, emptied>>
    BY <1>1 DEF Added
  <2>4. CASE AddedInit(t)
    <3>1. writer.item \in InitSegments /\ writer.item.track = t
      BY <1>1, <2>4, ItemType DEF Added, AddedInit
    <3>2. mCurrentInitData' = [mCurrentInitData EXCEPT ![t] = writer.item]
      BY <1>1, <2>4, <3>1 DEF AddFragment, AddedInit
    <3>3. /\ mCurrentInitData' \in [Tracks -> InitSegments \cup {NoItem}]
          /\ \A u \in Tracks : mCurrentInitData'[u] # NoItem =>
                                 mCurrentInitData'[u].track = u
      BY <3>1, <3>2 DEF DataTypes
    <3>4. \A u \in Tracks : \A i \in Nodes(u)' : Node(u, i)'.init.track = u
      BY <2>4 DEF AddedInit, DataTypes, Nodes, Node
    <3> QED BY <2>2, <2>3, <2>4, <3>3, <3>4 DEF AddedInit, DataTypes
  <2>5. CASE AddedMedia(t)
    <3>1. \A u \in Tracks : culled[u] <= Len(mTsbFragmentData'[u])
      <4>1. \A u \in Tracks : culled[u] \in Nat /\ Len(mTsbFragmentData[u]) \in Nat
                              /\ culled[u] <= Len(mTsbFragmentData[u])
        BY NodeType
      <4>2. Len(mTsbFragmentData'[t]) = Len(mTsbFragmentData[t]) + 1
        BY <2>5 DEF AddedMedia
      <4>3. \A u \in Tracks \ {t} : mTsbFragmentData'[u] = mTsbFragmentData[u]
        BY <1>1 DEF Added
      <4> QED BY <4>1, <4>2, <4>3
    <3>2. ASSUME NEW u \in Tracks, NEW i \in Nodes(u)' PROVE Node(u, i)'.init.track = u
      <4>1. CASE u # t
        <5>1. SameNodes(u)
          BY <1>1, <4>1, AddedStored
        <5> QED BY <5>1, NodeType DEF SameNodes
      <4>2. CASE u = t
        <5>1. PICK n \in Nat \ {0} : AddedNode(t, n)
          BY <1>1, <2>5, AddedStored
        <5>2. Node(t, n)'.init = mCurrentInitData[t]
          BY <5>1 DEF AddedNode
        <5> QED BY <4>2, <5>1, <5>2, NodeType DEF AddedNode
      <4> QED BY <4>1, <4>2
    <3>3. UNCHANGED mCurrentInitData
      BY <2>5 DEF AddedMedia
    <3> QED BY <2>2, <2>3, <2>5, <3>1, <3>2, <3>3 DEF AddedMedia, DataTypes
  <2> QED BY <1>1, <2>4, <2>5 DEF Added
<1>2. ASSUME NEW t \in Tracks, Removal(t) PROVE DataTypes'
  <2>1. Removed(t)
    BY <1>2, RemovalRemoves DEF Removal
  <2>2. Oldest(t) \in Items
    BY <2>1 DEF Removed, KeptInv, DataTypes
  <2>3. store' \subseteq Items /\ culler' \subseteq Items
    BY <1>2, <2>2 DEF Removal, DataTypes
  <2>4. \A u \in Tracks : culled'[u] <= Len(mTsbFragmentData[u])
    <3>1. First(t) <= Len(mTsbFragmentData[t])
      BY <2>1, NodeType DEF Removed, Nodes
    <3> QED BY <2>1, <3>1 DEF Removed, DataTypes
  <2> QED BY <2>1, <2>3, <2>4 DEF Removed, DataTypes, Nodes, Node
<1>3. CASE CullDelete
  BY <1>3 DEF CullDelete, DataTypes, dataVars, history, Nodes, Node
<1>4. CASE Written
  <2>1. writer.item \in Items
    BY <1>4 DEF Written, WriterAt, WriterTypes, Busy
  <2> QED BY <1>4, <2>1 DEF Written, DataTypes, dataVars, Nodes, Node
<1>5. CASE DataKept
  BY <1>5 DEF DataKept, DataTypes, dataVars, Nodes, Node
<1> QED BY <1>1, <1>2, <1>3, <1>4, <1>5, DataSteps

LEMMA NodeInvStep ==
  ASSUME SideTypes, DataInv, [Next]_vars
  PROVE  NodeInv'
<1> USE DEF SideTypes, DataInv
<1>1. CASE UNCHANGED <<mTsbFragmentData, mCurrentInitData>>
  BY <1>1 DEF NodeInv, Nodes, Node
<1>2. ASSUME NEW t \in Tracks, Added(t) PROVE NodeInv'
  <2>2. PICK x \in Items : x = writer.item
    BY <1>2 DEF Added
  <2>3. /\ x.track = t /\ x.pos \in Nat
        /\ \A i \in Nodes(t) : /\ Node(t, i).pos \in Nat /\ Node(t, i).init.pos \in Nat
                               /\ Node(t, i).pos < x.pos
        /\ mCurrentInitData[t].pos \in Nat /\ mCurrentInitData[t].pos <= x.pos
    BY <1>2, <2>2, ItemType, NodeType DEF Added, OrderInv, Fits, Above
  <2>4. ASSUME NEW u \in Tracks \ {t}
        PROVE  SameNodes(u) /\ mCurrentInitData'[u] = mCurrentInitData[u]
    BY <1>2, AddedStored DEF Added
  <2>5. CASE AddedInit(t)
    <3>1. SameNodes(t)
      BY <1>2, <2>5, AddedStored
    <3>2. mCurrentInitData'[t] = x
      BY <2>2, <2>5 DEF AddedInit
    <3>3. \A i \in Nodes(t) : Node(t, i).pos < x.pos /\ ~(x.pos <= Node(t, i).pos)
      BY <2>3
    <3> QED BY <2>4, <3>1, <3>2, <3>3 DEF NodeInv, SameNodes
  <2>6. CASE AddedMedia(t)
    <3>1. PICK n \in Nat \ {0} : AddedNode(t, n)
      BY <1>2, <2>6, AddedStored
    <3>2. mCurrentInitData' = mCurrentInitData
      BY <2>6 DEF AddedMedia
    <3>3. /\ Nodes(t)' = Nodes(t) \cup {n}
          /\ \A i \in Nodes(t) : i < n /\ Node(t, i)' = Node(t, i)
          /\ Node(t, n)'.pos = x.pos /\ Node(t, n)'.init = mCurrentInitData[t]
      BY <2>2, <3>1 DEF AddedNode
    <3>5. \A i, j \in Nodes(t) \cup {n} : i < j => Node(t, i)'.pos < Node(t, j)'.pos
      <4> SUFFICES ASSUME NEW i \in Nodes(t) \cup {n}, NEW j \in Nodes(t) \cup {n}, i < j
                   PROVE  Node(t, i)'.pos < Node(t, j)'.pos
        OBVIOUS
      <4>1. i \in Nodes(t)
        BY <3>3 DEF Nodes
      <4>2. CASE j = n
        BY <2>3, <3>3, <4>1, <4>2
      <4>3. CASE j # n
        BY <3>3, <4>1, <4>3 DEF NodeInv
      <4> QED BY <4>2, <4>3
    <3>6. \A i \in Nodes(t) \cup {n} :
            /\ Node(t, i)'.init.pos <= Node(t, i)'.pos
            /\ mCurrentInitData[t].pos <= Node(t, i)'.pos =>
                 Node(t, i)'.init = mCurrentInitData[t]
      BY <2>3, <3>3 DEF NodeInv
    <3> QED BY <2>4, <3>2, <3>3, <3>5, <3>6 DEF NodeInv, SameNodes
  <2> QED BY <1>2, <2>5, <2>6 DEF Added
<1>3. ASSUME NEW t \in Tracks, Removal(t) PROVE NodeInv'
  BY <1>1, <1>3, RemovalRemoves DEF Removal, Removed
<1> QED
  BY <1>1, <1>2, <1>3, DataSteps DEF CullDelete, Written, DataKept, dataVars

(* What is about to be entered is in the store, and stays there.           *)
LEMMA WrittenKept ==
  ASSUME SideTypes, DataInv, Busy, NEW f, f = writer.item
  PROVE  /\ f \notin culler
         /\ \A t \in Tracks : \A i \in Nodes(t) : /\ f # Node(t, i).init
                                                  /\ f # Media(t, Node(t, i).pos)
<1> USE DEF SideTypes, DataInv
<1>1. f \in Items /\ f.track \in Tracks /\ Above(f.track, f.pos) /\ f.pos \in Nat
  BY ItemType DEF Busy, WriterAt, WriterTypes, OrderInv, Fits
<1>2. ASSUME f \in culler PROVE FALSE
  <2>1. \E i \in 1 .. culled[f.track] : Node(f.track, i).pos = f.pos
    BY <1>2 DEF GoneInv
  <2>2. PICK i \in Nodes(f.track) : Node(f.track, i).pos = f.pos
    BY <1>1, <2>1, NodeType DEF Nodes
  <2> QED BY <1>1, <2>2 DEF Above
<1>3. ASSUME NEW t \in Tracks, NEW i \in Nodes(t),
             f = Node(t, i).init \/ f = Media(t, Node(t, i).pos)
      PROVE  FALSE
  <2>1. /\ Node(t, i).init.track = t /\ Node(t, i).init.pos <= Node(t, i).pos
        /\ Node(t, i).init.pos \in Nat /\ Node(t, i).pos \in Nat
    BY NodeType DEF NodeInv
  <2>2. f.track = t /\ f.pos <= Node(t, i).pos
    BY <1>3, <2>1, InitType
  <2>3. Node(t, i).pos < f.pos
    BY <1>1, <2>2 DEF Above
  <2> QED BY <1>1, <2>1, <2>2, <2>3
<1> QED BY <1>2, <1>3

(* Fragments of a track are at different positions.                        *)
LEMMA NodesDiffer ==
  ASSUME DataTypes, NodeInv, NEW t \in Tracks, NEW i \in Nodes(t), NEW j \in Nodes(t),
         Node(t, i).pos = Node(t, j).pos
  PROVE  i = j
<1>1. i \in Int /\ j \in Int /\ Node(t, i).pos \in Nat
  BY NodeType DEF Nodes
<1> QED BY <1>1 DEF NodeInv

KeptTrack(t) ==
  /\ \A i \in Stored(t) : Media(t, Node(t, i).pos) \in store
  /\ t \notin emptied =>
       /\ \A i \in Stored(t) : Node(t, i).init \in store
       /\ mCurrentInitData[t] # NoItem => mCurrentInitData[t] \in store
       /\ Stored(t) = {} => Nodes(t) = {}

LEMMA KeptIs ==
  KeptInv <=> /\ WriterAt("add") => writer.item \in store
              /\ \A t \in Tracks : KeptTrack(t)
  BY DEF KeptInv, KeptTrack

LEMMA KeptAdded ==
  ASSUME SideTypes, DataInv, NEW t \in Tracks, Added(t)
  PROVE  KeptInv'
<1> USE DEF SideTypes, DataInv
<1>2. PICK x \in Items : x = writer.item
  BY DEF Added
<1>3. x \in store /\ x.track = t /\ UNCHANGED <<store, emptied>> /\ ~WriterAt("add")'
  BY <1>2 DEF Added, KeptInv, WriterAt
<1>4. \A u \in Tracks : KeptTrack(u)
  BY KeptIs
<1>6. ASSUME NEW u \in Tracks \ {t} PROVE KeptTrack(u)'
  <2>1. SameNodes(u) /\ mCurrentInitData'[u] = mCurrentInitData[u]
    BY AddedStored DEF Added
  <2>2. UNCHANGED <<store, emptied>> /\ KeptTrack(u)
    BY <1>3, <1>4
  <2> QED BY <2>1, <2>2 DEF KeptTrack, SameNodes
<1>7. CASE AddedInit(t)
  <2>1. SameNodes(t)
    BY <1>7, AddedStored
  <2>2. mCurrentInitData'[t] = x
    BY <1>2, <1>7 DEF AddedInit
  <2>4. KeptTrack(t)'
    BY <1>3, <1>4, <2>1, <2>2 DEF KeptTrack, SameNodes
  <2> QED BY <1>3, <1>6, <2>4, KeptIs DEF KeptInv, KeptTrack
<1>8. CASE AddedMedia(t)
  <2>1. PICK n \in Nat \ {0} : AddedNode(t, n)
    BY <1>8, AddedStored
  <2>2. PICK c \in InitSegments : c = mCurrentInitData[t] /\ c = mCurrentInitData'[t]
    BY <1>8, <2>1 DEF AddedNode, AddedMedia
  <2>3. /\ Nodes(t)' = Nodes(t) \cup {n} /\ Stored(t)' = Stored(t) \cup {n}
        /\ \A i \in Stored(t) : Node(t, i)' = Node(t, i)
        /\ Node(t, n)'.pos = x.pos /\ Node(t, n)'.init = c
    BY <1>2, <2>1, <2>2, StoredType DEF AddedNode
  <2>4. x = Media(t, x.pos)
    BY <1>2, <1>3, <1>8, ItemType DEF AddedMedia
  <2>5. c # NoItem
    BY InitType
  <2>6. KeptTrack(t)'
    <3>1. \A i \in Stored(t)' : Media(t, Node(t, i)'.pos) \in store'
      BY <1>3, <1>4, <2>3, <2>4 DEF KeptTrack
    <3>2. t \notin emptied => \A i \in Stored(t)' : Node(t, i)'.init \in store'
      BY <1>3, <1>4, <2>2, <2>3, <2>5 DEF KeptTrack
    <3>3. t \notin emptied => c \in store'
      BY <1>3, <1>4, <2>2, <2>5 DEF KeptTrack
    <3> QED BY <1>3, <2>2, <2>3, <3>1, <3>2, <3>3 DEF KeptTrack, Media
  <2> QED BY <1>3, <1>6, <2>6, KeptIs DEF KeptInv, KeptTrack
<1> QED BY <1>7, <1>8 DEF Added

LEMMA KeptRemoved ==
  ASSUME SideTypes, DataInv, NEW t \in Tracks, Removal(t)
  PROVE  KeptInv'
<1> USE DEF SideTypes, DataInv
<1>1. Removed(t)
  BY RemovalRemoves DEF Removal
<1>2. PICK c \in Nodes(t) : c = First(t)
  BY <1>1 DEF Removed
<1>3. PICK q \in InitSegments : q = OldInit(t) /\ q = Node(t, c).init /\ q.track = t
  BY <1>2, NodeType DEF OldInit
<1>4. /\ Oldest(t) = Media(t, Node(t, c).pos)
      /\ InitOfRemoved(t) = IF UsersOf(q) = {c} THEN {q} ELSE {}
      /\ Stored(t)' = Stored(t) \ {c} /\ \A u \in Tracks \ {t} : Stored(u)' = Stored(u)
      /\ c \in Stored(t) /\ \A i \in Stored(t) : i >= c
      /\ emptied \subseteq emptied' /\ (Stored(t) = {c} => t \in emptied')
      /\ UNCHANGED <<mTsbFragmentData, mCurrentInitData>>
  BY <1>1, <1>2, <1>3 DEF Removed
<1>5. \A f \in store : f \in store' \/ f = Oldest(t) \/ f \in InitOfRemoved(t)
  BY DEF Removal
<1>6. WriterAt("add")' => writer'.item \in store'
  <2> SUFFICES ASSUME WriterAt("add")' PROVE writer'.item \in store' OBVIOUS
  <2>1. UNCHANGED writer /\ WriterAt("add") /\ store' = store \ InitOfRemoved(t)
    BY DEF Removal, WriterAt
  <2>2. writer.item \in store /\ writer.item # Node(t, c).init
    BY <2>1, WrittenKept DEF Busy, WriterAt, KeptInv
  <2> QED BY <1>3, <1>4, <2>1, <2>2
<1>7. ASSUME NEW u \in Tracks, NEW i \in Stored(u), ~(u = t /\ i = c)
      PROVE  Media(u, Node(u, i).pos) \in store'
  <2>1. Media(u, Node(u, i).pos) \in store
    BY DEF KeptInv
  <2>2. Media(u, Node(u, i).pos) # Oldest(t)
    <3>1. CASE u # t
      BY <1>4, <3>1 DEF Media
    <3>2. CASE u = t
      BY <1>4, <1>7, <3>2, NodesDiffer, StoredType DEF Media
    <3> QED BY <3>1, <3>2
  <2>3. Media(u, Node(u, i).pos) \notin InitOfRemoved(t)
    BY <1>3, <1>4, InitType
  <2> QED BY <1>5, <2>1, <2>2, <2>3
<1>8. ASSUME NEW x \in InitSegments, x \in store, x = q => UsersOf(q) # {c}
      PROVE  x \in store'
  <2>1. x # Oldest(t)
    BY <1>4, InitType
  <2>2. x \notin InitOfRemoved(t)
    BY <1>4, <1>8
  <2> QED BY <1>5, <1>8, <2>1, <2>2
<1>9. ASSUME NEW u \in Tracks PROVE KeptTrack(u)'
  <2>1. KeptTrack(u)
    BY KeptIs
  <2>2. \A i : Node(u, i)' = Node(u, i)
    BY <1>4 DEF Node
  <2>3. /\ Nodes(u)' = Nodes(u) /\ mCurrentInitData'[u] = mCurrentInitData[u]
        /\ mCurrentInitData[u] # NoItem =>
             mCurrentInitData[u] \in InitSegments /\ mCurrentInitData[u].track = u
        /\ \A i \in Stored(u) : /\ Node(u, i).init \in InitSegments
                                /\ Node(u, i).init.track = u
    <3>1. Nodes(u)' = Nodes(u) /\ mCurrentInitData'[u] = mCurrentInitData[u]
      BY <1>4 DEF Nodes
    <3>2. Stored(u) \subseteq Nodes(u)
      BY StoredType
    <3>3. \A i \in Stored(u) : /\ Node(u, i).init \in InitSegments
                               /\ Node(u, i).init.track = u
      BY <3>2, NodeType
    <3> QED BY <3>1, <3>3 DEF DataTypes
  <2>4. CASE u # t
    <3>1. Stored(u)' = Stored(u)
      BY <1>4, <2>4
    <3>2. \A i \in Stored(u) : Media(u, Node(u, i).pos) \in store'
      BY <1>7, <2>4
    <3>3. \A x \in InitSegments : x.track = u /\ x \in store => x \in store'
      BY <1>3, <1>8, <2>4
    <3> QED
      BY <1>4, <2>1, <2>2, <2>3, <3>1, <3>2, <3>3 DEF KeptTrack, Media
  <2>5. CASE u = t
    <3>1. \A i \in Stored(t) \ {c} : Media(t, Node(t, i).pos) \in store'
      BY <1>7
    <3>2. ASSUME t \notin emptied'
          PROVE  /\ t \notin emptied
                 /\ \A i \in Stored(t) \ {c} : Node(t, i).init \in store'
                 /\ mCurrentInitData[t] # NoItem => mCurrentInitData[t] \in store'
                 /\ Stored(t) \ {c} # {}
      <4>1. t \notin emptied /\ Stored(t) \ {c} # {}
        BY <1>4, <3>2
      <4>2. ASSUME NEW i \in Stored(t) \ {c}
            PROVE  Node(t, i).init \in store'
        <5>1. Node(t, i).init \in store
          BY <2>1, <2>5, <4>1 DEF KeptTrack
        <5>2. Node(t, i).init = q => i \in UsersOf(q)
          BY <1>3 DEF UsersOf
        <5> QED BY <1>8, <2>3, <2>5, <5>1, <5>2
      <4>3. ASSUME mCurrentInitData[t] # NoItem
            PROVE  mCurrentInitData[t] \in store'
        <5>1. mCurrentInitData[t] \in store
          BY <2>1, <2>5, <4>1, <4>3 DEF KeptTrack
        <5>2. PICK i \in Stored(t) : i # c
          BY <4>1
        <5>3. i \in Nodes(t) /\ c < i
          BY <1>4, <5>2, StoredType DEF Nodes
        <5>4. /\ q.pos <= Node(t, c).pos /\ Node(t, c).pos < Node(t, i).pos
              /\ q.pos \in Nat /\ Node(t, c).pos \in Nat /\ Node(t, i).pos \in Nat
          BY <1>3, <5>3, NodeType, InitType DEF NodeInv
        <5>5. mCurrentInitData[t] = q => i \in UsersOf(q)
          BY <1>3, <5>3, <5>4 DEF UsersOf, NodeInv
        <5> QED BY <1>8, <2>3, <2>5, <4>3, <5>1, <5>2, <5>5
      <4> QED BY <4>1, <4>2, <4>3
    <3> QED
      BY <1>4, <2>2, <2>3, <2>5, <3>1, <3>2 DEF KeptTrack, Media
  <2> QED BY <2>4, <2>5
<1> QED BY <1>6, <1>9, KeptIs DEF KeptInv, KeptTrack

LEMMA KeptInvStep ==
  ASSUME SideTypes, DataInv, [Next]_vars
  PROVE  KeptInv'
<1> USE DEF SideTypes, DataInv
<1>1. CASE CullDelete
  <2>1. /\ store' = store \ culler
        /\ UNCHANGED <<writer, mTsbFragmentData, culled, mCurrentInitData, emptied>>
    BY <1>1 DEF CullDelete, dataVars, writeVars, history
  <2>2. ASSUME NEW u \in Tracks, NEW i \in Stored(u) PROVE Media(u, Node(u, i).pos) \in store'
    <3>1. Media(u, Node(u, i).pos) \in store
      BY DEF KeptInv
    <3>2. ASSUME Media(u, Node(u, i).pos) \in culler PROVE FALSE
      <4>1. PICK j \in 1 .. culled[u] : Node(u, j).pos = Node(u, i).pos
        BY <3>2 DEF GoneInv, Media
      <4>2. j \in Nodes(u) /\ i \in Nodes(u) /\ i # j
        BY NodeType, StoredType DEF Nodes, Stored
      <4> QED BY <4>1, <4>2, NodesDiffer
    <3> QED BY <2>1, <3>1, <3>2
  <2>3. \A x \in InitSegments : x \in store => x \in store'
    <3>1. \A f \in culler : ~IsInit(f)
      BY DEF GoneInv
    <3> QED BY <2>1, <3>1, InitType
  <2>4. WriterAt("add")' => writer'.item \in store'
    BY <2>1, WrittenKept DEF WriterAt, Busy, KeptInv
  <2>5. ASSUME NEW u \in Tracks PROVE KeptTrack(u)'
    <3>1. /\ Stored(u)' = Stored(u) /\ Nodes(u)' = Nodes(u) /\ emptied' = emptied
          /\ mCurrentInitData'[u] = mCurrentInitData[u]
          /\ \A i : Node(u, i)' = Node(u, i)
      BY <2>1 DEF Stored, Nodes, Node
    <3>2. KeptTrack(u)
      BY KeptIs
    <3>3. \A i \in Stored(u) : Node(u, i).init \in InitSegments
      BY NodeType, StoredType
    <3>4. mCurrentInitData[u] # NoItem => mCurrentInitData[u] \in InitSegments
      BY DEF DataTypes
    <3> QED BY <2>2, <2>3, <3>1, <3>2, <3>3, <3>4 DEF KeptTrack, Media
  <2> QED BY <2>4, <2>5, KeptIs DEF KeptInv, KeptTrack
<1>2. CASE Written
  BY <1>2 DEF Written, KeptInv, dataVars, WriterAt, Stored, Nodes, Node, Media
<1>3. CASE DataKept
  BY <1>3 DEF DataKept, KeptInv, dataVars, WriterAt, Stored, Nodes, Node, Media
<1> QED BY <1>1, <1>2, <1>3, KeptAdded, KeptRemoved, DataSteps

(* Nothing a fragment that is gone has used is left behind.                *)
Deleted(f) ==
  ~IsInit(f) /\ \E i \in 1 .. culled[f.track] : Node(f.track, i).pos = f.pos

GoneNode(t, i) ==
  /\ Media(t, Node(t, i).pos) \in store => Media(t, Node(t, i).pos) \in culler
  /\ Node(t, i).init \in store => UsersOf(Node(t, i).init) # {}

LEMMA GoneIs ==
  GoneInv <=> /\ \A f \in culler : Deleted(f)
              /\ \A t \in Tracks : \A i \in 1 .. culled[t] : GoneNode(t, i)
  BY DEF GoneInv, GoneNode, Deleted

(* A fragment that is gone already.                                        *)
LEMMA CulledNode ==
  ASSUME DataTypes, NEW t \in Tracks, NEW i \in 1 .. culled[t]
  PROVE  /\ i \in Nodes(t) /\ Node(t, i).init \in InitSegments
         /\ Node(t, i).init.track = t
<1>1. i \in Nodes(t)
  BY NodeType DEF Nodes
<1> QED BY <1>1, NodeType

(* What is gone stays gone when nothing is written and no user lost.       *)
LEMMA GoneStays ==
  ASSUME SideTypes, DataInv, UNCHANGED culled,
         \A t \in Tracks : \A i \in 1 .. culled[t] :
           /\ Node(t, i)' = Node(t, i)
           /\ UsersOf(Node(t, i).init) \subseteq UsersOf(Node(t, i).init)'
           /\ Node(t, i).init \in store' => Node(t, i).init \in store
           /\ Media(t, Node(t, i).pos) \in store' =>
                /\ Media(t, Node(t, i).pos) \in store
                /\ Media(t, Node(t, i).pos) \in culler => culler' = culler,
         culler' \subseteq culler
  PROVE  GoneInv'
<1> USE DEF SideTypes, DataInv
<1>1. ASSUME NEW f \in culler' PROVE Deleted(f)'
  <2>1. Deleted(f) /\ f.track \in Tracks
    BY GoneIs, ItemType DEF DataTypes
  <2> QED BY <2>1 DEF Deleted
<1>2. ASSUME NEW t \in Tracks, NEW i \in 1 .. culled[t] PROVE GoneNode(t, i)'
  <2>1. GoneNode(t, i) /\ Node(t, i)' = Node(t, i)
    BY GoneIs
  <2>2. PICK x, p : x = Node(t, i).init /\ p = Node(t, i).pos
    OBVIOUS
  <2>3. x \in store' => UsersOf(x)' # {}
    BY <2>1, <2>2 DEF GoneNode
  <2>4. Media(t, p) \in store' => Media(t, p) \in culler'
    BY <2>1, <2>2 DEF GoneNode
  <2> QED BY <2>1, <2>2, <2>3, <2>4 DEF GoneNode, Media
<1> QED BY <1>1, <1>2, GoneIs DEF GoneInv, GoneNode, Deleted

LEMMA GoneAdded ==
  ASSUME SideTypes, DataInv, NEW t \in Tracks, Added(t)
  PROVE  GoneInv'
<1> USE DEF SideTypes, DataInv
<1>1. UNCHANGED <<store, culled, culler>>
  BY DEF Added
<1>2. ASSUME NEW u \in Tracks, NEW i \in 1 .. culled[u]
      PROVE  /\ Node(u, i)' = Node(u, i)
             /\ UsersOf(Node(u, i).init) \subseteq UsersOf(Node(u, i).init)'
  <2>1. i \in Nodes(u)
    BY CulledNode
  <2>2. PICK x \in InitSegments : x = Node(u, i).init /\ x.track = u
    BY CulledNode
  <2>3. CASE u # t \/ AddedInit(t)
    <3>1. SameNodes(u)
      BY <2>3, AddedStored
    <3>2. Node(u, i)' = Node(u, i) /\ UsersOf(x)' = UsersOf(x)
      BY <2>2, <3>1 DEF SameNodes
    <3> QED BY <2>2, <3>2
  <2>4. CASE u = t /\ AddedMedia(t)
    <3>1. PICK n \in Nat \ {0} : AddedNode(t, n)
      BY <2>4, AddedStored
    <3>2. Node(u, i)' = Node(u, i) /\ UsersOf(x) \subseteq UsersOf(x)'
      BY <2>1, <2>2, <2>4, <3>1 DEF AddedNode
    <3> QED BY <2>2, <3>2
  <2> QED BY <2>3, <2>4 DEF Added
<1> QED BY <1>1, <1>2, GoneStays

LEMMA GoneRemoved ==
  ASSUME SideTypes, DataInv, NEW t \in Tracks, Removal(t)
  PROVE  GoneInv'
<1> USE DEF SideTypes, DataInv
<1>1. Removed(t)
  BY RemovalRemoves DEF Removal
<1>2. PICK c \in Nodes(t) : c = First(t)
  BY <1>1 DEF Removed
<1>3. PICK q \in InitSegments : q = OldInit(t) /\ q = Node(t, c).init /\ q.track = t
  BY <1>2, NodeType DEF OldInit
<1>4. /\ Oldest(t) = Media(t, Node(t, c).pos)
      /\ InitOfRemoved(t) = IF UsersOf(q) = {c} THEN {q} ELSE {}
      /\ UsersOf(q)' = UsersOf(q) \ {c} /\ UsersOf(q) # {}
      /\ \A x : x # q /\ x.track \in Tracks => UsersOf(x)' = UsersOf(x)
      /\ c \in Nat /\ c = culled[t] + 1 /\ culled[t] \in Nat
      /\ culled'[t] = c /\ \A u \in Tracks \ {t} : culled'[u] = culled[u]
      /\ UNCHANGED <<mTsbFragmentData, mCurrentInitData>>
  BY <1>1, <1>2, <1>3, NodeType DEF Removed, First
<1>5. \A u, i : Node(u, i)' = Node(u, i)
  BY <1>4 DEF Node
<1>6. ASSUME NEW u \in Tracks
      PROVE  /\ 1 .. culled[u] \subseteq 1 .. culled'[u]
             /\ \A i \in 1 .. culled'[u] : i \in 1 .. culled[u] \/ (u = t /\ i = c)
  BY <1>4, NodeType
<1>7. ASSUME NEW f \in culler' PROVE Deleted(f)'
  <2>1. f \in culler \/ f = Media(t, Node(t, c).pos)
    BY <1>4 DEF Removal
  <2>2. CASE f = Media(t, Node(t, c).pos)
    <3>1. c \in 1 .. culled'[t] /\ Node(t, c)' = Node(t, c)
      BY <1>4, <1>5
    <3>2. f.track = t /\ f.pos = Node(t, c).pos /\ ~IsInit(f)
      BY <2>2, InitType
    <3> QED BY <3>1, <3>2 DEF Deleted
  <2>3. CASE f \in culler
    <3>1. Deleted(f) /\ f.track \in Tracks
      BY <2>3, GoneIs, ItemType DEF DataTypes
    <3> QED BY <1>5, <1>6, <3>1 DEF Deleted
  <2> QED BY <2>1, <2>2, <2>3
<1>8. ASSUME NEW x \in InitSegments, x \in store', UsersOf(x) # {} PROVE UsersOf(x)' # {}
  <2>1. CASE x = q
    <3>1. UsersOf(q) # {c}
      BY <1>4, <1>8, <2>1 DEF Removal
    <3> QED BY <1>4, <2>1, <3>1
  <2>2. CASE x # q
    BY <1>4, <1>8, <2>2, InitType
  <2> QED BY <2>1, <2>2
<1>9. store' \subseteq store /\ culler \subseteq culler'
  BY DEF Removal
<1>10. ASSUME NEW u \in Tracks, NEW i \in 1 .. culled'[u] PROVE GoneNode(u, i)'
  <2>1. PICK x \in InitSegments : x = Node(u, i).init
    BY <1>3, <1>6, CulledNode
  <2>2. PICK p : p = Node(u, i).pos
    OBVIOUS
  <2>3. CASE i \in 1 .. culled[u]
    <3>1. GoneNode(u, i)
      BY <2>3, GoneIs
    <3>2. x \in store' => UsersOf(x)' # {}
      BY <1>8, <1>9, <2>1, <3>1 DEF GoneNode
    <3>3. Media(u, p) \in store' => Media(u, p) \in culler'
      BY <1>9, <2>2, <3>1 DEF GoneNode
    <3> QED BY <1>5, <2>1, <2>2, <3>2, <3>3 DEF GoneNode, Media
  <2>4. CASE u = t /\ i = c
    <3>1. x = q /\ Media(u, p) = Oldest(t)
      BY <1>3, <1>4, <2>1, <2>2, <2>4
    <3>2. x \in store' => UsersOf(x)' # {}
      BY <1>4, <1>8, <3>1
    <3>3. Media(u, p) \in store' => Media(u, p) \in culler'
      BY <3>1 DEF Removal
    <3> QED BY <1>5, <2>1, <2>2, <3>2, <3>3 DEF GoneNode, Media
  <2> QED BY <1>6, <2>3, <2>4
<1> QED BY <1>7, <1>10, GoneIs DEF GoneInv, GoneNode, Deleted

LEMMA GoneInvStep ==
  ASSUME SideTypes, DataInv, [Next]_vars
  PROVE  GoneInv'
<1> USE DEF SideTypes, DataInv
<1>0. ASSUME UNCHANGED <<mTsbFragmentData, culled>>
      PROVE  /\ \A t, i : Node(t, i)' = Node(t, i)
             /\ \A x : UsersOf(x)' = UsersOf(x)
  BY <1>0 DEF UsersOf, Stored, Node
<1>1. CASE CullDelete
  <2>1. /\ store' = store \ culler /\ culler' = {}
        /\ UNCHANGED <<mTsbFragmentData, culled>>
    BY <1>1 DEF CullDelete, dataVars
  <2>2. ASSUME NEW t \in Tracks, NEW i \in 1 .. culled[t]
        PROVE  /\ Node(t, i)' = Node(t, i)
               /\ UsersOf(Node(t, i).init) \subseteq UsersOf(Node(t, i).init)'
    <3>1. PICK x : x = Node(t, i).init
      OBVIOUS
    <3>2. Node(t, i)' = Node(t, i) /\ UsersOf(x)' = UsersOf(x)
      BY <1>0, <2>1
    <3> QED BY <3>1, <3>2
  <2> QED BY <2>1, <2>2, GoneStays
<1>2. CASE Written
  <2>1. /\ store' = store \cup {writer.item} /\ Busy
        /\ UNCHANGED <<culler, mTsbFragmentData, culled>>
    BY <1>2 DEF Written, WriterAt, Busy, dataVars
  <2>2. ASSUME NEW t \in Tracks, NEW i \in 1 .. culled[t]
        PROVE  /\ Node(t, i)' = Node(t, i)
               /\ UsersOf(Node(t, i).init) \subseteq UsersOf(Node(t, i).init)'
               /\ Node(t, i).init \in store' => Node(t, i).init \in store
               /\ Media(t, Node(t, i).pos) \in store' =>
                    Media(t, Node(t, i).pos) \in store
    <3>1. PICK x : x = Node(t, i).init
      OBVIOUS
    <3>2. Node(t, i)' = Node(t, i) /\ UsersOf(x)' = UsersOf(x)
      BY <1>0, <2>1
    <3>3. writer.item # Node(t, i).init /\ writer.item # Media(t, Node(t, i).pos)
      BY <2>1, WrittenKept, CulledNode
    <3> QED BY <2>1, <3>1, <3>2, <3>3
  <2> QED BY <2>1, <2>2, GoneStays
<1>3. CASE DataKept
  <2>1. UNCHANGED <<store, culler, mTsbFragmentData, culled>>
    BY <1>3 DEF DataKept, dataVars
  <2>2. ASSUME NEW t \in Tracks, NEW i \in 1 .. culled[t]
        PROVE  /\ Node(t, i)' = Node(t, i)
               /\ UsersOf(Node(t, i).init) \subseteq UsersOf(Node(t, i).init)'
    <3>1. PICK x : x = Node(t, i).init
      OBVIOUS
    <3>2. Node(t, i)' = Node(t, i) /\ UsersOf(x)' = UsersOf(x)
      BY <1>0, <2>1
    <3> QED BY <3>1, <3>2
  <2> QED BY <2>1, <2>2, GoneStays
<1> QED BY <1>1, <1>2, <1>3, GoneAdded, GoneRemoved, DataSteps

(* The writing side keeps what it relies on by itself.                     *)
LEMMA SideStep ==
  ASSUME SideTypes, DataInv, [Next]_vars
  PROVE  SideTypes' /\ DataInv'
<1>1. SideTypes'
  BY DownloaderTypesStep, WriterTypesStep, DataTypesStep DEF SideTypes
<1>2. OrderInv'
  BY OrderInvStep DEF DataInv
<1>3. NodeInv' /\ UsersInv' /\ KeptInv' /\ GoneInv'
  BY NodeInvStep, UsersInvStep, KeptInvStep, GoneInvStep
<1> QED BY <1>1, <1>2, <1>3 DEF DataInv

LEMMA SideInit ==
  ASSUME Init
  PROVE  SideTypes /\ DataInv
<1> USE DEF Init, Tracks
<1>1. \A t \in Tracks : /\ Stored(t) = {} /\ Nodes(t) = {}
                        /\ \A x : x.track = t => UsersOf(x) = {}
  BY DEF Stored, Nodes, UsersOf
<1>2. ~Busy /\ mWriteQueue = <<>> /\ Len(mWriteQueue) = 0
  BY DEF Busy, WriterAt
<1>3. DownloaderTypes
  BY DEF DownloaderTypes, DownloaderState, At
<1>4. WriterTypes
  BY <1>2 DEF WriterTypes
<1>5. DataTypes
  BY <1>1 DEF DataTypes
<1>7. \A t \in Tracks : Above(t, Rest(t))
  BY <1>1 DEF Above, Rest, At, NoItem
<1>8. OrderInv
  BY <1>2, <1>7 DEF OrderInv
<1>10. NodeInv
  BY <1>1 DEF NodeInv
<1>11. UsersInv
  BY <1>1, FS_EmptySet, InitType DEF UsersInv
<1>12. KeptInv
  BY <1>1, <1>2 DEF KeptInv, WriterAt
<1>13. GoneInv
  BY DEF GoneInv
<1> QED
  BY <1>3, <1>4, <1>5, <1>8, <1>10, <1>11, <1>12, <1>13 DEF SideTypes, DataInv

LEMMA StoreMatches ==
  ASSUME SideTypes, DataInv
  PROVE  StoreMatchesMetadata
<1> USE DEF SideTypes, DataInv
<1>1. ASSUME NEW t \in Tracks, NEW i \in Nodes(t)
      PROVE  /\ Media(t, Node(t, i).pos) \in store =>
                  \/ Media(t, Node(t, i).pos) \in culler
                  \/ Media(t, Node(t, i).pos) \in {Media(t, Node(t, j).pos) : j \in Stored(t)}
             /\ Node(t, i).init \in store =>
                  Node(t, i).init \in {Node(t, j).init : j \in Stored(t)}
  <2>1. i \in Stored(t) \/ i \in 1 .. culled[t]
    BY NodeType DEF Nodes, Stored
  <2>2. CASE i \in 1 .. culled[t]
    <3>1. PICK x : x = Node(t, i).init /\ x.track = t
      BY <2>2, CulledNode
    <3>2. Media(t, Node(t, i).pos) \in store => Media(t, Node(t, i).pos) \in culler
      BY <2>2 DEF GoneInv
    <3>3. x \in store => UsersOf(x) # {}
      BY <2>2, <3>1 DEF GoneInv
    <3>4. x \in store => x \in {Node(t, j).init : j \in Stored(t)}
      BY <3>1, <3>3 DEF UsersOf
    <3> QED BY <3>1, <3>2, <3>4
  <2> QED BY <2>1, <2>2
<1>2. ASSUME NEW t \in Tracks
      PROVE  /\ {Media(t, Node(t, i).pos) : i \in Stored(t)} \subseteq store
             /\ t \notin emptied => {Node(t, i).init : i \in Stored(t)} \subseteq store
  BY DEF KeptInv
<1> QED BY <1>1, <1>2 DEF StoreMatchesMetadata, Nodes

(* The writing side has its types and its invariants.                      *)
THEOREM SessionWrites == Spec => [](SideTypes /\ DataInv)
<1>1. (SideTypes /\ DataInv) /\ [Next]_vars => (SideTypes /\ DataInv)'
  BY SideStep
<1> QED BY SideInit, <1>1, PTL DEF Spec

(* Every fragment in a map has its file, and its init segment unless the   *)
(* track has lost all its fragments; and a file a fragment has needed is   *)
(* in the store only as long as one in the map needs it, or CullSegments   *)
(* is about to delete it: whatever init segments are downloaded, and       *)
(* whatever fragments are left out.                                        *)
THEOREM StoreAgrees == Spec => []StoreMatchesMetadata
  BY SessionWrites, StoreMatches, PTL

------------------------------------------------------------------------------
(* The reading side.                                                       *)

(* A non-empty set of numbers has a least one.                             *)
LEMMA LeastNumber ==
  ASSUME NEW I \in SUBSET Nat, I # {}
  PROVE  \E x \in I : \A y \in I : x <= y
<1> DEFINE R == {ss \in Nat \X Nat : ss[1] < ss[2]}
<1>1. IsWellFoundedOn(R, Nat)
  BY NatLessThanWellFounded, Zenon DEF OpToRel
<1>2. PICK x \in I : \A y \in I : ~(<<y, x>> \in R)
  <2> HIDE DEF R
  <2> QED BY <1>1, WFMin
<1>3. ASSUME NEW y \in I PROVE x <= y
  <2>1. x \in Nat /\ y \in Nat
    OBVIOUS
  <2>2. ~(y < x)
    BY <1>2, <2>1
  <2> QED BY <2>1, <2>2
<1> QED BY <1>3

(* GetNearestFragment finds one when there is one.                         *)
LEMMA NearestStored ==
  ASSUME DataTypes, NEW t \in Tracks, ~IsEmpty(t), NEW p \in Nat
  PROVE  GetNearestFragment(t, p) \in Stored(t)
<1> DEFINE S == Stored(t)
           D == {Distance(t, i, p) : i \in S}
<1>1. \A i \in S : i \in Nat /\ Node(t, i).pos \in Nat
  BY NodeType, StoredType DEF Nodes
<1>2. \A i \in S : Distance(t, i, p) \in Nat
  <2> SUFFICES ASSUME NEW i \in S PROVE Distance(t, i, p) \in Nat OBVIOUS
  <2>1. Node(t, i).pos \in Nat
    BY <1>1
  <2> QED BY <2>1 DEF Distance
<1>3. S # {} /\ S \subseteq Nat /\ D # {} /\ D \subseteq Nat
  BY <1>1, <1>2 DEF IsEmpty
<1>4. PICK m \in D : \A d \in D : m <= d
  BY <1>3, LeastNumber
<1> DEFINE N == {i \in S : Distance(t, i, p) = m}
<1>5. N # {} /\ N \subseteq Nat
  BY <1>1, <1>4
<1>6. PICK k \in N : \A i \in N : k <= i
  BY <1>5, LeastNumber
<1>7. ASSUME NEW j \in S
      PROVE  \/ Distance(t, k, p) < Distance(t, j, p)
             \/ Distance(t, k, p) = Distance(t, j, p) /\ k <= j
  <2>1. m <= Distance(t, j, p) /\ m \in Nat /\ Distance(t, j, p) \in Nat
        /\ Distance(t, k, p) = m
    BY <1>2, <1>3, <1>4, <1>6
  <2>2. CASE m = Distance(t, j, p)
    BY <1>6, <2>1, <2>2
  <2>3. CASE m # Distance(t, j, p)
    BY <2>1, <2>3
  <2> QED BY <2>2, <2>3
<1>8. k \in Stored(t)
  BY <1>6
<1> HIDE DEF N, D
<1> QED BY <1>7, <1>8 DEF GetNearestFragment

(* What the write thread and the culler do, as the reader sees it.         *)
Pushed == [init : InitSegments \cup {NoItem}, pos : Nat]

seenVars == <<downloader, mTsbFragmentData, mCurrentInitData, reader, tsbReader,
              injected, overtaken, app, mActiveTuneType, mTuneType,
              mIsLocalTSBInjection>>

OnlyLess ==
  /\ UNCHANGED seenVars
  /\ \A t \in Tracks : /\ culled'[t] \in Nat /\ culled'[t] >= culled[t]
                       /\ Stored(t)' \subseteq Stored(t)
  /\ emptied \subseteq emptied'

AddedTo(t) ==
  /\ Len(mTsbFragmentData'[t]) >= Len(mTsbFragmentData[t])
  /\ \A i \in Nodes(t) : Node(t, i)' = Node(t, i)
  /\ \/ reader'[t] = reader[t]
     \/ /\ reader'[t] = [reader[t] EXCEPT !.eos = FALSE]
        /\ mActiveTuneType # "SEEKTOLIVE"
  /\ \/ Len(mTsbFragmentData'[t]) = Len(mTsbFragmentData[t])
     \/ mActiveTuneType = "SEEKTOLIVE" \/ ~reader'[t].eos
  /\ mCurrentInitData'[t].pos \in Nat
  /\ mCurrentInitData[t].pos <= mCurrentInitData'[t].pos
  /\ \A i \in Stored(t)' : i \in Stored(t) \/ Node(t, i)'.init = mCurrentInitData[t]

AddSeen ==
  /\ UNCHANGED <<downloader, culled, emptied, tsbReader, injected, overtaken,
                 app, mActiveTuneType, mTuneType, mIsLocalTSBInjection>>
  /\ \A t \in Tracks : AddedTo(t)
  /\ reader' \in [Tracks -> ReaderState]

LEMMA LessSeen ==
  ASSUME SideTypes, DataInv,
         WriterTest \/ WriterWrite \/ MakeRoom \/ CullRemove \/ CullDelete
  PROVE  OnlyLess
<1> USE DEF SideTypes, DataInv
<1>1. UNCHANGED seenVars
  BY DEF WriterTest, WriterWrite, MakeRoom, CullRemove, CullDelete, RemoveFragment,
         seenVars, dataVars, readVars, tuneVars, history
<1>2. CASE UNCHANGED <<mTsbFragmentData, culled, emptied>>
  BY <1>1, <1>2, NodeType DEF OnlyLess, Stored
<1>3. ASSUME NEW t \in Tracks, Removal(t) PROVE OnlyLess
  <2>1. Removed(t)
    BY <1>3, RemovalRemoves DEF Removal
  <2>2. \A u \in Tracks : culled[u] \in Nat /\ First(t) = culled[t] + 1
    BY NodeType DEF First
  <2> QED BY <1>1, <2>1, <2>2 DEF Removed, OnlyLess
<1>4. [Next]_vars
  BY DEF Next, Writer, Culler
<1>5. CASE WriterTest \/ WriterWrite \/ CullDelete
  BY <1>2, <1>5 DEF WriterTest, WriterWrite, CullDelete, dataVars, history
<1>6. CASE MakeRoom
  <2>1. CASE IsEmpty(writer.item.track)
    BY <1>2, <1>6, <2>1 DEF MakeRoom, dataVars
  <2>2. CASE ~IsEmpty(writer.item.track)
    <3>1. PICK t \in Tracks : t = writer.item.track
      BY <1>6, ItemType DEF MakeRoom, WriterTypes, Busy, WriterAt
    <3>2. Removal(t)
      BY <1>6, <2>2, <3>1 DEF MakeRoom, Removal, WriterAt, WriterGoto, WriterTypes
    <3> QED BY <1>3, <3>2
  <2> QED BY <2>1, <2>2
<1>7. CASE CullRemove
  <2>1. PICK iter \in Tracks : \E t \in CullTarget(iter) :
          /\ RemoveFragment(t) /\ store' = store \ InitOfRemoved(t)
          /\ culler' = {Oldest(t)}
    BY <1>7 DEF CullRemove
  <2>2. PICK t \in CullTarget(iter) :
          /\ RemoveFragment(t) /\ store' = store \ InitOfRemoved(t)
          /\ culler' = {Oldest(t)}
    BY <2>1
  <2>3. Removal(t) /\ t \in Tracks
    BY <1>7, <2>2, CullTargetStored DEF CullRemove, Removal, writeVars
  <2> QED BY <1>3, <2>3
<1> QED BY <1>5, <1>6, <1>7

LEMMA AddIsSeen ==
  ASSUME SideTypes, DataInv, ReaderTypes, NEW t \in Tracks, AddFragment, Added(t)
  PROVE  AddSeen
<1> USE DEF SideTypes, DataInv
<1>1. Added(t)
  OBVIOUS
<1>2. UNCHANGED <<downloader, culled, emptied, tsbReader, injected, overtaken,
                  app, mActiveTuneType, mTuneType, mIsLocalTSBInjection>>
  BY DEF AddFragment, tuneVars, history
<1>3. t = writer.item.track /\ writer.item \in Items
  BY <1>1 DEF Added
<1>4. ASSUME NEW u \in Tracks, u # t
      PROVE  AddedTo(u)
  <2>1. reader' = reader \/ reader' = [reader EXCEPT ![t] = AfterAdd(t)]
    BY <1>3 DEF AddFragment
  <2>2. reader'[u] = reader[u]
    BY <1>4, <2>1 DEF ReaderTypes
  <2>3. mTsbFragmentData'[u] = mTsbFragmentData[u]
        /\ mCurrentInitData'[u] = mCurrentInitData[u]
    BY <1>1, <1>4 DEF Added
  <2>4. SameNodes(u)
    BY <1>1, <1>4, AddedStored
  <2>5. Len(mTsbFragmentData[u]) \in Nat /\ mCurrentInitData[u].pos \in Nat
    BY NodeType
  <2> QED BY <2>2, <2>3, <2>4, <2>5 DEF AddedTo, SameNodes
<1>7. reader' \in [Tracks -> ReaderState]
  <2>1. reader' = reader \/ reader' = [reader EXCEPT ![t] = AfterAdd(t)]
    BY <1>3 DEF AddFragment
  <2>2. AfterAdd(t) \in ReaderState
    <3>1. reader[t] \in ReaderState
      BY DEF ReaderTypes
    <3> QED BY <3>1 DEF AfterAdd, ReaderState
  <2> QED BY <2>1, <2>2 DEF ReaderTypes
<1>5. CASE AddedInit(t)
  <2>1. SameNodes(t) /\ UNCHANGED mTsbFragmentData
    BY <1>1, <1>5, AddedStored DEF AddedInit
  <2>2. reader' = reader
    BY <1>5 DEF AddFragment, AddedInit
  <2>3. /\ mCurrentInitData'[t].pos = writer.item.pos /\ writer.item.pos \in Nat
        /\ mCurrentInitData[t].pos <= writer.item.pos
    BY <1>1, <1>3, <1>5, ItemType DEF AddedInit, Added, OrderInv, Fits, Above
  <2>4. mCurrentInitData[t].pos \in Nat /\ Len(mTsbFragmentData[t]) \in Nat
    BY NodeType
  <2>5. AddedTo(t)
    BY <2>1, <2>2, <2>3, <2>4 DEF AddedTo, SameNodes
  <2> QED BY <1>2, <1>4, <1>7, <2>5 DEF AddSeen
<1>6. CASE AddedMedia(t)
  <2>1. PICK n \in Nat \ {0} : AddedNode(t, n)
    BY <1>1, <1>6, AddedStored
  <2>2. reader'[t] = AfterAdd(t)
    BY <1>1, <1>3, <1>6 DEF AddFragment, AddedMedia, ReaderTypes
  <2>3. reader[t] \in ReaderState
    BY DEF ReaderTypes
  <2>4. /\ \/ reader'[t] = reader[t]
           \/ /\ reader'[t] = [reader[t] EXCEPT !.eos = FALSE]
              /\ mActiveTuneType # "SEEKTOLIVE"
        /\ mActiveTuneType = "SEEKTOLIVE" \/ ~reader'[t].eos
    BY <2>2, <2>3 DEF AfterAdd, ReaderState
  <2>5. Len(mTsbFragmentData'[t]) = Len(mTsbFragmentData[t]) + 1
        /\ mCurrentInitData' = mCurrentInitData
    BY <1>6 DEF AddedMedia
  <2>6. mCurrentInitData[t].pos \in Nat /\ Len(mTsbFragmentData[t]) \in Nat
    BY NodeType
  <2>7. \A i \in Stored(t)' : i \in Stored(t) \/ Node(t, i)'.init = mCurrentInitData[t]
    BY <2>1 DEF AddedNode
  <2>8. \A i \in Nodes(t) : Node(t, i)' = Node(t, i)
    BY <2>1 DEF AddedNode
  <2>9. AddedTo(t)
    BY <2>4, <2>5, <2>6, <2>7, <2>8 DEF AddedTo
  <2> QED BY <1>2, <1>4, <1>7, <2>9 DEF AddSeen
<1> QED BY <1>1, <1>5, <1>6 DEF Added

------------------------------------------------------------------------------
(* The steps of the reader and of the player, one by one.                  *)

(* What a reader pushes next.                                              *)
ReadsNext(t) ==
  LET n == FindNext(t) IN
  /\ tsbReader.at = "loop" /\ reader[t].enabled /\ ~reader[t].eos
  /\ n \in Nodes(t) /\ n \in Nat
  /\ reader' \in [Tracks -> ReaderState]
  /\ \A u \in Tracks \ {t} : reader'[u] = reader[u]
  /\ reader'[t].cur = n /\ ~reader'[t].first
  /\ reader'[t].eos => n = Len(mTsbFragmentData[t])
  /\ reader'[t].lastInit = Node(t, n).init
  /\ reader'[t].enabled /\ reader'[t].endInjected = reader[t].endInjected
  /\ \/ tsbReader' = [at |-> "init", track |-> t]
     \/ /\ tsbReader' = [at |-> "media", track |-> t]
        /\ reader[t].lastInit = Node(t, n).init
  /\ \A u \in Tracks : ~Pushing(u) /\ (u # t => ~Pushing(u)') /\ Pushing(t)'

LEMMA ReadNextReads ==
  ASSUME DataTypes, ReaderTypes, NEW t \in Tracks, ReadNext(t)
  PROVE  ReadsNext(t)
<1> DEFINE n == FindNext(t)
           r == [reader[t] EXCEPT !.cur = n, !.first = FALSE,
                   !.eos = (n = Len(mTsbFragmentData[t])),
                   !.lastInit = Node(t, n).init]
<1>1. /\ reader[t] \in ReaderState /\ reader[t].enabled /\ reader[t].cur > 0
      /\ tsbReader.at = "loop" /\ ~reader[t].eos /\ n <= Len(mTsbFragmentData[t])
  BY DEF ReadNext, ReaderTypes
<1>2. n \in Nat /\ n > 0
  BY <1>1 DEF FindNext, ReaderState
<1>3. n \in Nodes(t) /\ Node(t, n).init \in InitSegments
  BY <1>1, <1>2, NodeType DEF Nodes
<1>4. reader' = [reader EXCEPT ![t] = r]
  BY DEF ReadNext, ReaderTypes
<1>5. r \in ReaderState
  BY <1>1, <1>2, <1>3 DEF ReaderState
<1>6. /\ r.cur = n /\ ~r.first /\ (r.eos => n = Len(mTsbFragmentData[t]))
      /\ r.lastInit = Node(t, n).init /\ r.enabled
      /\ r.endInjected = reader[t].endInjected
  BY <1>1, <1>2 DEF ReaderState
<1> HIDE DEF r
<1>7. /\ reader' \in [Tracks -> ReaderState] /\ reader'[t] = r
      /\ \A u \in Tracks \ {t} : reader'[u] = reader[u]
  BY <1>4, <1>5 DEF ReaderTypes
<1>8. \/ tsbReader' = [at |-> "init", track |-> t]
      \/ /\ tsbReader' = [at |-> "media", track |-> t]
         /\ reader[t].lastInit = Node(t, n).init
  BY DEF ReadNext
<1>9. \A u \in Tracks : ~Pushing(u) /\ (u # t => ~Pushing(u)') /\ Pushing(t)'
  BY <1>1, <1>8 DEF Pushing, ReaderAt
<1> HIDE DEF n
<1> QED BY <1>1, <1>2, <1>3, <1>6, <1>7, <1>8, <1>9 DEF ReadsNext, n

(* The position of the thread is that of one track.                        *)
LEMMA ReaderMoves ==
  ASSUME ReaderTypes, NEW t \in Tracks, NEW label \in {"init", "media", "cache"},
         ReaderAt(t, label)
  PROVE  /\ tsbReader.at = label /\ tsbReader.track = t /\ Pushing(t)
         /\ \A u \in Tracks \ {t} : ~Pushing(u)
         /\ \A next \in {"loop", "media", "cache"} : ReaderGoto(next) =>
              /\ tsbReader' = [at |-> next, track |-> t]
              /\ \A u \in Tracks \ {t} : ~Pushing(u)'
              /\ Pushing(t)' <=> next # "loop"
  BY DEF ReaderTypes, ReaderAt, ReaderGoto, Pushing

LEMMA NotPushing ==
  ASSUME tsbReader.at \in {"off", "loop"}
  PROVE  \A t : ~Pushing(t)
  BY DEF Pushing, ReaderAt

(* The last fragment is in the ring, and the downloader is told.           *)
LEMMA CacheTells ==
  ASSUME ReaderTypes, NEW t \in Tracks, CacheMedia(t)
  PROVE  /\ reader' \in [Tracks -> ReaderState]
         /\ \A u \in Tracks \ {t} : reader'[u] = reader[u]
         /\ reader'[t].enabled = reader[t].enabled
         /\ reader'[t].first = reader[t].first /\ reader'[t].cur = reader[t].cur
         /\ reader'[t].eos = reader[t].eos
         /\ reader'[t].lastInit = reader[t].lastInit
         /\ reader'[t].endInjected <=> reader[t].endInjected \/ reader[t].eos
<1>1. reader[t] \in ReaderState /\ reader' = [reader EXCEPT ![t] = AfterCache(t)]
  BY DEF CacheMedia, ReaderTypes
<1>2. PICK r : r = AfterCache(t)
  OBVIOUS
<1>3. /\ r \in ReaderState
      /\ r.enabled = reader[t].enabled /\ r.first = reader[t].first
      /\ r.cur = reader[t].cur /\ r.eos = reader[t].eos
      /\ r.lastInit = reader[t].lastInit
      /\ r.endInjected <=> reader[t].endInjected \/ reader[t].eos
  BY <1>1, <1>2 DEF AfterCache, ReaderState
<1>4. /\ reader' \in [Tracks -> ReaderState] /\ reader'[t] = r
      /\ \A u \in Tracks \ {t} : reader'[u] = reader[u]
  BY <1>1, <1>2, <1>3 DEF ReaderTypes
<1> QED BY <1>3, <1>4

(* Readers begin at a fragment that is stored.                             *)
LEMMA InvokeBegins ==
  ASSUME DataTypes, ReaderTypes, InvokeTsbReaders
  PROVE  /\ reader' \in [Tracks -> ReaderState]
         /\ \A t \in Tracks :
              /\ ~reader'[t].eos /\ ~reader'[t].endInjected
              /\ reader'[t].first /\ reader'[t].lastInit = NoItem
              /\ reader'[t].cur <= Len(mTsbFragmentData[t])
              /\ reader'[t].enabled => reader'[t].cur > 0
<1> DEFINE start == IF IsEmpty("video") THEN app.pos
                    ELSE Node("video", GetNearestFragment("video", app.pos)).pos
           r(t) == IF IsEmpty(t) THEN Term
                   ELSE [Term EXCEPT !.enabled = TRUE,
                                     !.cur = GetNearestFragment(t, start)]
<1>1. app.pos \in Nat /\ "video" \in Tracks
  BY DEF ReaderTypes, Tracks
<1>2. start \in Nat
  <2>1. CASE IsEmpty("video")
    BY <1>1, <2>1
  <2>2. CASE ~IsEmpty("video")
    <3>1. GetNearestFragment("video", app.pos) \in Nodes("video")
      BY <1>1, <2>2, NearestStored, StoredType
    <3>2. Node("video", GetNearestFragment("video", app.pos)).pos \in Nat
      BY <1>1, <3>1, NodeType
    <3> QED BY <2>2, <3>2
  <2> QED BY <2>1, <2>2
<1>3. reader' = [t \in Tracks |-> r(t)]
  BY DEF InvokeTsbReaders
<1> HIDE DEF start
<1>4. ASSUME NEW t \in Tracks
      PROVE  /\ r(t) \in ReaderState /\ ~r(t).eos /\ ~r(t).endInjected
             /\ r(t).first /\ r(t).lastInit = NoItem
             /\ r(t).cur <= Len(mTsbFragmentData[t])
             /\ r(t).enabled => r(t).cur > 0
  <2>1. Len(mTsbFragmentData[t]) \in Nat
    BY NodeType
  <2>2. CASE IsEmpty(t)
    BY <2>1, <2>2 DEF Term, ReaderState
  <2>3. CASE ~IsEmpty(t)
    <3>1. PICK c \in Nodes(t) : c = GetNearestFragment(t, start)
      BY <1>2, <2>3, NearestStored, StoredType
    <3>2. c \in Nat /\ c > 0 /\ c <= Len(mTsbFragmentData[t])
      BY <2>1 DEF Nodes
    <3>3. r(t) = [Term EXCEPT !.enabled = TRUE, !.cur = c]
      BY <2>3, <3>1
    <3> HIDE DEF r
    <3>4. r(t) = [enabled |-> TRUE, first |-> TRUE, cur |-> c, eos |-> FALSE,
                  lastInit |-> NoItem, endInjected |-> FALSE]
      BY <3>3 DEF Term
    <3>5. r(t) \in ReaderState
      BY <3>2, <3>4 DEF ReaderState
    <3>6. /\ ~r(t).eos /\ ~r(t).endInjected /\ r(t).first /\ r(t).lastInit = NoItem
          /\ r(t).cur = c
      BY <3>4
    <3> QED BY <3>2, <3>5, <3>6
  <2> QED BY <2>2, <2>3
<1> HIDE DEF r
<1>5. \A t \in Tracks : reader'[t] = r(t)
  BY <1>3
<1>6. reader' \in [Tracks -> ReaderState]
  BY <1>3, <1>4
<1> QED BY <1>4, <1>5, <1>6

LEMMA ReadCases ==
  ASSUME SideTypes, DataInv, ReaderTypes, [Next]_vars
  PROVE  \/ \E t \in Tracks : \/ OnFragmentDownloadSuccess(t)
                              \/ CheckForWaitIfReaderDone(t)
                              \/ CacheStagingFragmentForInjection(t)
                              \/ OnFragmentDownloadFailed(t)
                              \/ ReadNext(t) \/ ReadInit(t) \/ ReadMedia(t)
                              \/ CacheMedia(t)
         \/ OnlyLess \/ AddSeen \/ ReaderExit
         \/ \E tune \in {"SEEK", "SEEKTOLIVE"}, pos \in Positions : Seek(tune, pos)
         \/ JoinReader \/ InvokeTsbReaders \/ SetLocalTSBInjection
         \/ StartFromAampLocalTsb
<1>1. CASE UNCHANGED vars
  <2>1. UNCHANGED seenVars /\ UNCHANGED <<mTsbFragmentData, culled, emptied>>
    BY <1>1 DEF vars, seenVars, dataVars, readVars, tuneVars, history
  <2> QED BY <2>1, NodeType DEF OnlyLess, Stored, SideTypes
<1>2. CASE AddFragment
  <2>1. CASE UNCHANGED storedVars
    <3>1. UNCHANGED seenVars
      <4>1. UNCHANGED <<downloader, tsbReader, tuneVars, mIsLocalTSBInjection, history>>
        BY <1>2 DEF AddFragment
      <4>2. UNCHANGED reader
        <5>1. CASE ~IsInit(writer.item) /\ mCurrentInitData[writer.item.track] # NoItem
          <6>1. PICK t \in Tracks : t = writer.item.track
            BY <1>2, ItemType
            DEF AddFragment, SideTypes, WriterTypes, Busy, WriterAt
          <6>2. /\ mTsbFragmentData[t] \in Seq([pos : Positions, init : InitSegments])
                /\ \E e : mTsbFragmentData'[t] = Append(mTsbFragmentData[t], e)
            BY <1>2, <5>1, <6>1 DEF AddFragment, SideTypes, DataTypes
          <6>3. mTsbFragmentData'[t] = mTsbFragmentData[t]
            BY <2>1 DEF storedVars
          <6>4. PICK q \in Seq([pos : Positions, init : InitSegments]) :
                  q = mTsbFragmentData[t] /\ \E e : q = Append(q, e)
            BY <6>2, <6>3
          <6>5. \A e : Len(Append(q, e)) = Len(q) + 1
            OBVIOUS
          <6>6. Len(q) \in Nat
            OBVIOUS
          <6> QED BY <6>4, <6>5, <6>6
        <5> QED BY <1>2, <5>1 DEF AddFragment
      <4> QED BY <2>1, <4>1, <4>2 DEF seenVars, storedVars, tuneVars, history
    <3> QED BY <2>1, <3>1, NodeType DEF OnlyLess, Stored, SideTypes, storedVars
  <2>2. CASE Added(writer.item.track)
    <3>1. PICK t \in Tracks : t = writer.item.track
      BY <2>2 DEF Added
    <3> QED BY <1>2, <2>2, <3>1, AddIsSeen
  <2> QED BY <1>2, <2>1, <2>2, AddFragmentEnters
<1> QED
  BY <1>1, <1>2, LessSeen
  DEF Next, Downloader, Reader, Writer, Culler, FinishSeek

(* An item in the ring.                                                    *)
LEMMA CachedType ==
  ASSUME ReaderTypes, NEW t \in Tracks, NEW x, x.pos \in Nat,
         IsInit(x) => x \in InitSegments, CacheTsbFragment(t, x)
  PROVE  /\ injected' \in [Tracks -> Pushed]
         /\ \A u \in Tracks \ {t} : injected'[u] = injected[u]
         /\ IsInit(x) => injected'[t].init = x /\ injected'[t].pos = injected[t].pos
         /\ ~IsInit(x) => injected'[t].pos = x.pos
                           /\ injected'[t].init = injected[t].init
<1>1. injected \in [Tracks -> Pushed]
  BY DEF ReaderTypes, Pushed
<1>2. injected[t] \in Pushed
  BY <1>1
<1>3. CASE IsInit(x)
  <2>1. injected' = [injected EXCEPT ![t] = [injected[t] EXCEPT !.init = x]]
    BY <1>1, <1>3 DEF CacheTsbFragment
  <2>2. PICK e : e = [injected[t] EXCEPT !.init = x]
    OBVIOUS
  <2>3. e \in Pushed /\ e.init = x /\ e.pos = injected[t].pos
    BY <1>2, <1>3, <2>2 DEF Pushed
  <2> QED BY <1>1, <1>3, <2>1, <2>2, <2>3
<1>4. CASE ~IsInit(x)
  <2>1. injected' = [injected EXCEPT ![t] = [injected[t] EXCEPT !.pos = x.pos]]
    BY <1>1, <1>4 DEF CacheTsbFragment
  <2>2. PICK e : e = [injected[t] EXCEPT !.pos = x.pos]
    OBVIOUS
  <2>3. e \in Pushed /\ e.init = injected[t].init /\ e.pos = x.pos
    BY <1>2, <1>4, <2>2 DEF Pushed
  <2> QED BY <1>1, <1>4, <2>1, <2>2, <2>3
<1> QED BY <1>3, <1>4

LEMMA ReaderTypesStep ==
  ASSUME SideTypes, DataInv, ReaderTypes, AppInv, [Next]_vars
  PROVE  ReaderTypes'
<1> USE DEF SideTypes
<1>0. \A t \in Tracks : reader[t] \in ReaderState /\ Len(mTsbFragmentData[t]) \in Nat
  BY NodeType DEF ReaderTypes
<1>1. ASSUME UNCHANGED <<reader, tsbReader, overtaken, app, mTuneType,
                         mActiveTuneType, mTsbFragmentData>>,
             injected' \in [Tracks -> Pushed]
      PROVE  ReaderTypes'
  BY <1>1 DEF ReaderTypes, Pushing, ReaderAt, Pushed
<1>2. ASSUME NEW t \in Tracks, \/ OnFragmentDownloadSuccess(t)
                               \/ CheckForWaitIfReaderDone(t)
                               \/ OnFragmentDownloadFailed(t)
      PROVE  ReaderTypes'
  BY <1>1, <1>2 DEF OnFragmentDownloadSuccess, CheckForWaitIfReaderDone,
                    OnFragmentDownloadFailed, dataVars, readVars, tuneVars, history,
                    ReaderTypes, Pushed
<1>3. ASSUME NEW t \in Tracks, CacheStagingFragmentForInjection(t)
      PROVE  ReaderTypes'
  <2>1. /\ downloader[t].item.pos \in Nat
        /\ IsInit(downloader[t].item) => downloader[t].item \in InitSegments
    BY <1>3, ItemType DEF CacheStagingFragmentForInjection, At, DownloaderTypes
  <2>2. injected' \in [Tracks -> Pushed]
    BY <1>3, <2>1, CachedType DEF CacheStagingFragmentForInjection
  <2> QED BY <1>1, <1>3, <2>2 DEF CacheStagingFragmentForInjection, dataVars,
                                  readVars, tuneVars
<1>4. ASSUME NEW t \in Tracks, ReadNext(t) PROVE ReaderTypes'
  <2>1. ReadsNext(t) /\ UNCHANGED <<injected, overtaken, app, mTuneType,
                                    mActiveTuneType, mTsbFragmentData>>
    BY <1>4, ReadNextReads DEF ReadNext, dataVars, tuneVars, history
  <2>2. /\ reader' \in [Tracks -> ReaderState]
        /\ tsbReader' \in [at : {"off", "loop", "init", "media", "cache"},
                           track : Tracks]
    BY <2>1 DEF ReadsNext
  <2>3. ASSUME NEW u \in Tracks
        PROVE  /\ reader'[u].cur <= Len(mTsbFragmentData[u])
               /\ reader'[u].enabled => reader'[u].cur > 0
               /\ Pushing(u)' => reader'[u].cur > 0
    <3>1. CASE u = t
      BY <1>0, <2>1, <3>1 DEF ReadsNext, Nodes
    <3>2. CASE u # t
      BY <2>1, <3>2 DEF ReadsNext, ReaderTypes
    <3> QED BY <3>1, <3>2
  <2> QED BY <2>1, <2>2, <2>3 DEF ReaderTypes
<1>5. ASSUME NEW t \in Tracks, ReadInit(t) PROVE ReaderTypes'
  <2>1. /\ ReaderAt(t, "init") /\ reader[t].cur \in Nodes(t)
        /\ UNCHANGED <<reader, overtaken, app, mTuneType, mActiveTuneType,
                       mTsbFragmentData>>
    <3>1. reader[t].cur > 0 /\ reader[t].cur <= Len(mTsbFragmentData[t])
          /\ ReaderAt(t, "init")
      BY <1>5 DEF ReadInit, ReaderTypes, Pushing
    <3> QED BY <1>0, <1>5, <3>1 DEF ReadInit, dataVars, tuneVars, Nodes, ReaderState
  <2>2. injected' \in [Tracks -> Pushed]
    <3>1. PICK x \in InitSegments : x = Node(t, reader[t].cur).init
      BY <2>1, NodeType
    <3>2. CASE UNCHANGED injected
      BY <3>2 DEF ReaderTypes, Pushed
    <3>3. CASE CacheTsbFragment(t, Node(t, reader[t].cur).init)
      BY <3>1, <3>3, CachedType, InitType
    <3> QED BY <1>5, <3>2, <3>3 DEF ReadInit
  <2>3. ReaderGoto("media") \/ ReaderGoto("loop")
    BY <1>5 DEF ReadInit
  <2>4. /\ tsbReader' \in [at : {"off", "loop", "init", "media", "cache"},
                           track : Tracks]
        /\ \A u \in Tracks : Pushing(u)' => Pushing(u)
    BY <2>1, <2>3, ReaderMoves
  <2> QED BY <2>1, <2>2, <2>4 DEF ReaderTypes, Pushed
<1>6. ASSUME NEW t \in Tracks, ReadMedia(t) PROVE ReaderTypes'
  <2>1. /\ ReaderAt(t, "media") /\ (ReaderGoto("cache") \/ ReaderGoto("loop"))
        /\ UNCHANGED <<reader, injected, overtaken, app, mTuneType, mActiveTuneType,
                       mTsbFragmentData>>
    BY <1>6 DEF ReadMedia, dataVars, tuneVars, history
  <2>2. /\ tsbReader' \in [at : {"off", "loop", "init", "media", "cache"},
                           track : Tracks]
        /\ \A u \in Tracks : Pushing(u)' => Pushing(u)
    BY <2>1, ReaderMoves
  <2> QED BY <2>1, <2>2 DEF ReaderTypes
<1>7. ASSUME NEW t \in Tracks, CacheMedia(t) PROVE ReaderTypes'
  <2>1. /\ ReaderAt(t, "cache") /\ ReaderGoto("loop")
        /\ CacheTsbFragment(t, Media(t, Node(t, reader[t].cur).pos))
        /\ UNCHANGED <<overtaken, app, mTuneType, mActiveTuneType, mTsbFragmentData>>
    BY <1>7 DEF CacheMedia, dataVars, tuneVars
  <2>2. reader[t].cur \in Nodes(t)
    <3>1. reader[t].cur > 0 /\ reader[t].cur <= Len(mTsbFragmentData[t])
      BY <2>1 DEF ReaderTypes, Pushing
    <3> QED BY <1>0, <3>1 DEF Nodes, ReaderState
  <2>3. injected' \in [Tracks -> Pushed]
    <3>1. Node(t, reader[t].cur).pos \in Nat
      BY <2>2, NodeType
    <3>2. PICK x : x = Media(t, Node(t, reader[t].cur).pos)
      OBVIOUS
    <3> QED BY <2>1, <3>1, <3>2, CachedType, InitType
  <2>4. /\ tsbReader' \in [at : {"off", "loop", "init", "media", "cache"},
                           track : Tracks]
        /\ \A u \in Tracks : ~Pushing(u)'
    BY <2>1, ReaderMoves
  <2>5. /\ reader' \in [Tracks -> ReaderState]
        /\ \A u \in Tracks : /\ reader'[u].cur = reader[u].cur
                             /\ reader'[u].enabled = reader[u].enabled
    BY <1>7, CacheTells
  <2> QED BY <2>1, <2>3, <2>4, <2>5 DEF ReaderTypes, Pushed
<1>8. CASE OnlyLess
  BY <1>1, <1>8 DEF OnlyLess, seenVars, ReaderTypes, Pushed
<1>9. CASE AddSeen
  <2>1. /\ UNCHANGED <<tsbReader, injected, overtaken, app, mTuneType, mActiveTuneType>>
        /\ reader' \in [Tracks -> ReaderState]
    BY <1>9 DEF AddSeen
  <2>2. ASSUME NEW u \in Tracks
        PROVE  /\ reader'[u].cur <= Len(mTsbFragmentData'[u])
               /\ reader'[u].enabled => reader'[u].cur > 0
               /\ Pushing(u)' => reader'[u].cur > 0
    <3>1. AddedTo(u) /\ reader[u] \in ReaderState
      BY <1>0, <1>9 DEF AddSeen
    <3>2. reader'[u].cur = reader[u].cur /\ reader'[u].enabled = reader[u].enabled
      BY <3>1 DEF AddedTo, ReaderState
    <3>3. Len(mTsbFragmentData'[u]) >= Len(mTsbFragmentData[u])
      BY <3>1 DEF AddedTo
    <3>4. Len(mTsbFragmentData'[u]) \in Nat
      BY DataTypesStep DEF DataTypes
    <3>5. Pushing(u)' => Pushing(u)
      BY <2>1 DEF Pushing, ReaderAt
    <3>6. /\ reader[u].cur \in Nat /\ reader[u].cur <= Len(mTsbFragmentData[u])
          /\ reader[u].enabled => reader[u].cur > 0
          /\ Pushing(u) => reader[u].cur > 0
      BY <1>0 DEF ReaderTypes, ReaderState
    <3> QED BY <1>0, <3>2, <3>3, <3>4, <3>5, <3>6
  <2> QED BY <2>1, <2>2 DEF ReaderTypes
<1>10. CASE ReaderExit
  <2>1. /\ tsbReader' = [tsbReader EXCEPT !.at = "off"]
        /\ UNCHANGED <<reader, injected, overtaken, app, mTuneType, mActiveTuneType,
                       mTsbFragmentData>>
    BY <1>10 DEF ReaderExit, ReaderGoto, dataVars, tuneVars, history
  <2>2. /\ tsbReader' \in [at : {"off", "loop", "init", "media", "cache"},
                           track : Tracks]
        /\ \A u \in Tracks : ~Pushing(u)'
    BY <2>1 DEF ReaderTypes, Pushing, ReaderAt
  <2> QED BY <2>1, <2>2 DEF ReaderTypes
<1>11. ASSUME NEW tune \in {"SEEK", "SEEKTOLIVE"}, NEW pos \in Positions,
              Seek(tune, pos)
       PROVE  ReaderTypes'
  <2>1. /\ app' = [at |-> "join", tune |-> tune, pos |-> pos] /\ pos \in Nat
        /\ UNCHANGED <<reader, tsbReader, injected, overtaken, mTuneType,
                       mActiveTuneType, mTsbFragmentData>>
    BY <1>11, PositionsAre DEF Seek, dataVars, readVars, history
  <2> QED BY <2>1 DEF ReaderTypes, Pushing, ReaderAt
<1>12. CASE JoinReader
  <2>1. /\ app' = [app EXCEPT !.at = "invoke"] /\ mTuneType' = app.tune
        /\ overtaken' = Overtakes
        /\ UNCHANGED <<reader, tsbReader, injected, mActiveTuneType, mTsbFragmentData>>
    BY <1>12 DEF JoinReader, AppGoto, dataVars, readVars
  <2>2. Overtakes \in BOOLEAN
    BY DEF Overtakes, ReaderTypes
  <2> QED BY <2>1, <2>2 DEF ReaderTypes, Pushing, ReaderAt
<1>13. CASE InvokeTsbReaders
  <2>1. /\ app' = [app EXCEPT !.at = "inject", !.pos = 0]
        /\ mActiveTuneType' = app.tune
        /\ overtaken' = Overtakes /\ tsbReader.at = "off"
        /\ UNCHANGED <<tsbReader, injected, mTuneType, mTsbFragmentData>>
    BY <1>13 DEF InvokeTsbReaders, AppInv, AppAt, dataVars
  <2>2. Overtakes \in BOOLEAN
    BY DEF Overtakes, ReaderTypes
  <2>3. \A u : ~Pushing(u)'
    BY <2>1 DEF Pushing, ReaderAt
  <2>4. /\ reader' \in [Tracks -> ReaderState]
        /\ \A t \in Tracks : /\ reader'[t].cur <= Len(mTsbFragmentData[t])
                             /\ reader'[t].enabled => reader'[t].cur > 0
    BY <1>13, InvokeBegins
  <2> QED BY <2>1, <2>2, <2>3, <2>4 DEF ReaderTypes
<1>14. CASE SetLocalTSBInjection
  <2>1. /\ app' = [app EXCEPT !.at = "start"] /\ overtaken' = Overtakes
        /\ UNCHANGED <<reader, tsbReader, injected, mTuneType, mActiveTuneType,
                       mTsbFragmentData>>
    BY <1>14 DEF SetLocalTSBInjection, AppGoto, dataVars, readVars
  <2>2. Overtakes \in BOOLEAN
    BY DEF Overtakes, ReaderTypes
  <2> QED BY <2>1, <2>2 DEF ReaderTypes, Pushing, ReaderAt
<1>15. CASE StartFromAampLocalTsb
  <2>1. /\ app' = [app EXCEPT !.at = "idle"] /\ overtaken' = Overtakes
        /\ tsbReader' = [tsbReader EXCEPT !.at = "loop"]
        /\ injected' = [t \in Tracks |-> Nothing]
        /\ UNCHANGED <<reader, mTuneType, mActiveTuneType, mTsbFragmentData>>
    BY <1>15 DEF StartFromAampLocalTsb, AppGoto, dataVars
  <2>2. Overtakes \in BOOLEAN
    BY DEF Overtakes, ReaderTypes
  <2>3. /\ tsbReader' \in [at : {"off", "loop", "init", "media", "cache"},
                           track : Tracks]
        /\ \A u \in Tracks : ~Pushing(u)'
    BY <2>1 DEF ReaderTypes, Pushing, ReaderAt
  <2>4. injected' \in [Tracks -> Pushed]
    BY <2>1 DEF Nothing, Pushed
  <2> QED BY <2>1, <2>2, <2>3, <2>4 DEF ReaderTypes, Pushed
<1> QED
  BY <1>2, <1>3, <1>4, <1>5, <1>6, <1>7, <1>8, <1>9, <1>10, <1>11, <1>12, <1>13,
     <1>14, <1>15, ReadCases

(* What each step means for reading.                                       *)
tunes == <<app, mTuneType, mActiveTuneType>>

Entered == <<mTsbFragmentData, mCurrentInitData, culled, emptied>>

Fetches(t) ==
  /\ UNCHANGED <<reader, tsbReader, injected, overtaken, tunes, Entered>>
  /\ \A u \in Tracks \ {t} : /\ downloader'[u] = downloader[u]
                             /\ u \in mIsLocalTSBInjection' <=> u \in mIsLocalTSBInjection
  /\ downloader[t].pos <= downloader'[t].pos
  /\ downloader'[t].at # "download" /\ ~IsInit(downloader'[t].item) =>
       \/ downloader'[t].item.pos = downloader[t].pos
       \/ At(t, "wait") /\ downloader'[t].item = downloader[t].item
  /\ \/ At(t, "wait")' /\ UNCHANGED mIsLocalTSBInjection /\ CheckEos(t)
     \/ /\ downloader'[t].at \in {"download", "push"}
        /\ downloader'[t].at = "push" => t \notin mIsLocalTSBInjection'
        /\ \/ UNCHANGED mIsLocalTSBInjection
           \/ At(t, "wait") /\ reader[t].endInjected /\ t \notin mIsLocalTSBInjection'

Pushes(t) ==
  /\ UNCHANGED <<reader, tsbReader, overtaken, tunes, mIsLocalTSBInjection, Entered>>
  /\ \A u \in Tracks \ {t} : downloader'[u] = downloader[u] /\ injected'[u] = injected[u]
  /\ At(t, "push") /\ At(t, "download")'
  /\ downloader'[t].pos = downloader[t].pos
  /\ \/ injected'[t].pos = injected[t].pos
     \/ injected'[t].pos < downloader[t].pos

Reads(t) ==
  /\ ReadsNext(t)
  /\ UNCHANGED <<downloader, injected, overtaken, tunes, mIsLocalTSBInjection, Entered>>

ReadsInit(t) ==
  LET init == Node(t, reader[t].cur).init IN
  /\ ReaderAt(t, "init") /\ reader[t].cur \in Nodes(t)
  /\ UNCHANGED <<downloader, reader, overtaken, tunes, mIsLocalTSBInjection, Entered>>
  /\ \A u \in Tracks \ {t} : injected'[u] = injected[u]
  /\ injected'[t].pos = injected[t].pos
  /\ \/ tsbReader' = [at |-> "media", track |-> t] /\ injected'[t].init = init
     \/ /\ tsbReader' = [at |-> "loop", track |-> t] /\ UNCHANGED injected
        /\ init \notin store

ReadsMedia(t) ==
  /\ ReaderAt(t, "media") /\ reader[t].cur \in Nodes(t)
  /\ UNCHANGED <<downloader, reader, injected, overtaken, tunes, mIsLocalTSBInjection,
                 Entered>>
  /\ \/ tsbReader' = [at |-> "cache", track |-> t]
     \/ /\ tsbReader' = [at |-> "loop", track |-> t]
        /\ Media(t, Node(t, reader[t].cur).pos) \notin store

Caches(t) ==
  /\ ReaderAt(t, "cache") /\ reader[t].cur \in Nodes(t)
  /\ tsbReader' = [at |-> "loop", track |-> t]
  /\ UNCHANGED <<downloader, overtaken, tunes, mIsLocalTSBInjection, Entered>>
  /\ \A u \in Tracks \ {t} : injected'[u] = injected[u] /\ reader'[u] = reader[u]
  /\ injected'[t].pos = Node(t, reader[t].cur).pos
  /\ injected'[t].init = injected[t].init
  /\ reader'[t].enabled = reader[t].enabled
  /\ reader'[t].first = reader[t].first /\ reader'[t].cur = reader[t].cur
  /\ reader'[t].eos = reader[t].eos /\ reader'[t].lastInit = reader[t].lastInit
  /\ reader'[t].endInjected <=> reader[t].endInjected \/ reader[t].eos

Exits ==
  /\ tsbReader.at = "loop" /\ tsbReader'.at = "off"
  /\ UNCHANGED <<downloader, reader, injected, overtaken, tunes, mIsLocalTSBInjection,
                 Entered>>

Seeks ==
  /\ app.at = "idle" /\ app'.at = "join" /\ app'.tune # "NEW"
  /\ UNCHANGED <<downloader, reader, tsbReader, injected, overtaken, mTuneType,
                 mActiveTuneType, mIsLocalTSBInjection, Entered>>

Joins ==
  /\ app.at = "join" /\ app'.at = "invoke" /\ app'.tune = app.tune
  /\ tsbReader.at = "off" /\ mTuneType' = app.tune
  /\ UNCHANGED <<downloader, reader, tsbReader, injected, mActiveTuneType,
                 mIsLocalTSBInjection, Entered>>
  /\ overtaken' = Overtakes

Invokes ==
  /\ app.at = "invoke" /\ app'.at = "inject" /\ app'.tune = app.tune
  /\ mActiveTuneType' = app.tune /\ \A t \in Tracks : Fresh(t)'
  /\ UNCHANGED <<downloader, tsbReader, injected, mTuneType, mIsLocalTSBInjection,
                 Entered>>
  /\ overtaken' = Overtakes

Injects ==
  /\ app.at = "inject" /\ app'.at = "start" /\ app'.tune = app.tune
  /\ mIsLocalTSBInjection' = Tracks
  /\ UNCHANGED <<downloader, reader, tsbReader, injected, mTuneType, mActiveTuneType,
                 Entered>>
  /\ overtaken' = Overtakes

Starts ==
  /\ app.at = "start" /\ app'.at = "idle"
  /\ tsbReader'.at = "loop" /\ \A t \in Tracks : injected'[t] = Nothing
  /\ UNCHANGED <<downloader, reader, mTuneType, mActiveTuneType, mIsLocalTSBInjection,
                 Entered>>
  /\ overtaken' = Overtakes

ReaderSteps ==
  \/ \E t \in Tracks : \/ Fetches(t) \/ Pushes(t) \/ Reads(t) \/ ReadsInit(t)
                       \/ ReadsMedia(t) \/ Caches(t)
  \/ OnlyLess \/ AddSeen \/ Exits \/ Seeks \/ Joins \/ Invokes \/ Injects \/ Starts

LEMMA FetchesStep ==
  ASSUME SideTypes, NEW t \in Tracks,
         OnFragmentDownloadSuccess(t) \/ CheckForWaitIfReaderDone(t)
  PROVE  Fetches(t)
<1> USE DEF SideTypes
<1>1. /\ UNCHANGED <<reader, tsbReader, injected, overtaken, tunes, Entered>>
      /\ \A u \in Tracks \ {t} : u \in mIsLocalTSBInjection' <=> u \in mIsLocalTSBInjection
  BY DEF OnFragmentDownloadSuccess, CheckForWaitIfReaderDone, dataVars, readVars,
         tuneVars, history, tunes, Entered
<1>2. CASE At(t, "download") /\ CheckEos(t)
  <2>1. /\ At(t, "wait")' /\ UNCHANGED mIsLocalTSBInjection
        /\ \A u \in Tracks \ {t} : downloader'[u] = downloader[u]
        /\ downloader[t].pos <= downloader'[t].pos
        /\ ~IsInit(downloader'[t].item) => downloader'[t].item.pos = downloader[t].pos
    BY <1>2, DownloadWaits
  <2> QED BY <1>1, <1>2, <2>1 DEF Fetches
<1>3. CASE ~(At(t, "download") /\ CheckEos(t))
  <2>1. PICK x : EnqueuedItem(t, x)
    BY <1>3, DownloadEnqueues DEF Enqueued
  <2>2. At(t, "download") \/ At(t, "wait")
    BY DEF OnFragmentDownloadSuccess, CheckForWaitIfReaderDone
  <2>3. /\ downloader'[t].at \in {"download", "push"}
        /\ \A u \in Tracks \ {t} : downloader'[u] = downloader[u]
        /\ downloader[t].pos <= downloader'[t].pos
        /\ downloader'[t].at # "download" /\ ~IsInit(downloader'[t].item) =>
             \/ downloader'[t].item.pos = downloader[t].pos
             \/ At(t, "wait") /\ downloader'[t].item = downloader[t].item
    BY <2>1, <2>2 DEF EnqueuedItem
  <2>4. t \in mIsLocalTSBInjection' => downloader'[t].at = "download"
    BY <1>3 DEF OnFragmentDownloadSuccess, CheckForWaitIfReaderDone, Downloaded,
                DownloaderTypes
  <2>5. \/ UNCHANGED mIsLocalTSBInjection
        \/ At(t, "wait") /\ reader[t].endInjected /\ t \notin mIsLocalTSBInjection'
    BY DEF OnFragmentDownloadSuccess, CheckForWaitIfReaderDone
  <2> QED BY <1>1, <2>3, <2>4, <2>5 DEF Fetches
<1> QED BY <1>2, <1>3

LEMMA FailedStep ==
  ASSUME SideTypes, NEW t \in Tracks, OnFragmentDownloadFailed(t)
  PROVE  Fetches(t)
<1>1. /\ downloader'[t].at = "download" /\ downloader[t].pos <= downloader'[t].pos
      /\ \A u \in Tracks \ {t} : downloader'[u] = downloader[u]
  BY PushGoesOn DEF SideTypes
<1>2. /\ UNCHANGED <<reader, tsbReader, injected, overtaken, tunes, Entered>>
      /\ UNCHANGED mIsLocalTSBInjection
  BY DEF OnFragmentDownloadFailed, dataVars, readVars, tuneVars, history, tunes, Entered
<1> QED BY <1>1, <1>2 DEF Fetches

LEMMA PushesStep ==
  ASSUME SideTypes, ReaderTypes, NEW t \in Tracks, CacheStagingFragmentForInjection(t)
  PROVE  Pushes(t)
<1> USE DEF SideTypes
<1>1. UNCHANGED <<reader, tsbReader, overtaken, tunes, mIsLocalTSBInjection, Entered>>
  BY DEF CacheStagingFragmentForInjection, dataVars, readVars, tuneVars, tunes, Entered
<1>2. /\ At(t, "push") /\ At(t, "download")'
      /\ downloader'[t].pos = downloader[t].pos
      /\ \A u \in Tracks \ {t} : downloader'[u] = downloader[u]
  BY PushGoesOn DEF At
<1>3. PICK x \in Items : /\ x = downloader[t].item
                        /\ downloader[t].last = End(x)
  BY <1>2 DEF DownloaderTypes, At
<1>4. /\ x.pos \in Nat /\ (IsInit(x) => x \in InitSegments)
      /\ (~IsInit(x) => End(x) = x.pos + 1)
  BY ItemType
<1>5. CacheTsbFragment(t, x)
  BY <1>3 DEF CacheStagingFragmentForInjection
<1>6. /\ \A u \in Tracks \ {t} : injected'[u] = injected[u]
      /\ \/ injected'[t].pos = injected[t].pos
         \/ ~IsInit(x) /\ injected'[t].pos = x.pos
  BY <1>4, <1>5, CachedType
<1>7. downloader[t].last <= downloader[t].pos /\ downloader[t].pos \in Nat
  BY DEF DownloaderTypes, DownloaderState
<1>8. ~IsInit(x) => x.pos < downloader[t].pos
  BY <1>3, <1>4, <1>7
<1> QED BY <1>1, <1>2, <1>6, <1>8 DEF Pushes

LEMMA ReaderStepsAre ==
  ASSUME SideTypes, DataInv, ReaderTypes, [Next]_vars
  PROVE  ReaderSteps
<1> USE DEF SideTypes
<1>0. \A t \in Tracks : reader[t] \in ReaderState /\ Len(mTsbFragmentData[t]) \in Nat
                        /\ (Pushing(t) => reader[t].cur \in Nodes(t))
  BY NodeType DEF ReaderTypes, ReaderState, Nodes
<1>1. ASSUME NEW t \in Tracks, ReadNext(t) PROVE Reads(t)
  BY <1>1, ReadNextReads DEF ReadNext, Reads, dataVars, tuneVars, history, tunes, Entered
<1>2. ASSUME NEW t \in Tracks, ReadInit(t) PROVE ReadsInit(t)
  <2>1. /\ ReaderAt(t, "init")
        /\ UNCHANGED <<downloader, reader, overtaken, tunes, mIsLocalTSBInjection, Entered>>
    BY <1>2 DEF ReadInit, dataVars, tuneVars, tunes, Entered
  <2>2. reader[t].cur \in Nodes(t)
    BY <1>0, <2>1, ReaderMoves
  <2>3. PICK init : init = Node(t, reader[t].cur).init
    OBVIOUS
  <2>4. init \in InitSegments
    BY <2>2, <2>3, NodeType
  <2>5. CASE CacheTsbFragment(t, init) /\ ReaderGoto("media")
    <3>1. /\ \A u \in Tracks \ {t} : injected'[u] = injected[u]
          /\ injected'[t].init = init /\ injected'[t].pos = injected[t].pos
      BY <2>4, <2>5, CachedType, InitType
    <3>2. tsbReader' = [at |-> "media", track |-> t]
      BY <2>1, <2>5, ReaderMoves
    <3> QED BY <2>1, <2>2, <2>3, <3>1, <3>2 DEF ReadsInit
  <2>6. CASE init \notin store /\ ReaderGoto("loop") /\ UNCHANGED injected
    <3>1. tsbReader' = [at |-> "loop", track |-> t]
      BY <2>1, <2>6, ReaderMoves
    <3> QED BY <2>1, <2>2, <2>3, <2>6, <3>1 DEF ReadsInit
  <2> QED BY <1>2, <2>3, <2>5, <2>6 DEF ReadInit
<1>3. ASSUME NEW t \in Tracks, ReadMedia(t) PROVE ReadsMedia(t)
  <2>1. /\ ReaderAt(t, "media")
        /\ UNCHANGED <<downloader, reader, injected, overtaken, tunes,
                       mIsLocalTSBInjection, Entered>>
        /\ \/ ReaderGoto("cache")
           \/ ReaderGoto("loop") /\ Media(t, Node(t, reader[t].cur).pos) \notin store
    BY <1>3 DEF ReadMedia, dataVars, tuneVars, tunes, Entered, history
  <2>2. reader[t].cur \in Nodes(t)
    BY <1>0, <2>1, ReaderMoves
  <2> QED BY <2>1, <2>2, ReaderMoves DEF ReadsMedia
<1>4. ASSUME NEW t \in Tracks, CacheMedia(t) PROVE Caches(t)
  <2>1. /\ ReaderAt(t, "cache") /\ ReaderGoto("loop")
        /\ CacheTsbFragment(t, Media(t, Node(t, reader[t].cur).pos))
        /\ UNCHANGED <<downloader, overtaken, tunes, mIsLocalTSBInjection, Entered>>
    BY <1>4 DEF CacheMedia, dataVars, tuneVars, tunes, Entered
  <2>2. reader[t].cur \in Nodes(t) /\ tsbReader' = [at |-> "loop", track |-> t]
    BY <1>0, <2>1, ReaderMoves
  <2>3. Node(t, reader[t].cur).pos \in Nat
    BY <2>2, NodeType
  <2>4. /\ \A u \in Tracks \ {t} : injected'[u] = injected[u]
        /\ injected'[t].pos = Node(t, reader[t].cur).pos
        /\ injected'[t].init = injected[t].init
    <3>1. PICK x : x = Media(t, Node(t, reader[t].cur).pos)
      OBVIOUS
    <3>2. ~IsInit(x) /\ x.pos = Node(t, reader[t].cur).pos
      BY <3>1, InitType
    <3> QED BY <2>1, <2>3, <3>1, <3>2, CachedType
  <2> QED BY <1>4, <2>1, <2>2, <2>4, CacheTells DEF Caches
<1>5. CASE ReaderExit
  <2>1. tsbReader'.at = "off"
    BY <1>5 DEF ReaderExit, ReaderGoto, ReaderTypes
  <2> QED BY <1>5, <2>1 DEF ReaderExit, Exits, ReaderSteps, dataVars, tuneVars, tunes,
                            Entered, history
<1>6. ASSUME NEW tune \in {"SEEK", "SEEKTOLIVE"}, NEW pos \in Positions,
             Seek(tune, pos)
      PROVE  Seeks
  BY <1>6 DEF Seek, Seeks, AppAt, dataVars, readVars, Entered, history
<1>7. CASE JoinReader
  <2>1. app'.at = "invoke" /\ app'.tune = app.tune
    BY <1>7 DEF JoinReader, AppGoto, ReaderTypes
  <2> QED BY <1>7, <2>1 DEF JoinReader, AppAt, Joins, ReaderSteps, dataVars, readVars,
                            Entered
<1>8. CASE InvokeTsbReaders
  <2>1. app'.at = "inject" /\ app'.tune = app.tune
    BY <1>8 DEF InvokeTsbReaders, ReaderTypes
  <2>2. \A t \in Tracks : Fresh(t)'
    BY <1>8, InvokeBegins DEF Fresh
  <2> QED BY <1>8, <2>1, <2>2 DEF InvokeTsbReaders, AppAt, Invokes, ReaderSteps, dataVars,
                                  Entered
<1>9. CASE SetLocalTSBInjection
  <2>1. app'.at = "start" /\ app'.tune = app.tune
    BY <1>9 DEF SetLocalTSBInjection, AppGoto, ReaderTypes
  <2> QED BY <1>9, <2>1 DEF SetLocalTSBInjection, AppAt, Injects, ReaderSteps, dataVars,
                            readVars, Entered
<1>10. CASE StartFromAampLocalTsb
  <2>1. /\ app'.at = "idle" /\ tsbReader'.at = "loop"
        /\ \A t \in Tracks : injected'[t] = Nothing
    BY <1>10 DEF StartFromAampLocalTsb, AppGoto, ReaderTypes
  <2> QED BY <1>10, <2>1 DEF StartFromAampLocalTsb, AppAt, Starts, ReaderSteps, dataVars,
                             Entered
<1> QED
  BY <1>1, <1>2, <1>3, <1>4, <1>5, <1>6, <1>7, <1>8, <1>9, <1>10, ReadCases,
     FetchesStep, FailedStep, PushesStep DEF ReaderSteps

(* Where the thread of the reader can be.                                  *)
LEMMA PushingIs ==
  ASSUME ReaderTypes, NEW t \in Tracks
  PROVE  Pushing(t) <=> tsbReader.at \in {"init", "media", "cache"} /\ tsbReader.track = t
  BY DEF Pushing, ReaderAt, ReaderTypes

LEMMA AppInvStep ==
  ASSUME SideTypes, ReaderTypes, ReaderTypes', AppInv, ReaderSteps
  PROVE  AppInv'
<1>0. /\ \A t \in Tracks : Pushing(t) <=> tsbReader.at \in {"init", "media", "cache"}
                                          /\ tsbReader.track = t
      /\ \A t \in Tracks : Pushing(t)' <=> tsbReader'.at \in {"init", "media", "cache"}
                                           /\ tsbReader'.track = t
  <2>1. ASSUME NEW t \in Tracks
        PROVE  Pushing(t)' <=> tsbReader'.at \in {"init", "media", "cache"}
                               /\ tsbReader'.track = t
    BY DEF Pushing, ReaderAt, ReaderTypes
  <2> QED BY <2>1, PushingIs
<1>1. ASSUME NEW t \in Tracks, Fetches(t) \/ Pushes(t) PROVE AppInv'
  <2>1. UNCHANGED <<reader, tsbReader, app, mTuneType, mActiveTuneType>>
    BY <1>1 DEF Fetches, Pushes, tunes
  <2> QED BY <1>0, <2>1 DEF AppInv, Fresh
<1>2. ASSUME NEW t \in Tracks, Reads(t) PROVE AppInv'
  <2>1. /\ tsbReader.at = "loop" /\ UNCHANGED <<app, mTuneType, mActiveTuneType>>
        /\ reader'[t].enabled /\ ~reader'[t].first
        /\ \A u \in Tracks \ {t} : ~Pushing(u)'
    BY <1>2 DEF Reads, ReadsNext, tunes
  <2>2. app.at \notin {"invoke", "inject", "start"}
    BY <2>1 DEF AppInv
  <2> QED BY <2>1, <2>2 DEF AppInv
<1>3. ASSUME NEW t \in Tracks, ReadsInit(t) \/ ReadsMedia(t) PROVE AppInv'
  <2>1. /\ tsbReader.at \in {"init", "media"} /\ tsbReader.track = t
        /\ tsbReader'.track = t /\ UNCHANGED <<reader, app, mTuneType, mActiveTuneType>>
    BY <1>3 DEF ReadsInit, ReadsMedia, ReaderAt, tunes
  <2>2. app.at \notin {"invoke", "inject", "start"}
    BY <2>1 DEF AppInv
  <2> QED BY <1>0, <2>1, <2>2 DEF AppInv
<1>4. ASSUME NEW t \in Tracks, Caches(t) PROVE AppInv'
  <2>1. /\ tsbReader.at = "cache" /\ tsbReader'.at = "loop"
        /\ UNCHANGED <<app, mTuneType, mActiveTuneType>>
    BY <1>4 DEF Caches, ReaderAt, tunes
  <2>2. app.at \notin {"invoke", "inject", "start"}
    BY <2>1 DEF AppInv
  <2> QED BY <1>0, <2>1, <2>2 DEF AppInv
<1>5. CASE OnlyLess
  BY <1>0, <1>5 DEF OnlyLess, seenVars, AppInv, Fresh
<1>6. CASE AddSeen
  <2>1. UNCHANGED <<tsbReader, app, mTuneType, mActiveTuneType>>
    BY <1>6 DEF AddSeen
  <2>2. ASSUME NEW t \in Tracks
        PROVE  /\ reader'[t].enabled = reader[t].enabled
               /\ reader'[t].first = reader[t].first
               /\ Fresh(t) => Fresh(t)'
    <3>1. reader[t] \in ReaderState /\ AddedTo(t)
      BY <1>6 DEF AddSeen, ReaderTypes
    <3> QED BY <3>1 DEF AddedTo, ReaderState, Fresh
  <2> QED BY <1>0, <2>1, <2>2 DEF AppInv
<1>7. CASE Exits \/ Seeks \/ Joins
  BY <1>0, <1>7 DEF Exits, Seeks, Joins, AppInv, tunes, Fresh, ReaderTypes
<1>8. CASE Invokes
  BY <1>0, <1>8 DEF Invokes, AppInv
<1>9. CASE Injects \/ Starts
  BY <1>0, <1>9 DEF Injects, Starts, AppInv, Fresh
<1> QED BY <1>1, <1>2, <1>3, <1>4, <1>5, <1>6, <1>7, <1>8, <1>9 DEF ReaderSteps

(* What the reader does not find has been culled.                          *)
LEMMA NotFound ==
  ASSUME SideTypes, DataInv, NEW t \in Tracks, NEW i \in Nodes(t)
  PROVE  /\ Media(t, Node(t, i).pos) \notin store => i <= culled[t]
         /\ Node(t, i).init \notin store => i <= culled[t] \/ t \in emptied
<1>1. i \in Nat /\ culled[t] \in Nat /\ (i \in Stored(t) \/ i <= culled[t])
  BY NodeType DEF Nodes, Stored, SideTypes
<1> QED BY <1>1 DEF DataInv, KeptInv

EndOf(t) ==
  reader[t].eos =>
    /\ mActiveTuneType = "SEEK" => reader[t].cur = Len(mTsbFragmentData[t])
    /\ Pushing(t) \/ reader[t].endInjected
                  \/ reader[t].cur <= culled[t] \/ t \in emptied

DoneAfter(t) ==
  tsbReader.at # "off" /\ mActiveTuneType = "SEEKTOLIVE" /\ reader[t].endInjected
    => reader[t].eos /\ ~Pushing(t)

LEMMA EndIs == EndInv <=> \A t \in Tracks : EndOf(t) /\ DoneAfter(t)
  BY DEF EndInv, EosIsTheEnd, EndOf, DoneAfter

LEMMA EndInvStep ==
  ASSUME SideTypes, DataInv, ReaderTypes, ReaderTypes', AppInv, EndInv, ReaderSteps
  PROVE  EndInv'
<1>0. /\ \A t \in Tracks : Pushing(t) <=> tsbReader.at \in {"init", "media", "cache"}
                                          /\ tsbReader.track = t
      /\ \A t \in Tracks : Pushing(t)' <=> tsbReader'.at \in {"init", "media", "cache"}
                                           /\ tsbReader'.track = t
  <2>1. ASSUME NEW t \in Tracks
        PROVE  Pushing(t)' <=> tsbReader'.at \in {"init", "media", "cache"}
                               /\ tsbReader'.track = t
    BY DEF Pushing, ReaderAt, ReaderTypes
  <2> QED BY <2>1, PushingIs
<1> SUFFICES ASSUME NEW u \in Tracks
             PROVE  EndOf(u)' /\ DoneAfter(u)'
  BY DEF EndInv, EosIsTheEnd, EndOf, DoneAfter
<1>a. EndOf(u) /\ DoneAfter(u)
  BY EndIs
<1>b. reader[u] \in ReaderState /\ culled[u] \in Nat /\ Len(mTsbFragmentData[u]) \in Nat
  BY NodeType DEF ReaderTypes, SideTypes
<1>1. ASSUME NEW t \in Tracks, Fetches(t) \/ Pushes(t) PROVE EndOf(u)' /\ DoneAfter(u)'
  <2>1. UNCHANGED <<reader, tsbReader, mActiveTuneType, mTsbFragmentData, culled, emptied>>
    BY <1>1 DEF Fetches, Pushes, tunes, Entered
  <2> QED BY <1>0, <1>a, <2>1 DEF EndOf, DoneAfter
<1>2. ASSUME NEW t \in Tracks, Reads(t) PROVE EndOf(u)' /\ DoneAfter(u)'
  <2>1. UNCHANGED <<mActiveTuneType, mTsbFragmentData, culled, emptied>> /\ ReadsNext(t)
    BY <1>2 DEF Reads, tunes, Entered
  <2>2. CASE u = t
    <3>1. /\ reader'[u].eos => reader'[u].cur = Len(mTsbFragmentData[u])
          /\ Pushing(u)' /\ tsbReader.at = "loop" /\ ~reader[u].eos
          /\ reader'[u].endInjected = reader[u].endInjected
      BY <2>1, <2>2 DEF ReadsNext
    <3>2. EndOf(u)'
      BY <2>1, <3>1 DEF EndOf
    <3>3. DoneAfter(u)'
      BY <1>a, <2>1, <3>1 DEF DoneAfter
    <3> QED BY <3>2, <3>3
  <2>3. CASE u # t
    <3>1. reader'[u] = reader[u] /\ ~Pushing(u) /\ ~Pushing(u)' /\ tsbReader.at = "loop"
      BY <2>1, <2>3 DEF ReadsNext
    <3> QED BY <1>a, <2>1, <3>1 DEF EndOf, DoneAfter
  <2> QED BY <2>2, <2>3
<1>3. ASSUME NEW t \in Tracks, ReadsInit(t) \/ ReadsMedia(t) PROVE EndOf(u)' /\ DoneAfter(u)'
  <2>1. /\ UNCHANGED <<reader, mActiveTuneType, mTsbFragmentData, culled, emptied>>
        /\ tsbReader.at \in {"init", "media"} /\ tsbReader.track = t /\ tsbReader'.track = t
        /\ reader[t].cur \in Nodes(t)
        /\ \/ tsbReader'.at \in {"media", "cache"}
           \/ Media(t, Node(t, reader[t].cur).pos) \notin store
           \/ Node(t, reader[t].cur).init \notin store
    BY <1>3 DEF ReadsInit, ReadsMedia, ReaderAt, tunes, Entered
  <2>2. tsbReader'.at \in {"media", "cache"} \/ reader[t].cur <= culled[t] \/ t \in emptied
    BY <2>1, NotFound
  <2>3. Pushing(u)' => Pushing(u)
    BY <1>0, <2>1
  <2>4. Pushing(u) => Pushing(u)' \/ reader[u].cur <= culled[u] \/ u \in emptied
    BY <1>0, <2>1, <2>2
  <2> QED BY <1>a, <2>1, <2>3, <2>4 DEF EndOf, DoneAfter
<1>4. ASSUME NEW t \in Tracks, Caches(t) PROVE EndOf(u)' /\ DoneAfter(u)'
  <2>1. /\ UNCHANGED <<mActiveTuneType, mTsbFragmentData, culled, emptied>>
        /\ tsbReader.at = "cache" /\ tsbReader.track = t /\ tsbReader'.at = "loop"
        /\ \A v \in Tracks \ {t} : reader'[v] = reader[v]
        /\ reader'[t].cur = reader[t].cur /\ reader'[t].eos = reader[t].eos
        /\ reader'[t].endInjected <=> reader[t].endInjected \/ reader[t].eos
    BY <1>4 DEF Caches, ReaderAt, tunes, Entered
  <2>2. CASE u = t
    BY <1>0, <1>a, <2>1, <2>2 DEF EndOf, DoneAfter
  <2>3. CASE u # t
    BY <1>0, <1>a, <2>1, <2>3 DEF EndOf, DoneAfter
  <2> QED BY <2>2, <2>3
<1>5. CASE OnlyLess
  <2>1. /\ UNCHANGED <<reader, tsbReader, mActiveTuneType, mTsbFragmentData>>
        /\ culled'[u] \in Nat /\ culled'[u] >= culled[u] /\ emptied \subseteq emptied'
    BY <1>5 DEF OnlyLess, seenVars
  <2>2. reader[u].cur <= culled[u] => reader[u].cur <= culled'[u]
    BY <1>b, <2>1 DEF ReaderState
  <2> QED BY <1>0, <1>a, <2>1, <2>2 DEF EndOf, DoneAfter
<1>6. CASE AddSeen
  <2>1. UNCHANGED <<tsbReader, mActiveTuneType, culled, emptied>> /\ AddedTo(u)
    BY <1>6 DEF AddSeen
  <2>2. /\ reader'[u].cur = reader[u].cur /\ reader'[u].endInjected = reader[u].endInjected
        /\ \/ reader'[u].eos = reader[u].eos
           \/ ~reader'[u].eos /\ mActiveTuneType # "SEEKTOLIVE"
        /\ \/ Len(mTsbFragmentData'[u]) = Len(mTsbFragmentData[u])
           \/ mActiveTuneType = "SEEKTOLIVE" \/ ~reader'[u].eos
    BY <1>b, <2>1 DEF AddedTo, ReaderState
  <2> QED BY <1>0, <1>a, <2>1, <2>2 DEF EndOf, DoneAfter
<1>7. CASE Exits \/ Seeks \/ Joins
  <2>1. /\ UNCHANGED <<reader, mActiveTuneType, mTsbFragmentData, culled, emptied>>
        /\ tsbReader'.at \in {"off", tsbReader.at}
        /\ Pushing(u) <=> Pushing(u)'
    BY <1>0, <1>7 DEF Exits, Seeks, Joins, tunes, Entered
  <2> QED BY <1>a, <2>1 DEF EndOf, DoneAfter
<1>8. CASE Invokes
  BY <1>8 DEF Invokes, Fresh, EndOf, DoneAfter
<1>9. CASE Injects \/ Starts
  <2>1. UNCHANGED reader /\ Fresh(u)
    BY <1>9 DEF Injects, Starts, AppInv
  <2> QED BY <2>1 DEF EndOf, DoneAfter, Fresh
<1> QED BY <1>1, <1>2, <1>3, <1>4, <1>5, <1>6, <1>7, <1>8, <1>9 DEF ReaderSteps

LEMMA OwnerInvStep ==
  ASSUME SideTypes, ReaderTypes, ReaderTypes', AppInv, OwnerInv, ReaderSteps
  PROVE  OwnerInv'
<1> DEFINE Owns(t) ==
      /\ At(t, "wait") => reader[t].eos /\ mActiveTuneType = "SEEKTOLIVE"
      /\ At(t, "push") => t \notin mIsLocalTSBInjection
      /\ t \notin mIsLocalTSBInjection =>
           reader[t].endInjected /\ mActiveTuneType = "SEEKTOLIVE"
<1>0. overtaken \in BOOLEAN
  BY DEF ReaderTypes
<1>1. ASSUME NEW t \in Tracks, Fetches(t) PROVE OwnerInv'
  <2>1. UNCHANGED <<reader, tsbReader, overtaken, app, mTuneType, mActiveTuneType>>
    BY <1>1 DEF Fetches, tunes
  <2>2. ASSUME app.at = "start", ~overtaken
        PROVE  mIsLocalTSBInjection' = Tracks /\ \A u \in Tracks : At(u, "download")'
    <3>1. /\ mIsLocalTSBInjection = Tracks /\ \A u \in Tracks : At(u, "download")
          /\ ~reader[t].eos
      BY <2>2 DEF OwnerInv, AppInv, Fresh
    <3>2. ~CheckEos(t) /\ ~At(t, "wait")
      BY <3>1 DEF CheckEos, At
    <3>3. mIsLocalTSBInjection' = Tracks /\ downloader'[t].at = "download"
      BY <1>1, <3>1, <3>2 DEF Fetches
    <3> QED BY <1>1, <3>1, <3>3 DEF Fetches, At
  <2>3. ASSUME tsbReader.at # "off", ~overtaken, NEW u \in Tracks PROVE Owns(u)'
    <3>1. Owns(u) /\ Owns(t) /\ mTuneType = mActiveTuneType
      BY <2>3 DEF OwnerInv, AppInv
    <3>2. CASE u = t
      BY <1>1, <2>1, <3>1, <3>2 DEF Fetches, CheckEos, At
    <3>3. CASE u # t
      BY <1>1, <2>1, <3>1, <3>3 DEF Fetches, At
    <3> QED BY <3>2, <3>3
  <2> QED BY <2>1, <2>2, <2>3 DEF OwnerInv
<1>2. ASSUME NEW t \in Tracks, Pushes(t) PROVE OwnerInv'
  <2>1. /\ UNCHANGED <<reader, tsbReader, overtaken, app, mActiveTuneType,
                       mIsLocalTSBInjection>>
        /\ \A u \in Tracks \ {t} : downloader'[u] = downloader[u]
        /\ At(t, "download")'
    BY <1>2 DEF Pushes, tunes
  <2> QED BY <2>1 DEF OwnerInv, At
<1>3. ASSUME UNCHANGED <<downloader, overtaken, app, mActiveTuneType,
                         mIsLocalTSBInjection>>,
             tsbReader'.at # "off" => tsbReader.at # "off",
             \A t \in Tracks :
               /\ reader[t].eos => \/ reader'[t].eos
                                   \/ mActiveTuneType # "SEEKTOLIVE"
               /\ reader[t].endInjected => reader'[t].endInjected
      PROVE  OwnerInv'
  BY <1>3 DEF OwnerInv, At
<1>4. ASSUME NEW t \in Tracks, Reads(t) PROVE OwnerInv'
  <2>1. /\ UNCHANGED <<downloader, overtaken, app, mActiveTuneType, mIsLocalTSBInjection>>
        /\ tsbReader.at = "loop" /\ ~reader[t].eos
        /\ reader'[t].endInjected = reader[t].endInjected
        /\ \A u \in Tracks \ {t} : reader'[u] = reader[u]
    BY <1>4 DEF Reads, ReadsNext, tunes
  <2> QED BY <1>3, <2>1
<1>5. ASSUME NEW t \in Tracks, ReadsInit(t) \/ ReadsMedia(t) PROVE OwnerInv'
  <2>1. /\ UNCHANGED <<downloader, overtaken, app, mActiveTuneType, mIsLocalTSBInjection,
                       reader>>
        /\ tsbReader.at \in {"init", "media"}
    BY <1>5 DEF ReadsInit, ReadsMedia, ReaderAt, tunes
  <2> QED BY <1>3, <2>1
<1>6. ASSUME NEW t \in Tracks, Caches(t) PROVE OwnerInv'
  <2>1. /\ UNCHANGED <<downloader, overtaken, app, mActiveTuneType, mIsLocalTSBInjection>>
        /\ tsbReader.at = "cache" /\ reader'[t].eos = reader[t].eos
        /\ reader'[t].endInjected <=> reader[t].endInjected \/ reader[t].eos
        /\ \A u \in Tracks \ {t} : reader'[u] = reader[u]
    BY <1>6 DEF Caches, ReaderAt, tunes
  <2> QED BY <1>3, <2>1
<1>7. CASE OnlyLess
  BY <1>3, <1>7 DEF OnlyLess, seenVars
<1>8. CASE AddSeen
  <2>1. UNCHANGED <<downloader, tsbReader, overtaken, app, mActiveTuneType,
                    mIsLocalTSBInjection>>
    BY <1>8 DEF AddSeen
  <2>2. ASSUME NEW t \in Tracks
        PROVE  /\ reader[t].eos => reader'[t].eos \/ mActiveTuneType # "SEEKTOLIVE"
               /\ reader[t].endInjected => reader'[t].endInjected
    <3>1. reader[t] \in ReaderState /\ AddedTo(t)
      BY <1>8 DEF AddSeen, ReaderTypes
    <3> QED BY <3>1 DEF AddedTo, ReaderState
  <2> QED BY <1>3, <2>1, <2>2
<1>9. CASE Exits
  BY <1>3, <1>9 DEF Exits, tunes
<1>10. CASE Seeks
  BY <1>10 DEF Seeks, OwnerInv, At
<1>11. CASE Joins \/ Invokes
  BY <1>11 DEF Joins, Invokes, OwnerInv, AppInv
<1>12. CASE Injects
  BY <1>12 DEF Injects, OwnerInv, AppInv, Overtakes, At
<1>13. CASE Starts
  BY <1>13 DEF Starts, OwnerInv, Overtakes, At
<1> QED BY <1>1, <1>2, <1>4, <1>5, <1>6, <1>7, <1>8, <1>9, <1>10, <1>11, <1>12, <1>13
        DEF ReaderSteps

(* The parts of the last two invariants that concern one track.            *)
PushedOf(t) ==
  tsbReader.at # "off" /\ t \notin emptied /\ ~overtaken =>
    /\ Pushing(t) => reader[t].lastInit = Node(t, reader[t].cur).init
    /\ InitIsPushed(t)

RingOf(t) ==
  ~overtaken =>
    /\ injected[t].pos < downloader[t].pos
    /\ ~At(t, "download") /\ ~IsInit(downloader[t].item) =>
         injected[t].pos < downloader[t].item.pos
    /\ tsbReader.at # "off" /\ reader[t].enabled => NextIsLater(t)

(* Seen from one track, the other may do what it likes.                    *)
LEMMA PushedOther ==
  ASSUME NEW u \in Tracks, PushedOf(u), UNCHANGED <<overtaken, Entered>>,
         reader'[u] = reader[u], injected'[u] = injected[u],
         u \in mIsLocalTSBInjection' => u \in mIsLocalTSBInjection,
         ReaderAt(u, "init") => ReaderAt(u, "init")', Pushing(u)' => Pushing(u),
         tsbReader'.at # "off" => tsbReader.at # "off"
  PROVE  PushedOf(u)'
<1>1. Stored(u)' = Stored(u) /\ UNCHANGED <<mTsbFragmentData, mCurrentInitData, emptied>>
  BY DEF Entered, Stored
<1>2. InitIsPushed(u) => InitIsPushed(u)'
  BY <1>1 DEF InitIsPushed, Node
<1> QED BY <1>1, <1>2 DEF PushedOf, Node

LEMMA PushedInvStep ==
  ASSUME SideTypes, DataInv, ReaderTypes, ReaderTypes', AppInv, OwnerInv, PushedInv,
         ReaderSteps
  PROVE  PushedInv'
<1>0. /\ \A t \in Tracks : Pushing(t) <=> tsbReader.at \in {"init", "media", "cache"}
                                          /\ tsbReader.track = t
      /\ \A t \in Tracks : Pushing(t)' <=> tsbReader'.at \in {"init", "media", "cache"}
                                           /\ tsbReader'.track = t
      /\ \A t \in Tracks : ReaderAt(t, "init") <=> tsbReader.at = "init"
                                                   /\ tsbReader.track = t
      /\ \A t \in Tracks : ReaderAt(t, "init")' <=> tsbReader'.at = "init"
                                                    /\ tsbReader'.track = t
  <2>1. ASSUME NEW t \in Tracks
        PROVE  /\ Pushing(t)' <=> tsbReader'.at \in {"init", "media", "cache"}
                                  /\ tsbReader'.track = t
               /\ ReaderAt(t, "init")' <=> tsbReader'.at = "init" /\ tsbReader'.track = t
               /\ ReaderAt(t, "init") <=> tsbReader.at = "init" /\ tsbReader.track = t
    BY DEF Pushing, ReaderAt, ReaderTypes
  <2> QED BY <2>1, PushingIs
<1> SUFFICES ASSUME NEW u \in Tracks
             PROVE  PushedOf(u)'
  BY DEF PushedInv, PushedOf
<1>a. PushedOf(u)
  BY DEF PushedInv, PushedOf
<1>b. /\ reader[u] \in ReaderState /\ mCurrentInitData[u].pos \in Nat
      /\ \A i \in Nodes(u) : Node(u, i).init \in InitSegments
      /\ Stored(u) \subseteq Nodes(u)
      /\ reader[u].lastInit.pos \in Nat
  <2>1. reader[u].lastInit \in InitSegments \cup {NoItem} /\ NoItem.pos = 0
    BY DEF ReaderTypes, ReaderState, NoItem
  <2>2. reader[u].lastInit.pos \in Nat
    BY <2>1, InitType
  <2> QED BY <2>2, NodeType, StoredType DEF ReaderTypes, SideTypes
<1>1. ASSUME NEW t \in Tracks, Fetches(t) PROVE PushedOf(u)'
  <2>1. /\ UNCHANGED <<overtaken, Entered, reader, injected, tsbReader>>
        /\ u \in mIsLocalTSBInjection' => u \in mIsLocalTSBInjection
    BY <1>1 DEF Fetches
  <2> QED BY <1>0, <1>a, <2>1, PushedOther
<1>2. ASSUME NEW t \in Tracks, Pushes(t) PROVE PushedOf(u)'
  <2>1. /\ UNCHANGED <<overtaken, Entered, reader, tsbReader, mIsLocalTSBInjection>>
        /\ At(t, "push") /\ (u # t => injected'[u] = injected[u])
    BY <1>2 DEF Pushes
  <2>2. CASE u = t /\ tsbReader.at # "off" /\ ~overtaken
    <3>1. u \notin mIsLocalTSBInjection
      BY <2>1, <2>2 DEF OwnerInv
    <3> QED BY <1>0, <1>a, <2>1, <3>1 DEF PushedOf, InitIsPushed, Entered, Node
  <2>3. CASE u = t /\ ~(tsbReader.at # "off" /\ ~overtaken)
    BY <2>1, <2>3 DEF PushedOf
  <2>4. CASE u # t
    BY <1>0, <1>a, <2>1, <2>4, PushedOther
  <2> QED BY <2>2, <2>3, <2>4
<1>3. ASSUME NEW t \in Tracks, Reads(t) PROVE PushedOf(u)'
  <2>1. /\ UNCHANGED <<overtaken, Entered, injected, mIsLocalTSBInjection>>
        /\ ReadsNext(t) /\ tsbReader.at = "loop"
    BY <1>3 DEF Reads, ReadsNext
  <2>2. CASE u # t
    <3>1. reader'[u] = reader[u] /\ ~Pushing(u)'
      BY <2>1, <2>2 DEF ReadsNext
    <3>2. ~ReaderAt(u, "init") /\ ~ReaderAt(u, "init")'
      BY <1>0, <2>1, <3>1
    <3> QED BY <1>a, <2>1, <3>1, <3>2, PushedOther
  <2>3. CASE u = t
    <3>1. PICK n : n = FindNext(t)
      OBVIOUS
    <3>2. /\ reader'[u].cur = n /\ reader'[u].lastInit = Node(u, n).init
          /\ \/ tsbReader' = [at |-> "init", track |-> u]
             \/ reader[u].lastInit = Node(u, n).init
      BY <2>1, <2>3, <3>1 DEF ReadsNext
    <3>3. UNCHANGED <<mTsbFragmentData, mCurrentInitData, emptied>> /\ Stored(u)' = Stored(u)
      BY <2>1 DEF Entered, Stored
    <3>4. Node(u, n) = mTsbFragmentData'[u][n]
      BY <3>3 DEF Node
    <3>5. CASE tsbReader' = [at |-> "init", track |-> u]
      <4>1. ReaderAt(u, "init")'
        BY <3>5 DEF ReaderAt
      <4> QED BY <3>2, <3>4, <4>1 DEF PushedOf, InitIsPushed, Node
    <3>6. CASE reader[u].lastInit = Node(u, n).init
      <4>1. reader'[u].lastInit = reader[u].lastInit /\ ~ReaderAt(u, "init")
        BY <1>0, <2>1, <3>2, <3>6
      <4>2. InitIsPushed(u) => InitIsPushed(u)'
        BY <2>1, <3>3, <4>1 DEF InitIsPushed, Node
      <4> QED BY <1>a, <2>1, <3>2, <3>3, <3>4, <4>2 DEF PushedOf, Node
    <3> QED BY <3>2, <3>5, <3>6
  <2> QED BY <2>2, <2>3
<1>4. ASSUME NEW t \in Tracks, ReadsInit(t) PROVE PushedOf(u)'
  <2>1. /\ UNCHANGED <<overtaken, Entered, reader, mIsLocalTSBInjection>>
        /\ ReaderAt(t, "init") /\ tsbReader.at = "init" /\ tsbReader.track = t
        /\ tsbReader'.at \in {"media", "loop"} /\ tsbReader'.track = t
        /\ u # t => injected'[u] = injected[u]
    BY <1>4 DEF ReadsInit, ReaderAt
  <2>2. CASE u # t
    BY <1>0, <1>a, <2>1, <2>2, PushedOther
  <2>3. CASE u = t /\ u \notin emptied /\ ~overtaken
    <3>1. PICK c \in Nodes(u) : c = reader[u].cur
      BY <1>4, <2>3 DEF ReadsInit
    <3>2. /\ Pushing(u) /\ reader[u].lastInit = Node(u, c).init
          /\ \/ injected'[u].init = Node(u, c).init
             \/ Node(u, c).init \notin store
      BY <1>0, <1>4, <1>a, <2>1, <2>3, <3>1 DEF PushedOf, ReadsInit
    <3>3. UNCHANGED <<mTsbFragmentData, mCurrentInitData, emptied>> /\ Stored(u)' = Stored(u)
      BY <2>1 DEF Entered, Stored
    <3>4. CASE injected'[u].init = Node(u, c).init
      BY <2>1, <3>1, <3>2, <3>3, <3>4 DEF PushedOf, InitIsPushed, Node
    <3>5. CASE Node(u, c).init \notin store
      <4>1. /\ \A i \in Stored(u) : Node(u, i).init \in store
            /\ mCurrentInitData[u] # NoItem => mCurrentInitData[u] \in store
            /\ Node(u, c).init.pos <= Node(u, c).pos
            /\ mCurrentInitData[u].pos <= Node(u, c).pos =>
                 Node(u, c).init = mCurrentInitData[u]
        BY <2>3 DEF DataInv, KeptInv, NodeInv
      <4>2. /\ Node(u, c).init.pos \in Nat /\ Node(u, c).pos \in Nat
            /\ Node(u, c).init # NoItem
        BY <1>b, NodeType, InitType DEF SideTypes
      <4>3. /\ Node(u, c).init.pos < mCurrentInitData[u].pos
            /\ \A i \in Stored(u) : Node(u, i).init # Node(u, c).init
        BY <1>b, <3>5, <4>1, <4>2
      <4> QED BY <2>1, <3>1, <3>2, <3>3, <4>3 DEF PushedOf, InitIsPushed, Node
    <3> QED BY <3>2, <3>4, <3>5
  <2>4. CASE u = t /\ (u \in emptied \/ overtaken)
    BY <2>1, <2>4 DEF PushedOf, Entered
  <2> QED BY <2>2, <2>3, <2>4
<1>5. ASSUME NEW t \in Tracks, ReadsMedia(t) PROVE PushedOf(u)'
  <2>1. /\ UNCHANGED <<overtaken, Entered, reader, injected, mIsLocalTSBInjection>>
        /\ tsbReader.at = "media" /\ tsbReader.track = t
        /\ tsbReader'.at \in {"cache", "loop"} /\ tsbReader'.track = t
    BY <1>5 DEF ReadsMedia, ReaderAt
  <2> QED BY <1>0, <1>a, <2>1, PushedOther
<1>6. ASSUME NEW t \in Tracks, Caches(t) PROVE PushedOf(u)'
  <2>1. /\ UNCHANGED <<overtaken, Entered, mIsLocalTSBInjection>>
        /\ tsbReader.at = "cache" /\ tsbReader.track = t /\ tsbReader'.at = "loop"
        /\ reader'[u].lastInit = reader[u].lastInit
        /\ injected'[u].init = injected[u].init
    BY <1>6 DEF Caches, ReaderAt
  <2>2. UNCHANGED <<mTsbFragmentData, mCurrentInitData, emptied>> /\ Stored(u)' = Stored(u)
    BY <2>1 DEF Entered, Stored
  <2>3. InitIsPushed(u) => InitIsPushed(u)'
    BY <1>0, <2>1, <2>2 DEF InitIsPushed, Node
  <2> QED BY <1>0, <1>a, <2>1, <2>2, <2>3 DEF PushedOf
<1>7. CASE OnlyLess
  <2>1. /\ UNCHANGED <<overtaken, mTsbFragmentData, mCurrentInitData, reader, injected,
                       tsbReader, mIsLocalTSBInjection>>
        /\ Stored(u)' \subseteq Stored(u) /\ emptied \subseteq emptied'
    BY <1>7 DEF OnlyLess, seenVars
  <2>2. InitIsPushed(u) => InitIsPushed(u)'
    BY <1>0, <2>1 DEF InitIsPushed, Node
  <2> QED BY <1>0, <1>a, <2>1, <2>2 DEF PushedOf, Node
<1>8. CASE AddSeen
  <2>1. /\ UNCHANGED <<overtaken, emptied, injected, tsbReader, mIsLocalTSBInjection>>
        /\ AddedTo(u)
    BY <1>8 DEF AddSeen
  <2>2. /\ reader'[u].cur = reader[u].cur /\ reader'[u].lastInit = reader[u].lastInit
        /\ mCurrentInitData'[u].pos \in Nat
        /\ mCurrentInitData[u].pos <= mCurrentInitData'[u].pos
        /\ \A i \in Stored(u)' : i \in Stored(u) \/ Node(u, i)'.init = mCurrentInitData[u]
        /\ \A i \in Nodes(u) : Node(u, i)' = Node(u, i)
    BY <1>b, <2>1 DEF AddedTo, ReaderState
  <2>3. InitIsPushed(u) => InitIsPushed(u)'
    <3>1. PICK l : l = reader[u].lastInit
      OBVIOUS
    <3>2. ASSUME l.pos < mCurrentInitData[u].pos, \A i \in Stored(u) : Node(u, i).init # l,
                 NEW i \in Stored(u)'
          PROVE  Node(u, i)'.init # l
      <4>1. CASE i \in Stored(u)
        BY <1>b, <2>2, <3>2, <4>1
      <4>2. CASE Node(u, i)'.init = mCurrentInitData[u]
        BY <1>b, <3>1, <3>2, <4>2
      <4> QED BY <2>2, <4>1, <4>2
    <3>3. l.pos < mCurrentInitData[u].pos => l.pos < mCurrentInitData'[u].pos
      BY <1>b, <2>2, <3>1
    <3> QED BY <1>0, <2>1, <2>2, <3>1, <3>2, <3>3 DEF InitIsPushed
  <2>4. Pushing(u) => reader[u].cur \in Nodes(u)
    <3>1. /\ Pushing(u) => reader[u].cur > 0
          /\ reader[u].cur <= Len(mTsbFragmentData[u]) /\ Len(mTsbFragmentData[u]) \in Nat
      BY NodeType DEF ReaderTypes, SideTypes
    <3> QED BY <1>b, <3>1 DEF Nodes, ReaderState
  <2>5. Pushing(u) => mTsbFragmentData'[u][reader[u].cur] = Node(u, reader[u].cur)
    <3>1. PICK c : c = reader[u].cur
      OBVIOUS
    <3> QED BY <2>2, <2>4, <3>1 DEF Node
  <2> QED BY <1>0, <1>a, <2>1, <2>2, <2>3, <2>5 DEF PushedOf, Node
<1>9. CASE Exits
  BY <1>9 DEF Exits, PushedOf
<1>10. CASE Seeks
  <2>1. UNCHANGED <<overtaken, Entered, reader, injected, tsbReader, mIsLocalTSBInjection>>
    BY <1>10 DEF Seeks
  <2> QED BY <1>0, <1>a, <2>1, PushedOther
<1>11. CASE Joins \/ Invokes \/ Injects
  BY <1>11 DEF Joins, Invokes, Injects, AppInv, PushedOf
<1>12. CASE Starts
  <2>1. UNCHANGED reader /\ tsbReader'.at = "loop" /\ Fresh(u)
    BY <1>12 DEF Starts, AppInv
  <2> QED BY <1>0, <2>1 DEF PushedOf, InitIsPushed, Fresh
<1> QED BY <1>1, <1>2, <1>3, <1>4, <1>5, <1>6, <1>7, <1>8, <1>9, <1>10, <1>11, <1>12
        DEF ReaderSteps

(* The same for the order in the ring.                                     *)
LEMMA RingOther ==
  ASSUME NEW u \in Tracks, RingOf(u), UNCHANGED <<overtaken, mTsbFragmentData>>,
         reader'[u].enabled = reader[u].enabled, reader'[u].cur = reader[u].cur,
         reader'[u].first = reader[u].first,
         injected'[u] = injected[u], injected[u].pos < downloader'[u].pos,
         downloader'[u].at # "download" /\ ~IsInit(downloader'[u].item) =>
           injected[u].pos < downloader'[u].item.pos,
         u \in mIsLocalTSBInjection' => u \in mIsLocalTSBInjection,
         Pushing(u)' <=> Pushing(u),
         tsbReader'.at # "off" => tsbReader.at # "off"
  PROVE  RingOf(u)'
<1>1. NextIsLater(u) => NextIsLater(u)'
  BY DEF NextIsLater, Node
<1> QED BY <1>1 DEF RingOf, At

LEMMA RingInvStep ==
  ASSUME SideTypes, SideTypes', DataInv, ReaderTypes, ReaderTypes', AppInv, EndInv,
         OwnerInv, RingInv, ReaderSteps
  PROVE  RingInv'
<1>0. /\ \A t \in Tracks : Pushing(t) <=> tsbReader.at \in {"init", "media", "cache"}
                                          /\ tsbReader.track = t
      /\ \A t \in Tracks : Pushing(t)' <=> tsbReader'.at \in {"init", "media", "cache"}
                                           /\ tsbReader'.track = t
  <2>1. ASSUME NEW t \in Tracks
        PROVE  Pushing(t)' <=> tsbReader'.at \in {"init", "media", "cache"}
                               /\ tsbReader'.track = t
    BY DEF Pushing, ReaderAt, ReaderTypes
  <2> QED BY <2>1, PushingIs
<1> SUFFICES ASSUME NEW u \in Tracks, ~overtaken'
             PROVE  RingOf(u)'
  BY DEF RingInv, RingOf
<1>a. RingOf(u)
  BY DEF RingInv, RingOf
<1>b. /\ reader[u] \in ReaderState /\ injected[u] \in Pushed
      /\ downloader[u].pos \in Nat \ {0} /\ downloader'[u].pos \in Nat
      /\ injected[u].pos \in Nat
      /\ \A i \in Nodes(u) : Node(u, i).pos \in Nat
  BY NodeType DEF ReaderTypes, SideTypes, DownloaderTypes, DownloaderState, Pushed
<1>c. ASSUME UNCHANGED overtaken
      PROVE  /\ injected[u].pos < downloader[u].pos
             /\ downloader[u].at # "download" /\ ~IsInit(downloader[u].item) =>
                  injected[u].pos < downloader[u].item.pos
  BY <1>a, <1>c DEF RingOf, At
<1>1. ASSUME NEW t \in Tracks, Fetches(t) PROVE RingOf(u)'
  <2>1. /\ UNCHANGED <<overtaken, mTsbFragmentData, reader, injected, tsbReader>>
        /\ u \in mIsLocalTSBInjection' => u \in mIsLocalTSBInjection
        /\ u # t => downloader'[u] = downloader[u]
        /\ downloader[t].pos <= downloader'[t].pos
        /\ downloader'[t].at # "download" /\ ~IsInit(downloader'[t].item) =>
             \/ downloader'[t].item.pos = downloader[t].pos
             \/ At(t, "wait") /\ downloader'[t].item = downloader[t].item
    BY <1>1 DEF Fetches, Entered
  <2>2. /\ injected[u].pos < downloader'[u].pos
        /\ downloader'[u].at # "download" /\ ~IsInit(downloader'[u].item) =>
             injected[u].pos < downloader'[u].item.pos
    BY <1>b, <1>c, <2>1 DEF At
  <2> QED BY <1>0, <1>a, <2>1, <2>2, RingOther
<1>2. ASSUME NEW t \in Tracks, Pushes(t) PROVE RingOf(u)'
  <2>1. /\ UNCHANGED <<overtaken, mTsbFragmentData, reader, tsbReader, mIsLocalTSBInjection>>
        /\ u # t => injected'[u] = injected[u] /\ downloader'[u] = downloader[u]
        /\ At(t, "push") /\ At(t, "download")'
    BY <1>2 DEF Pushes, Entered
  <2>2. CASE u # t
    <3> QED BY <1>0, <1>a, <1>c, <2>1, <2>2, RingOther
  <2>3. CASE u = t
    <3>1. injected'[u].pos < downloader'[u].pos
      BY <1>2, <1>c, <2>1, <2>3 DEF Pushes
    <3>2. ASSUME tsbReader.at # "off"
          PROVE  u \notin mIsLocalTSBInjection /\ ~Pushing(u)
      <4>1. /\ u \notin mIsLocalTSBInjection
            /\ reader[u].endInjected /\ mActiveTuneType = "SEEKTOLIVE"
        BY <2>1, <2>3, <3>2 DEF OwnerInv
      <4> QED BY <3>2, <4>1 DEF EndInv
    <3> QED BY <1>0, <2>1, <2>3, <3>1, <3>2 DEF RingOf, NextIsLater, At
  <2> QED BY <2>2, <2>3
<1>3. ASSUME NEW t \in Tracks, Reads(t) PROVE RingOf(u)'
  <2>1. /\ UNCHANGED <<overtaken, mTsbFragmentData, downloader, injected,
                       mIsLocalTSBInjection>>
        /\ ReadsNext(t) /\ tsbReader.at = "loop"
    BY <1>3 DEF Reads, ReadsNext, Entered
  <2>2. CASE u # t
    <3>1. reader'[u] = reader[u] /\ (Pushing(u) <=> Pushing(u)')
      BY <2>1, <2>2 DEF ReadsNext
    <3> QED BY <1>a, <1>c, <2>1, <3>1, RingOther
  <2>3. CASE u = t
    <3>1. PICK n \in Nodes(u) : n = FindNext(u)
      BY <2>1, <2>3 DEF ReadsNext
    <3>2. /\ reader'[u].cur = n /\ Pushing(u)' /\ ~Pushing(u)
          /\ reader[u].enabled /\ ~reader[u].eos
      BY <2>1, <2>3, <3>1 DEF ReadsNext
    <3>3. u \in mIsLocalTSBInjection
      <4>1. reader[u].endInjected /\ mActiveTuneType = "SEEKTOLIVE" => reader[u].eos
        BY <2>1 DEF EndInv
      <4> QED BY <2>1, <3>2, <4>1 DEF OwnerInv
    <3>4. IF reader[u].first THEN injected[u].pos = 0
          ELSE injected[u].pos <= Node(u, reader[u].cur).pos
      BY <1>a, <2>1, <3>2, <3>3 DEF RingOf, NextIsLater
    <3>5. injected[u].pos < Node(u, n).pos
      <4>1. CASE reader[u].first
        <5>1. Node(u, n).pos \in Positions
          BY NodeType DEF SideTypes
        <5>2. Node(u, n).pos \in Nat \ {0}
          BY <5>1, PositionsAre
        <5> QED BY <3>4, <4>1, <5>2
      <4>2. CASE ~reader[u].first
        <5>1. n = reader[u].cur + 1 /\ reader[u].cur \in Nat /\ reader[u].cur > 0
          BY <1>b, <3>1, <3>2, <4>2 DEF FindNext, ReaderState, ReaderTypes
        <5>2. PICK c \in Nodes(u) : c = reader[u].cur
          BY <3>1, <5>1, NodeType DEF Nodes, SideTypes
        <5>3. c \in Nat /\ n \in Nat /\ c < n
          BY <5>1, <5>2
        <5>4. Node(u, c).pos < Node(u, n).pos
          BY <5>3 DEF DataInv, NodeInv
        <5> QED BY <1>b, <3>4, <4>2, <5>2, <5>4
      <4> QED BY <4>1, <4>2
    <3>6. Node(u, n) = mTsbFragmentData'[u][n]
      BY <2>1 DEF Node
    <3> QED BY <1>c, <2>1, <3>2, <3>5, <3>6 DEF RingOf, NextIsLater, Node, At
  <2> QED BY <2>2, <2>3
<1>4. ASSUME NEW t \in Tracks, ReadsInit(t) \/ ReadsMedia(t) PROVE RingOf(u)'
  <2>1. /\ UNCHANGED <<overtaken, mTsbFragmentData, downloader, reader, mIsLocalTSBInjection>>
        /\ injected'[u].pos = injected[u].pos
        /\ tsbReader.at \in {"init", "media"} /\ tsbReader.track = t
        /\ tsbReader'.at \in {"media", "cache", "loop"} /\ tsbReader'.track = t
    BY <1>4 DEF ReadsInit, ReadsMedia, ReaderAt, Entered
  <2>2. /\ u # t => ~Pushing(u) /\ ~Pushing(u)'
        /\ u = t => Pushing(u) /\ ~reader[u].first
    BY <1>0, <2>1 DEF AppInv
  <2>3. CASE u # t
    BY <1>a, <2>1, <2>2, <2>3 DEF RingOf, NextIsLater, Node, At
  <2>4. CASE u = t
    <3>1. reader[u].enabled => injected[u].pos < Node(u, reader[u].cur).pos
      BY <1>a, <2>1, <2>2, <2>4 DEF RingOf, NextIsLater
    <3>2. reader[u].cur \in Nodes(u)
      BY <1>4, <2>4 DEF ReadsInit, ReadsMedia
    <3>3. reader[u].enabled => injected[u].pos <= Node(u, reader[u].cur).pos
      BY <1>b, <3>1, <3>2
    <3> QED BY <1>c, <2>1, <2>2, <2>4, <3>1, <3>3 DEF RingOf, NextIsLater, Node, At
  <2> QED BY <2>3, <2>4
<1>5. ASSUME NEW t \in Tracks, Caches(t) PROVE RingOf(u)'
  <2>1. /\ UNCHANGED <<overtaken, mTsbFragmentData, downloader, mIsLocalTSBInjection>>
        /\ tsbReader.at = "cache" /\ tsbReader.track = t /\ tsbReader'.at = "loop"
        /\ reader'[u].enabled = reader[u].enabled /\ reader'[u].cur = reader[u].cur
        /\ reader'[u].first = reader[u].first
        /\ u # t => injected'[u] = injected[u]
        /\ ~Pushing(u)'
    BY <1>0, <1>5 DEF Caches, ReaderAt, Entered
  <2>2. CASE u # t
    <3>1. ~Pushing(u)
      BY <1>0, <2>1, <2>2
    <3> QED BY <1>a, <1>c, <2>1, <2>2, <3>1, RingOther
  <2>3. CASE u = t
    <3>1. PICK c \in Nodes(u) : c = reader[u].cur
      BY <1>5, <2>3 DEF Caches
    <3>2. injected'[u].pos = Node(u, c).pos /\ ~reader[u].first
      BY <1>0, <1>5, <2>1, <2>3, <3>1 DEF Caches, AppInv
    <3>3. /\ Node(u, c).pos < downloader[u].pos
          /\ ~At(u, "download") => Node(u, c).pos < downloader[u].item.pos
      <4>1. Node(u, c).pos < Rest(u) /\ Node(u, c).pos \in Nat
        BY <1>b DEF DataInv, OrderInv, Above
      <4>2. ~At(u, "push")
        <5>1. SUFFICES ASSUME At(u, "push") PROVE FALSE
          OBVIOUS
        <5>2. reader[u].endInjected /\ mActiveTuneType = "SEEKTOLIVE"
          BY <2>1, <5>1 DEF OwnerInv
        <5> QED BY <1>0, <2>1, <2>3, <5>2 DEF EndInv
      <4>3. /\ downloader[u].last \in Nat /\ downloader[u].last <= downloader[u].pos
            /\ downloader[u].at \in {"download", "wait", "push"}
        BY DEF SideTypes, DownloaderTypes, DownloaderState
      <4>4. CASE At(u, "download")
        BY <1>b, <4>1, <4>3, <4>4 DEF Rest, At
      <4>5. CASE At(u, "wait")
        <5>1. PICK x \in Items : x = downloader[u].item /\ downloader[u].last = End(x)
          BY <4>5 DEF SideTypes, DownloaderTypes, At
        <5>2. x.pos \in Nat /\ x.pos <= End(x)
          BY ItemType
        <5>3. Rest(u) = x.pos
          BY <4>5, <5>1 DEF Rest
        <5> QED BY <1>b, <4>1, <4>3, <5>1, <5>2, <5>3
      <4> QED BY <4>2, <4>3, <4>4, <4>5 DEF At
    <3>4. Node(u, c) = mTsbFragmentData'[u][c] /\ Node(u, c).pos <= Node(u, c).pos
      BY <1>b, <2>1 DEF Node
    <3> QED BY <2>1, <3>1, <3>2, <3>3, <3>4 DEF RingOf, NextIsLater, Node, At
  <2> QED BY <2>2, <2>3
<1>6. CASE OnlyLess
  <2>1. UNCHANGED <<overtaken, mTsbFragmentData, downloader, reader, injected, tsbReader,
                    mIsLocalTSBInjection>>
    BY <1>6 DEF OnlyLess, seenVars
  <2> QED BY <1>0, <1>a, <1>c, <2>1, RingOther
<1>7. CASE AddSeen
  <2>1. /\ UNCHANGED <<overtaken, downloader, injected, tsbReader, mIsLocalTSBInjection>>
        /\ AddedTo(u)
    BY <1>7 DEF AddSeen
  <2>2. /\ reader'[u].cur = reader[u].cur /\ reader'[u].first = reader[u].first
        /\ reader'[u].enabled = reader[u].enabled
        /\ \A i \in Nodes(u) : Node(u, i)' = Node(u, i)
    BY <1>b, <2>1 DEF AddedTo, ReaderState
  <2>3. reader[u].enabled => reader[u].cur \in Nodes(u)
    <3>1. /\ reader[u].enabled => reader[u].cur > 0
          /\ reader[u].cur <= Len(mTsbFragmentData[u]) /\ Len(mTsbFragmentData[u]) \in Nat
      BY NodeType DEF ReaderTypes, SideTypes
    <3> QED BY <1>b, <3>1 DEF Nodes, ReaderState
  <2>4. reader[u].enabled => mTsbFragmentData'[u][reader[u].cur] = Node(u, reader[u].cur)
    <3>1. PICK c : c = reader[u].cur
      OBVIOUS
    <3> QED BY <2>2, <2>3, <3>1 DEF Node
  <2> QED BY <1>0, <1>a, <2>1, <2>2, <2>4 DEF RingOf, NextIsLater, Node, At
<1>8. CASE Exits
  BY <1>8, <1>c DEF Exits, RingOf, At
<1>9. CASE Seeks
  <2>1. UNCHANGED <<overtaken, mTsbFragmentData, downloader, reader, injected, tsbReader,
                    mIsLocalTSBInjection>>
    BY <1>9 DEF Seeks, Entered
  <2> QED BY <1>0, <1>a, <1>c, <2>1, RingOther
<1>10. CASE Joins \/ Invokes \/ Injects
  <2>1. UNCHANGED <<downloader, injected, tsbReader>> /\ tsbReader.at = "off" /\ ~overtaken
    BY <1>10 DEF Joins, Invokes, Injects, AppInv, Overtakes
  <2> QED BY <1>a, <2>1 DEF RingOf, At
<1>11. CASE Starts
  <2>1. /\ injected'[u].pos = 0 /\ UNCHANGED <<downloader, reader>>
        /\ reader[u].first /\ tsbReader'.at = "loop"
    BY <1>11 DEF Starts, Nothing, AppInv, Fresh
  <2>2. At(u, "download")
    BY <1>11 DEF Starts, Overtakes
  <2> QED BY <1>0, <1>b, <2>1, <2>2 DEF RingOf, NextIsLater, At
<1> QED BY <1>1, <1>2, <1>3, <1>4, <1>5, <1>6, <1>7, <1>8, <1>9, <1>10, <1>11
        DEF ReaderSteps

LEMMA ReadingInit ==
  ASSUME Init
  PROVE  ReaderTypes /\ ReadInv
<1> USE DEF Init, Tracks
<1>1. \A t : ~Pushing(t)
  BY DEF Pushing, ReaderAt
<1>2. ReaderTypes
  <2>1. /\ reader \in [Tracks -> ReaderState]
        /\ injected \in [Tracks -> Pushed]
    BY DEF ReaderState, Term, Nothing, Pushed
  <2>2. /\ tsbReader \in [at : {"off", "loop", "init", "media", "cache"}, track : Tracks]
        /\ app \in [at : {"idle", "join", "invoke", "inject", "start"},
                    tune : {"NEW", "SEEK", "SEEKTOLIVE"}, pos : Nat]
        /\ {mTuneType, mActiveTuneType} \subseteq {"NEW", "SEEK", "SEEKTOLIVE"}
        /\ overtaken \in BOOLEAN
    OBVIOUS
  <2>3. \A t \in Tracks : /\ reader[t].cur = 0 /\ ~reader[t].enabled
                          /\ Len(mTsbFragmentData[t]) = 0
    BY DEF Term
  <2> HIDE DEF Init, Tracks
  <2> QED BY <1>1, <2>1, <2>2, <2>3 DEF ReaderTypes, Pushed
<1>3. AppInv
  BY <1>1 DEF AppInv
<1>4. EndInv
  BY DEF EndInv, EosIsTheEnd, Term
<1>5. OwnerInv
  BY DEF OwnerInv
<1>6. PushedInv
  BY DEF PushedInv
<1>7. RingInv
  BY DEF RingInv, Nothing, At
<1> QED BY <1>2, <1>3, <1>4, <1>5, <1>6, <1>7 DEF ReadInv

SessionInv == SideTypes /\ DataInv /\ ReaderTypes /\ ReadInv

LEMMA SessionStep ==
  ASSUME SessionInv, [Next]_vars
  PROVE  SessionInv'
<1> USE DEF SessionInv, ReadInv
<1>1. SideTypes' /\ DataInv'
  BY SideStep
<1>2. ReaderTypes' /\ ReaderSteps
  BY ReaderTypesStep, ReaderStepsAre
<1>3. AppInv' /\ EndInv' /\ OwnerInv'
  BY <1>2, AppInvStep, EndInvStep, OwnerInvStep
<1>4. PushedInv' /\ RingInv'
  BY <1>1, <1>2, PushedInvStep, RingInvStep
<1> QED BY <1>1, <1>2, <1>3, <1>4

(* The whole invariant of the session, writing and reading.                *)
THEOREM SessionInvariant == Spec => []SessionInv
<1>1. Init => SessionInv
  BY SideInit, ReadingInit DEF SessionInv
<1>2. SessionInv /\ [Next]_vars => SessionInv'
  BY SessionStep
<1> QED BY <1>1, <1>2, PTL DEF Spec

LEMMA MoreSeq ==
  ASSUME NEW S, NEW T, S \subseteq T, NEW q \in Seq(S)
  PROVE  q \in Seq(T)
  OBVIOUS

(* Every variable has a value of its kind: in particular no data manager   *)
(* has culled, and no reader has read, more than was added.                *)
THEOREM SessionTypesCorrect == Spec => []TypeOK
<1>1. SessionInv => TypeOK
  <2> SUFFICES ASSUME SessionInv PROVE TypeOK
    OBVIOUS
  <2> USE DEF SessionInv, SideTypes
  <2>1. mWriteQueue \in Seq([track : Tracks, pos : Positions, rep : AnyRepresentation \union {0}])
    <3>1. Items \subseteq [track : Tracks, pos : Positions, rep : AnyRepresentation \union {0}]
      <4> SUFFICES ASSUME NEW x \in Items
                   PROVE  x \in [track : Tracks, pos : Positions, rep : AnyRepresentation \union {0}]
        OBVIOUS
      <4>1. x \in [track : Tracks, pos : Nat \ {0}, rep : AnyRepresentation \union {0}]
        BY DEF Items
      <4>2. x.pos \in Positions
        BY ItemType
      <4> QED BY <4>1, <4>2
    <3>2. mWriteQueue \in Seq(Items)
      BY DEF WriterTypes
    <3> QED BY <3>1, <3>2, MoreSeq
  <2>2. ASSUME NEW t \in Tracks
        PROVE  /\ culled[t] \in 0 .. Len(mTsbFragmentData[t])
               /\ reader[t].cur \in 0 .. Len(mTsbFragmentData[t])
    <3>1. /\ culled[t] \in Nat /\ Len(mTsbFragmentData[t]) \in Nat
          /\ culled[t] <= Len(mTsbFragmentData[t])
      BY NodeType
    <3>2. reader[t].cur \in Nat /\ reader[t].cur <= Len(mTsbFragmentData[t])
      BY DEF ReaderTypes, ReaderState
    <3> QED BY <3>1, <3>2
  <2>3. /\ writer.at \in {"test", "write", "add", "makeRoom"}
        /\ tsbReader.at \in {"off", "loop", "init", "media", "cache"}
        /\ \A x \in InitSegments : users[x] \in Nat
    BY DEF WriterTypes, ReaderTypes, DataTypes
  <2> QED BY <2>1, <2>2, <2>3 DEF TypeOK
<1> QED BY <1>1, SessionInvariant, PTL

(* PushNextTsbFragment puts a fragment into the ring only after its own    *)
(* init segment, although the culler may delete that segment between the   *)
(* read of the one and of the other: as long as the fragment itself is     *)
(* stored, its track has not lost all its fragments and no seek has        *)
(* overtaken a downloader.                                                 *)
THEOREM InitIsReadFirst == Spec => []ReaderPushesInit
<1>1. SessionInv => ReaderPushesInit
  <2> SUFFICES ASSUME SessionInv, NEW t \in Tracks, ReaderAt(t, "cache"),
                      culled[t] < reader[t].cur, t \notin emptied, ~overtaken
               PROVE  injected[t].init = Node(t, reader[t].cur).init
    BY DEF ReaderPushesInit
  <2> USE DEF SessionInv, SideTypes, ReadInv
  <2>1. Pushing(t) /\ tsbReader.at = "cache"
    BY DEF Pushing, ReaderAt
  <2>2. PICK c \in Nodes(t) : c = reader[t].cur
    <3>1. reader[t].cur \in Nat /\ reader[t].cur > 0
          /\ reader[t].cur <= Len(mTsbFragmentData[t])
      BY <2>1 DEF ReaderTypes, ReaderState
    <3> QED BY <3>1, NodeType DEF Nodes
  <2>3. c \in Stored(t) /\ Node(t, c).init \in InitSegments
    BY <2>2, NodeType DEF Stored, Nodes
  <2>4. reader[t].lastInit = Node(t, c).init /\ InitIsPushed(t)
    BY <2>1, <2>2 DEF PushedInv
  <2>5. t \in mIsLocalTSBInjection
    BY <2>1 DEF OwnerInv, EndInv
  <2>6. ~ReaderAt(t, "init") /\ reader[t].lastInit # NoItem
    BY <2>1, <2>3, <2>4, InitType DEF ReaderAt
  <2> QED BY <2>2, <2>3, <2>4, <2>5, <2>6 DEF InitIsPushed
<1> QED BY <1>1, SessionInvariant, PTL

(* The eos flag of a reader is never out of date: nothing is added between *)
(* the test of FindNext and the flag, and ResetEos comes with every        *)
(* fragment added (but after a seek to live); and a reader at its end has  *)
(* told the downloader, or is about to, unless the fragment was culled.    *)
THEOREM EndIsTheEnd == Spec => []EosIsTheEnd
<1>1. SessionInv => EosIsTheEnd
  BY DEF SessionInv, ReadInv, EndInv
<1> QED BY <1>1, SessionInvariant, PTL

Later ==
  \A t \in Tracks :
    \/ CacheMedia(t)
    \/ CacheStagingFragmentForInjection(t) /\ ~IsInit(downloader[t].item)
    => injected[t].pos < injected'[t].pos \/ overtaken

LEMMA LaterStep ==
  ASSUME SessionInv
  PROVE  Later
<1> USE DEF SessionInv, SideTypes, ReadInv
<1>1. ASSUME NEW t \in Tracks, CacheMedia(t), ~overtaken
      PROVE  injected[t].pos < injected'[t].pos
  <2>1. ReaderAt(t, "cache") /\ CacheTsbFragment(t, Media(t, Node(t, reader[t].cur).pos))
    BY <1>1 DEF CacheMedia
  <2>2. tsbReader.at = "cache" /\ Pushing(t)
    BY <2>1 DEF ReaderAt, Pushing
  <2>3. reader[t].enabled /\ injected[t].pos < Node(t, reader[t].cur).pos
    BY <1>1, <2>2 DEF AppInv, RingInv, NextIsLater
  <2>4. Node(t, reader[t].cur).pos \in Nat
    <3>1. reader[t].cur \in Nodes(t)
      <4>1. reader[t].cur \in Nat /\ reader[t].cur > 0
            /\ reader[t].cur <= Len(mTsbFragmentData[t])
        BY <2>2 DEF ReaderTypes, ReaderState
      <4> QED BY <4>1, NodeType DEF Nodes
    <3> QED BY <3>1, NodeType
  <2>5. injected'[t].pos = Node(t, reader[t].cur).pos
    <3>1. PICK x : x = Media(t, Node(t, reader[t].cur).pos)
      OBVIOUS
    <3>2. ~IsInit(x) /\ x.pos = Node(t, reader[t].cur).pos
      BY <3>1, InitType
    <3> QED BY <2>1, <2>4, <3>1, <3>2, CachedType
  <2> QED BY <2>3, <2>5
<1>2. ASSUME NEW t \in Tracks, CacheStagingFragmentForInjection(t),
             ~IsInit(downloader[t].item), ~overtaken
      PROVE  injected[t].pos < injected'[t].pos
  <2>1. CacheTsbFragment(t, downloader[t].item) /\ At(t, "push")
    BY <1>2 DEF CacheStagingFragmentForInjection
  <2>2. PICK x \in Items : x = downloader[t].item
    BY <2>1 DEF DownloaderTypes, At
  <2>3. injected'[t].pos = x.pos
    BY <1>2, <2>1, <2>2, ItemType, CachedType
  <2>4. injected[t].pos < x.pos
    BY <1>2, <2>1, <2>2 DEF RingInv, At
  <2> QED BY <2>3, <2>4
<1> QED BY <1>1, <1>2 DEF Later

(* CacheMedia of the reader and CacheStagingFragmentForInjection of the    *)
(* downloader put the fragments of a track into the ring in the order of   *)
(* the presentation, each once, through every catching up, taking over and *)
(* seek, unless a seek has overtaken a downloader.                         *)
THEOREM RingIsInOrder == Spec => InjectedInOrder
<1>1. SessionInv /\ [Next]_vars => [Later]_vars
  BY LaterStep
<1>2. Spec => [][Later]_vars
  BY <1>1, SessionInvariant, PTL DEF Spec
<1> QED BY <1>2 DEF Later, InjectedInOrder

=============================================================================
