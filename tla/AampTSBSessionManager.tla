----------------------- MODULE AampTSBSessionManager -----------------------
(***************************************************************************)
(* The session of a local time-shift buffer: what is downloaded of a live  *)
(* stream is queued, written to the store by a thread of its own and       *)
(* entered into a data manager per track (AampTSBSessionManager.cpp,       *)
(* AampTsbDataManager.cpp); after a seek a reader thread plays it from     *)
(* there (AampTsbReader.cpp, TsbReader of fragmentcollector_mpd.cpp); old  *)
(* fragments are culled by the thread that refreshes the manifest, and by  *)
(* the writer when the store is full.  After a seek to live the reader     *)
(* plays up to the newest fragment, and the downloader of each track takes *)
(* over from it (OnFragmentDownloadSuccess of MediaStreamContext.cpp).     *)
(*                                                                         *)
(* A region under mReadMutex is one step; the reader and CullSegments give *)
(* it up around the calls of the store.  Audio and video of a stream that  *)
(* is not low latency, played at normal rate and not paused.  A fragment   *)
(* lasts one unit of time.  A representation is entered by an init         *)
(* segment, and left again whenever the bandwidth, or a fragment that      *)
(* cannot be downloaded, asks for it.  The store is the one TsbStore       *)
(* promises; reading from it fails only when the file is gone.  The ring   *)
(* of a track always has room again after a time (MediaTrack).             *)
(* Advertisement metadata, positions reported to the application, rewind,  *)
(* fast forward and the end of the session (Stop, Flush) are left out.     *)
(***************************************************************************)
EXTENDS Integers, Sequences, SequencesExt, FiniteSets

CONSTANTS
  LastPosition,  (* per track: its fragments are 1 .. LastPosition[t]      *)
  Representations, (* per track: those it is offered in                    *)
  MaxInits,      (* bound, per track: init segments that are downloaded    *)
  mTsbLength,    (* what is kept                                           *)
  FailsFrom,     (* with so many files in the store a write may fail, as   *)
                 (* files differ in size                                   *)
  Capacity,      (* with so many files a write does fail                   *)
  MaxSeeks       (* bound                                                  *)

Tracks == {"video", "audio"}

ASSUME SessionAssumption ==
  /\ LastPosition \in [Tracks -> Nat] /\ MaxInits \in [Tracks -> Nat]
  /\ \A t \in Tracks : 0 \notin Representations[t]
  /\ {mTsbLength, FailsFrom, Capacity, MaxSeeks} \subseteq Nat

VARIABLES
  downloader,    (* per track: what the download worker does, the next     *)
                 (* media fragment, and lastDownloadedPosition             *)
  mWriteQueue,
  writer,        (* the write thread and what it writes                    *)
  store,         (* the files in it                                        *)
  mTsbFragmentData, (* per track: all that were added, in the order of the *)
                 (* links; the first of them may be culled                 *)
  culled,        (* per track: how many are no longer in the map           *)
  users,         (* per init segment                                       *)
  mCurrentInitData,
  culler,        (* the files CullSegments is about to delete              *)
  reader,        (* per track: the state of its AampTsbReader              *)
  tsbReader,     (* the reader thread, and the track it works on           *)
  abortTsbReader,
  mTuneType,     (* of the stream                                          *)
  mActiveTuneType, (* of the session manager                               *)
  mIsLocalTSBInjection, (* the tracks played from the buffer               *)
  app,           (* how far a seek has come                                *)
  seeks,         (* for the bound                                          *)
  injected,      (* history, per track: the last init segment and the last *)
                 (* media fragment put into the ring                       *)
  overtaken,     (* history: a seek has overtaken a downloader             *)
  emptied        (* history: the tracks that have lost all their fragments *)

writeVars    == <<mWriteQueue, writer>>
dataVars     == <<mTsbFragmentData, culled, users, mCurrentInitData>>
readVars     == <<reader, tsbReader>>
tuneVars     == <<abortTsbReader, mTuneType, mActiveTuneType, app, seeks>>
history      == <<injected, overtaken, emptied>>
vars == <<downloader, writeVars, store, dataVars, culler, readVars, tuneVars,
          mIsLocalTSBInjection, history>>

Positions == UNION {1 .. LastPosition[t] : t \in Tracks}

(* What is downloaded, and the file it is stored in: the name is made of   *)
(* the URL and the position.  A media fragment has representation 0 here,  *)
(* as there is only one of a position.                                     *)
Media(t, p)          == [track |-> t, pos |-> p, rep |-> 0]
InitSegment(t, p, r) == [track |-> t, pos |-> p, rep |-> r]
AnyRepresentation    == UNION {Representations[t] : t \in Tracks}
InitSegments == [track : Tracks, pos : Positions, rep : AnyRepresentation]
NoItem       == [track |-> "video", pos |-> 0, rep |-> 0]
IsInit(x)    == x.rep # 0

(* Where it ends: an init segment has no duration.                         *)
End(x) == IF IsInit(x) THEN x.pos ELSE x.pos + 1

(* AampTsbReader::Term.                                                    *)
Term == [enabled |-> FALSE, first |-> TRUE, cur |-> 0, eos |-> FALSE,
         lastInit |-> NoItem, endInjected |-> FALSE]

Nothing == [init |-> NoItem, pos |-> 0]

Init ==
  /\ downloader = [t \in Tracks |-> [at |-> "download", pos |-> 1, last |-> 0,
                                     inits |-> 0, item |-> NoItem]]
  /\ mWriteQueue = <<>>
  /\ writer = [at |-> "test", item |-> NoItem]
  /\ store = {}
  /\ mTsbFragmentData = [t \in Tracks |-> <<>>]
  /\ culled = [t \in Tracks |-> 0]
  /\ users = [x \in InitSegments |-> 0]
  /\ mCurrentInitData = [t \in Tracks |-> NoItem]
  /\ culler = {}
  /\ reader = [t \in Tracks |-> Term]
  /\ tsbReader = [at |-> "off", track |-> "video"]
  /\ abortTsbReader = FALSE
  /\ mTuneType = "NEW" /\ mActiveTuneType = "NEW"
  /\ mIsLocalTSBInjection = {}
  /\ app = [at |-> "idle", tune |-> "NEW", pos |-> 0]
  /\ seeks = 0
  /\ injected = [t \in Tracks |-> Nothing]
  /\ overtaken = FALSE /\ emptied = {}

------------------------------------------------------------------------------
(* The data manager of a track.                                            *)

Stored(t)   == culled[t] + 1 .. Len(mTsbFragmentData[t])
Node(t, i)  == mTsbFragmentData[t][i]
IsEmpty(t)  == Stored(t) = {}
FirstPosition(t) == IF IsEmpty(t) THEN 0 ELSE Node(t, culled[t] + 1).pos
GetTotalStoreDuration(t) ==
  IF IsEmpty(t) THEN 0 ELSE Last(mTsbFragmentData[t]).pos + 1 - FirstPosition(t)

Distance(t, i, p) == IF Node(t, i).pos < p THEN p - Node(t, i).pos
                                           ELSE Node(t, i).pos - p

(* The earlier of two that are as near.                                    *)
GetNearestFragment(t, p) ==
  CHOOSE i \in Stored(t) : \A j \in Stored(t) :
    \/ Distance(t, i, p) < Distance(t, j, p)
    \/ Distance(t, i, p) = Distance(t, j, p) /\ i <= j

(* Mutant: deleted with one user left.                                     *)
InitUnusedAfterTwo(x) == users[x] <= 2

(* decrementUser leaves no user of init segment x.                         *)
InitUnused(x) == users[x] <= 1

(* RemoveFragmentDeleteInit: the oldest fragment leaves the map, and its   *)
(* init segment the store when no other in the map uses it.                *)
RemoveFragment(t) ==
  LET init == Node(t, culled[t] + 1).init IN
  /\ culled' = [culled EXCEPT ![t] = @ + 1]
  /\ users' = [users EXCEPT ![init] = @ - 1]
  /\ emptied' = IF Cardinality(Stored(t)) = 1 THEN emptied \union {t} ELSE emptied
  /\ UNCHANGED <<mTsbFragmentData, mCurrentInitData>>

(* The files that go with the oldest fragment, without the fragment.       *)
InitOfRemoved(t) ==
  LET init == Node(t, culled[t] + 1).init IN
  IF InitUnused(init) THEN {init} ELSE {}

Oldest(t) == Media(t, FirstPosition(t))

------------------------------------------------------------------------------
(* The download worker of a track.                                         *)

At(t, label)   == downloader[t].at = label
Goto(t, label) == downloader' = [downloader EXCEPT ![t].at = label]

(* DownloadFragment: the next media fragment, or the init segment of a     *)
(* representation, which gets the position where the last download ended.  *)
(* One init segment may follow another: a fragment that cannot be had in   *)
(* one representation is tried again in the next lower one.                *)
Downloadable(t) ==
  LET d == downloader[t]
      p == IF d.last > 0 THEN d.last ELSE d.pos
  IN
  IF d.pos > LastPosition[t] THEN {}
  ELSE {Media(t, d.pos)} \union
       {InitSegment(t, p, r) : r \in {k \in Representations[t] :
                                       d.inits < MaxInits[t]}}

Downloaded(t, x, label) ==
  LET d == downloader[t] IN
  downloader' = [downloader EXCEPT ![t] =
    [at |-> label, pos |-> IF IsInit(x) THEN d.pos ELSE d.pos + 1,
     last |-> End(x), inits |-> IF IsInit(x) THEN d.inits + 1 ELSE d.inits,
     item |-> IF label = "download" THEN NoItem ELSE x]]

(* CheckEos: a track that is played from the buffer after a seek to live,  *)
(* and whose reader is at its end, is to be taken over.                    *)
CheckEos(t) ==
  t \in mIsLocalTSBInjection /\ mTuneType = "SEEKTOLIVE" /\ reader[t].eos

EnqueueWrite(x) == mWriteQueue' = Append(mWriteQueue, x)

(* What is played from the buffer is not put into the ring by the          *)
(* downloader as well.                                                     *)
OnFragmentDownloadSuccess(t) ==
  /\ At(t, "download")
  /\ \E x \in Downloadable(t) :
       \/ CheckEos(t) /\ Downloaded(t, x, "wait") /\ UNCHANGED mWriteQueue
       \/ /\ ~CheckEos(t) /\ EnqueueWrite(x)
          /\ Downloaded(t, x, IF t \in mIsLocalTSBInjection THEN "download" ELSE "push")
  /\ UNCHANGED <<writer, store, dataVars, culler, readVars, tuneVars,
                 mIsLocalTSBInjection, history>>

(* A media fragment that is to be had in no representation is left out.    *)
OnFragmentDownloadFailed(t) ==
  /\ At(t, "download")
  /\ downloader[t].pos <= LastPosition[t]
  /\ downloader' = [downloader EXCEPT ![t].pos = @ + 1]
  /\ UNCHANGED <<writeVars, store, dataVars, culler, readVars, tuneVars,
                 mIsLocalTSBInjection, history>>

(* Mutant: the live fragment does not wait for the last stored one.        *)
TakeOverAtOnce(t) ==
  /\ At(t, "wait")
  /\ mIsLocalTSBInjection' = mIsLocalTSBInjection \ {t}
  /\ EnqueueWrite(downloader[t].item)
  /\ Goto(t, "push")
  /\ UNCHANGED <<writer, store, dataVars, culler, readVars, tuneVars,
                 history>>

CheckForWaitIfReaderDone(t) ==
  /\ At(t, "wait")
  /\ reader[t].endInjected
  /\ mIsLocalTSBInjection' = mIsLocalTSBInjection \ {t}
  /\ EnqueueWrite(downloader[t].item)
  /\ Goto(t, "push")
  /\ UNCHANGED <<writer, store, dataVars, culler, readVars, tuneVars,
                 history>>

(* An item goes into the ring.                                             *)
CacheTsbFragment(t, item) ==
  injected' = IF IsInit(item) THEN [injected EXCEPT ![t].init = item]
                              ELSE [injected EXCEPT ![t].pos = item.pos]

CacheStagingFragmentForInjection(t) ==
  /\ At(t, "push")
  /\ CacheTsbFragment(t, downloader[t].item)
  /\ downloader' = [downloader EXCEPT ![t].at = "download", ![t].item = NoItem]
  /\ UNCHANGED <<writeVars, store, dataVars, culler, readVars, tuneVars,
                 mIsLocalTSBInjection, overtaken, emptied>>

------------------------------------------------------------------------------
(* The write thread: ProcessWriteQueue.                                    *)

WriterAt(label) == writer.at = label
WriterGoto(label) == writer' = [writer EXCEPT !.at = label]

WriterTest ==
  /\ WriterAt("test")
  /\ mWriteQueue # <<>>
  /\ writer' = [at |-> "write", item |-> Head(mWriteQueue)]
  /\ mWriteQueue' = Tail(mWriteQueue)
  /\ UNCHANGED <<downloader, store, dataVars, culler, readVars, tuneVars,
                 mIsLocalTSBInjection, history>>

(* TSB::Store::Write, tried until it succeeds.  What is there already is   *)
(* taken for written, and not entered again.                               *)
WriterWrite ==
  /\ WriterAt("write")
  /\ \/ /\ writer.item \in store
        /\ writer' = [at |-> "test", item |-> NoItem]
        /\ UNCHANGED store
     \/ /\ writer.item \notin store /\ Cardinality(store) < Capacity
        /\ store' = store \union {writer.item}
        /\ WriterGoto("add")
     \/ /\ writer.item \notin store /\ Cardinality(store) >= FailsFrom
        /\ WriterGoto("makeRoom")
        /\ UNCHANGED store
  /\ UNCHANGED <<downloader, mWriteQueue, dataVars, culler, readVars, tuneVars,
                 mIsLocalTSBInjection, history>>

(* ResetEos, except after a seek to live.                                  *)
AfterAdd(t) ==
  IF mActiveTuneType = "SEEKTOLIVE" THEN reader[t]
  ELSE [reader[t] EXCEPT !.eos = FALSE]

(* Mutant: the new fragment is not counted.                                *)
UsersAfterAddForgotten(t) == users

UsersAfterAdd(t) == [users EXCEPT ![mCurrentInitData[t]] = @ + 1]

(* A fragment without any init segment before it is not entered, although  *)
(* it has been written.                                                    *)
AddFragment ==
  LET t == writer.item.track IN
  /\ WriterAt("add")
  /\ writer' = [at |-> "test", item |-> NoItem]
  /\ \/ /\ IsInit(writer.item)
        /\ mCurrentInitData' = [mCurrentInitData EXCEPT ![t] = writer.item]
        /\ UNCHANGED <<mTsbFragmentData, users, reader>>
     \/ /\ ~IsInit(writer.item) /\ mCurrentInitData[t] # NoItem
        /\ mTsbFragmentData' = [mTsbFragmentData EXCEPT ![t] =
             Append(@, [pos |-> writer.item.pos, init |-> mCurrentInitData[t]])]
        /\ users' = UsersAfterAdd(t)
        /\ reader' = [reader EXCEPT ![t] = AfterAdd(t)]
        /\ UNCHANGED mCurrentInitData
     \/ /\ ~IsInit(writer.item) /\ mCurrentInitData[t] = NoItem
        /\ UNCHANGED <<mCurrentInitData, mTsbFragmentData, users, reader>>
  /\ UNCHANGED <<downloader, mWriteQueue, store, culled, culler,
                 tsbReader, tuneVars, mIsLocalTSBInjection, history>>

(* The oldest fragment of the same track makes room.                       *)
MakeRoom ==
  LET t == writer.item.track IN
  /\ WriterAt("makeRoom")
  /\ WriterGoto("write")
  /\ IF IsEmpty(t) THEN UNCHANGED <<dataVars, store, emptied>>
     ELSE /\ RemoveFragment(t)
          /\ store' = store \ ({Oldest(t)} \union InitOfRemoved(t))
  /\ UNCHANGED <<downloader, mWriteQueue, culler, readVars,
                 tuneVars, mIsLocalTSBInjection, injected, overtaken>>

------------------------------------------------------------------------------
(* CullSegments, by the thread that refreshes the manifest.                *)

(* The track whose oldest fragment goes when the loop is at track `iter`.  *)
(* For video itself the loop goes on without removing anything; when too   *)
(* much is stored it is the turn of audio that removes from video.         *)
CullTarget(iter) ==
  LET tooLong == GetTotalStoreDuration("video") > mTsbLength
      target  == IF tooLong THEN "video" ELSE iter
      behind  == FirstPosition("video") - FirstPosition(iter)
  IN
  IF \/ GetTotalStoreDuration(iter) = 0
     \/ ~tooLong /\ behind < 1
     \/ target = iter /\ 1 > behind
  THEN {} ELSE {target}

CullRemove ==
  /\ culler = {}
  /\ \E iter \in Tracks : \E t \in CullTarget(iter) :
       /\ RemoveFragment(t)
       /\ store' = store \ InitOfRemoved(t)
       /\ culler' = {Oldest(t)}
  /\ UNCHANGED <<downloader, writeVars, readVars, tuneVars,
                 mIsLocalTSBInjection, injected, overtaken>>

(* Delete, with mReadMutex given up.                                       *)
CullDelete ==
  /\ culler # {}
  /\ store' = store \ culler
  /\ culler' = {}
  /\ UNCHANGED <<downloader, writeVars, dataVars, readVars, tuneVars,
                 mIsLocalTSBInjection, history>>

------------------------------------------------------------------------------
(* The reader thread: TsbReader and PushNextTsbFragment.                   *)

ReaderAt(t, label) == tsbReader = [at |-> label, track |-> t]
ReaderGoto(label)  == tsbReader' = [tsbReader EXCEPT !.at = label]

(* FindNext follows the links, which outlive the culling of a fragment.    *)
FindNext(t) == IF reader[t].first THEN reader[t].cur ELSE reader[t].cur + 1

ReadNext(t) ==
  LET n    == FindNext(t)
      node == Node(t, n)
  IN
  /\ tsbReader.at = "loop"
  /\ reader[t].enabled /\ ~reader[t].eos
  /\ n <= Len(mTsbFragmentData[t])
  /\ reader' = [reader EXCEPT ![t].cur = n, ![t].first = FALSE,
                              ![t].eos = (n = Len(mTsbFragmentData[t])),
                              ![t].lastInit = node.init]
  /\ tsbReader' = [at |-> IF node.init # reader[t].lastInit THEN "init" ELSE "media",
                   track |-> t]
  /\ UNCHANGED <<downloader, writeVars, store, dataVars, culler, tuneVars,
                 mIsLocalTSBInjection, history>>

(* Read of the init segment, from the cache of init segments if it is      *)
(* still there or else from the store.                                     *)
ReadInit(t) ==
  LET init == Node(t, reader[t].cur).init IN
  /\ ReaderAt(t, "init")
  /\ \/ /\ CacheTsbFragment(t, init)
        /\ ReaderGoto("media")
     \/ /\ init \notin store
        /\ ReaderGoto("loop")
        /\ UNCHANGED injected
  /\ UNCHANGED <<downloader, writeVars, store, dataVars, culler, reader,
                 tuneVars, mIsLocalTSBInjection, overtaken, emptied>>

ReadMedia(t) ==
  /\ ReaderAt(t, "media")
  /\ ReaderGoto(IF Media(t, Node(t, reader[t].cur).pos) \in store
                THEN "cache" ELSE "loop")
  /\ UNCHANGED <<downloader, writeVars, store, dataVars, culler, reader,
                 tuneVars, mIsLocalTSBInjection, history>>

(* Mutant: the downloader is not told of the end.                          *)
AfterCacheForgotten(t) == reader[t]

(* AbortCheckForWaitIfReaderDone.                                          *)
AfterCache(t) == [reader[t] EXCEPT !.endInjected = @ \/ reader[t].eos]

CacheMedia(t) ==
  /\ ReaderAt(t, "cache")
  /\ CacheTsbFragment(t, Media(t, Node(t, reader[t].cur).pos))
  /\ reader' = [reader EXCEPT ![t] = AfterCache(t)]
  /\ ReaderGoto("loop")
  /\ UNCHANGED <<downloader, writeVars, store, dataVars, culler, tuneVars,
                 mIsLocalTSBInjection, overtaken, emptied>>

ReaderExit ==
  /\ tsbReader.at = "loop"
  /\ \/ abortTsbReader
     \/ mTuneType = "SEEKTOLIVE" /\ \A t \in Tracks : reader[t].eos
  /\ ReaderGoto("off")
  /\ UNCHANGED <<downloader, writeVars, store, dataVars, culler, reader,
                 tuneVars, mIsLocalTSBInjection, history>>

------------------------------------------------------------------------------
(* Seeks, by the player.                                                   *)

AppAt(label)   == app.at = label
AppGoto(label) == app' = [app EXCEPT !.at = label]

(* A downloader is between a test and what it does about it.               *)
Overtakes == overtaken \/ \E t \in Tracks : ~At(t, "download")

(* TeardownStream aborts the reader; downloads go on.                      *)
Seek(tune, pos) ==
  /\ AppAt("idle")
  /\ seeks < MaxSeeks
  /\ tune = "SEEKTOLIVE" => ~IsEmpty("video")
  /\ seeks' = seeks + 1
  /\ abortTsbReader' = TRUE
  /\ app' = [at |-> "join", tune |-> tune, pos |-> pos]
  /\ UNCHANGED <<downloader, writeVars, store, dataVars, culler, readVars,
                 mTuneType, mActiveTuneType, mIsLocalTSBInjection,
                 history>>

JoinReader ==
  /\ AppAt("join")
  /\ tsbReader.at = "off"
  /\ mTuneType' = app.tune
  /\ AppGoto("invoke")
  /\ overtaken' = Overtakes
  /\ UNCHANGED <<downloader, writeVars, store, dataVars, culler, readVars,
                 abortTsbReader, mActiveTuneType, seeks, mIsLocalTSBInjection,
                 injected, emptied>>

(* InvokeTsbReaders: Term and Init of both readers, under mReadMutex.  A   *)
(* track with nothing stored is not read at all.                           *)
InvokeTsbReaders ==
  LET start == IF IsEmpty("video") THEN app.pos
               ELSE Node("video", GetNearestFragment("video", app.pos)).pos
  IN
  /\ AppAt("invoke")
  /\ mActiveTuneType' = app.tune
  /\ reader' = [t \in Tracks |->
       IF IsEmpty(t) THEN Term
       ELSE [Term EXCEPT !.enabled = TRUE, !.cur = GetNearestFragment(t, start)]]
  /\ app' = [app EXCEPT !.at = "inject", !.pos = 0]
  /\ overtaken' = Overtakes
  /\ UNCHANGED <<downloader, writeVars, store, dataVars, culler, tsbReader,
                 abortTsbReader, mTuneType, seeks, mIsLocalTSBInjection,
                 injected, emptied>>

SetLocalTSBInjection ==
  /\ AppAt("inject")
  /\ mIsLocalTSBInjection' = Tracks
  /\ AppGoto("start")
  /\ overtaken' = Overtakes
  /\ UNCHANGED <<downloader, writeVars, store, dataVars, culler, readVars,
                 abortTsbReader, mTuneType, mActiveTuneType, seeks,
                 injected, emptied>>

(* The rings are flushed, and a new reader thread starts.                  *)
StartFromAampLocalTsb ==
  /\ AppAt("start")
  /\ abortTsbReader' = FALSE
  /\ tsbReader' = [tsbReader EXCEPT !.at = "loop"]
  /\ injected' = [t \in Tracks |-> Nothing]
  /\ AppGoto("idle")
  /\ overtaken' = Overtakes
  /\ UNCHANGED <<downloader, writeVars, store, dataVars, culler, reader,
                 mTuneType, mActiveTuneType, seeks, mIsLocalTSBInjection,
                 emptied>>

------------------------------------------------------------------------------
Downloader(t) ==
  \/ OnFragmentDownloadSuccess(t) \/ OnFragmentDownloadFailed(t)
  \/ CheckForWaitIfReaderDone(t) \/ CacheStagingFragmentForInjection(t)
Writer == WriterTest \/ WriterWrite \/ AddFragment \/ MakeRoom
Culler == CullRemove \/ CullDelete
Reader(t) == ReadNext(t) \/ ReadInit(t) \/ ReadMedia(t) \/ CacheMedia(t)
FinishSeek ==
  JoinReader \/ InvokeTsbReaders \/ SetLocalTSBInjection \/ StartFromAampLocalTsb

Next ==
  \/ \E t \in Tracks : Downloader(t) \/ Reader(t)
  \/ Writer \/ Culler \/ ReaderExit
  \/ \E tune \in {"SEEK", "SEEKTOLIVE"}, pos \in Positions : Seek(tune, pos)
  \/ FinishSeek

Spec == Init /\ [][Next]_vars

------------------------------------------------------------------------------
(* Every variable has a value of its kind.                                 *)
TypeOK ==
  /\ mWriteQueue \in Seq([track : Tracks, pos : Positions,
                            rep : AnyRepresentation \union {0}])
  /\ writer.at \in {"test", "write", "add", "makeRoom"}
  /\ \A x \in InitSegments : users[x] \in Nat
  /\ \A t \in Tracks :
       /\ culled[t] \in 0 .. Len(mTsbFragmentData[t])
       /\ reader[t].cur \in 0 .. Len(mTsbFragmentData[t])
  /\ tsbReader.at \in {"off", "loop", "init", "media", "cache"}

(* The store and the data managers agree: every fragment in a map has its  *)
(* file, and its init segment unless a full store has made the track lose  *)
(* all its fragments; and a file that a fragment has needed is deleted     *)
(* with the last fragment that needs it, but for the one CullSegments is   *)
(* about to delete.  (Files no fragment ever needed do stay behind: an     *)
(* init segment that another one replaces before a fragment comes, and a   *)
(* fragment without any init segment.)                                     *)
StoreMatchesMetadata ==
  \A t \in Tracks :
    LET files(nodes) == {Media(t, Node(t, i).pos) : i \in nodes}
        inits(nodes) == {Node(t, i).init : i \in nodes}
        all          == 1 .. Len(mTsbFragmentData[t])
    IN
    /\ files(Stored(t)) \subseteq store
    /\ t \notin emptied => inits(Stored(t)) \subseteq store
    /\ store \intersect (files(all) \union inits(all)) \subseteq
         files(Stored(t)) \union inits(Stored(t)) \union culler

(* Violated.  Write refuses no file but the init segment that is current   *)
(* anyway (it is downloaded again at a discontinuity): "Init fragments &   *)
(* Fragments should have a unique url for each absPosition".  The position *)
(* of an init segment moves on only with a fragment that is downloaded, so *)
(* a representation that is left and entered again before one is has the   *)
(* same name twice, and is not entered the second time: the fragments that *)
(* follow go with the init segment of the representation in between.       *)
UniqueUrls ==
  WriterAt("write") /\ writer.item \in store =>
    writer.item = mCurrentInitData[writer.item.track]

(* A fragment the reader puts into the ring comes after its own init       *)
(* segment, however far the culler has come behind it: as long as the      *)
(* fragment itself is stored, and the track has not lost all its fragments *)
(* before, and no seek overtakes a downloader.                             *)
ReaderPushesInit ==
  \A t \in Tracks :
    ReaderAt(t, "cache") /\ culled[t] < reader[t].cur /\ t \notin emptied /\ ~overtaken
      => injected[t].init = Node(t, reader[t].cur).init

(* Reader and downloader together never put a fragment into the ring twice *)
(* or after a later one, when the reader catches up and the downloader     *)
(* takes over, unless a seek overtakes a downloader.                       *)
InjectedInOrder ==
  [][\A t \in Tracks :
       \/ CacheMedia(t)
       \/ CacheStagingFragmentForInjection(t) /\ ~IsInit(downloader[t].item)
       => injected[t].pos < injected'[t].pos \/ overtaken]_vars

Pushing(t) == \E label \in {"init", "media", "cache"} : ReaderAt(t, label)

(* A reader at its end has nothing ahead of it (except after a seek to     *)
(* live, when the downloader plays on): nothing is added between its test  *)
(* and its flag.  And once it has played the last fragment, the downloader *)
(* that waits for this is let go, unless the fragment was culled under it. *)
EosIsTheEnd ==
  \A t \in Tracks : reader[t].eos =>
    /\ mActiveTuneType = "SEEK" => reader[t].cur = Len(mTsbFragmentData[t])
    /\ Pushing(t) \/ reader[t].endInjected
                  \/ reader[t].cur <= culled[t] \/ t \in emptied
==============================================================================
