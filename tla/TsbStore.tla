------------------------------ MODULE TsbStore ------------------------------
(***************************************************************************)
(* The store of the local time-shift buffer (tsb/src/TsbStore.cpp).        *)
(* Segments are files in a numbered directory; Flush goes on to the next   *)
(* number and leaves the old directory to the flusher thread, which a      *)
(* semaphore tells how often to remove one.  A process that dies leaves    *)
(* everything on the disk; the next store moves what it finds into         *)
(* directory 0, which is the first the flusher removes.                    *)
(*                                                                         *)
(* A path is a sequence of directory numbers: <<n>>, or <<0, n>> for what  *)
(* was moved.  Of the errors of the file system only a full disk and a     *)
(* failed write are modelled; the directories between the numbered one and *)
(* the file make every numbered directory that exists a non-empty one.     *)
(* Read and GetSize change nothing and have no action.                     *)
(***************************************************************************)
EXTENDS Naturals, Sequences, FiniteSets, FiniteSetsExt

CONSTANTS
  Threads,    (* threads that use the store                                *)
  Urls,
  MaxSize,    (* largest segment                                           *)
  Capacity,   (* mCapacity, from the configuration and the file system     *)
  DiskSpace,  (* what the file system really has for the store             *)
  MaxWait,    (* timeout / sleepTime of WriteBuffer                        *)
  MaxEpochs,  (* bound: constructions and flushes                          *)
  MaxCrashes  (* bound                                                     *)

ASSUME StoreAssumption ==
  /\ IsFiniteSet(Threads) /\ Urls # {}
  /\ {MaxSize, Capacity, DiskSpace, MaxWait, MaxEpochs, MaxCrashes} \subseteq Nat

VARIABLES
  files,         (* on the disk                                            *)
  dirs,          (* numbered directories on the disk                       *)
  store,         (* "none", "moving" (constructor), "open", "closing"      *)
  entries,       (* directories the constructor still has to move          *)
  mFlushDirNum,
  mActiveDirNum,
  mAvailable,
  mFlusherSem,
  flusher,       (* where the flusher thread is                            *)
  call,          (* per thread: the call under way                         *)
  crashes,
  epoch,         (* history: number of constructions and flushes           *)
  crashed,       (* history: the last store did not exit cleanly           *)
  kept           (* history: written since then, and not deleted           *)

diskVars  == <<files, dirs>>
flushVars == <<mFlushDirNum, mActiveDirNum, mFlusherSem, flusher>>
history   == <<epoch, crashed, kept>>
vars == <<diskVars, store, entries, flushVars, mAvailable, call, crashes, history>>

Idle == [pc |-> "idle", url |-> CHOOSE u \in Urls : TRUE, size |-> 0,
         retry |-> FALSE, waited |-> 0]

Init ==
  /\ files = {} /\ dirs = {}
  /\ store = "none"
  /\ entries = {}
  /\ mFlushDirNum = 0
  /\ mActiveDirNum = 1
  /\ mAvailable = 0
  /\ mFlusherSem = 0
  /\ flusher = "exit"
  /\ call = [t \in Threads |-> Idle]
  /\ crashes = 0
  /\ epoch = 0
  /\ crashed = FALSE
  /\ kept = {}

At(t, label) == call[t].pc = label
MutexFree == \A t \in Threads : call[t].pc \in {"idle", "post"} (* mApiMutex *)
MayCall(t) == store = "open" /\ At(t, "idle") /\ MutexFree

Active == <<mActiveDirNum>>
FilesAt(path) == {f \in files : f.at = path}
SizeOf(fs) == MapThenSumSet(LAMBDA f : f.size, fs)

------------------------------------------------------------------------------
(* Construction: the lock on the location, which a dead process has lost,  *)
(* then every directory found is moved into 0, one after the other.        *)

Construct ==
  /\ store = "none"
  /\ epoch < MaxEpochs
  /\ store' = "moving"
  /\ entries' = {d \in dirs : Len(d) = 1 /\ d # <<0>>}
  /\ mFlushDirNum' = 0
  /\ mActiveDirNum' = 1
  /\ epoch' = epoch + 1
  /\ UNCHANGED <<diskVars, mFlusherSem, flusher, mAvailable, call, crashes,
                 crashed, kept>>

(* Mutant: nothing is moved.                                               *)
MoveNothing(d) ==
  /\ store = "moving"
  /\ d \in entries
  /\ entries' = entries \ {d}
  /\ UNCHANGED <<diskVars, store, flushVars, mAvailable, call, crashes, history>>

(* rename fails when the target is there already.                          *)
MoveStale(d) ==
  LET target == <<0>> \o d IN
  /\ store = "moving"
  /\ d \in entries
  /\ entries' = entries \ {d}
  /\ IF target \in dirs THEN UNCHANGED diskVars
     ELSE /\ dirs' = (dirs \ {d}) \union {target}
          /\ files' = {IF f.at = d THEN [f EXCEPT !.at = target] ELSE f : f \in files}
  /\ UNCHANGED <<store, flushVars, mAvailable, call, crashes, history>>

Constructed ==
  /\ store = "moving"
  /\ entries = {}
  /\ store' = "open"
  /\ mAvailable' = Capacity
  /\ flusher' = "wait"
  /\ mFlusherSem' = 1
  /\ UNCHANGED <<diskVars, entries, mFlushDirNum, mActiveDirNum, call, crashes,
                 history>>

------------------------------------------------------------------------------
(* The flusher thread.                                                     *)

FlusherWait ==
  /\ flusher = "wait"
  /\ mFlusherSem > 0
  /\ mFlusherSem' = mFlusherSem - 1
  /\ flusher' = "remove"
  /\ UNCHANGED <<diskVars, store, entries, mFlushDirNum, mActiveDirNum,
                 mAvailable, call, crashes, history>>

(* remove_all: the files of a directory one by one, then the directory.    *)
RemoveEntry ==
  /\ flusher = "remove"
  /\ \E d \in dirs :
       /\ Head(d) = mFlushDirNum
       /\ \/ \E f \in FilesAt(d) : files' = files \ {f} /\ UNCHANGED dirs
          \/ FilesAt(d) = {} /\ dirs' = dirs \ {d} /\ UNCHANGED files
  /\ UNCHANGED <<store, entries, flushVars, mAvailable, call, crashes, history>>

(* Mutant: the flusher exits as soon as the destructor has been called.    *)
FlusherNextOrExit ==
  /\ flusher = "remove"
  /\ \A d \in dirs : Head(d) # mFlushDirNum
  /\ IF store = "closing"
     THEN flusher' = "exit" /\ UNCHANGED mFlushDirNum
     ELSE flusher' = "wait" /\ mFlushDirNum' = mFlushDirNum + 1
  /\ UNCHANGED <<diskVars, store, entries, mActiveDirNum, mFlusherSem,
                 mAvailable, call, crashes, history>>

FlusherNext ==
  /\ flusher = "remove"
  /\ \A d \in dirs : Head(d) # mFlushDirNum
  /\ IF mFlushDirNum = mActiveDirNum
     THEN flusher' = "exit" /\ UNCHANGED mFlushDirNum
     ELSE flusher' = "wait" /\ mFlushDirNum' = mFlushDirNum + 1
  /\ UNCHANGED <<diskVars, store, entries, mActiveDirNum, mFlusherSem,
                 mAvailable, call, crashes, history>>

------------------------------------------------------------------------------
Fits(size) == size <= mAvailable

(* The calls.  Write holds mApiMutex from its tests to its end; what it    *)
(* refuses (ALREADY_EXISTS, NO_SPACE) changes nothing.                     *)

Write(t, url, size) ==
  /\ MayCall(t)
  /\ \A f \in FilesAt(Active) : f.url # url
  /\ Fits(size)
  /\ dirs' = dirs \union {Active}
  /\ call' = [call EXCEPT ![t] = [pc |-> "create", url |-> url, size |-> size,
                                  retry |-> mFlushDirNum # mActiveDirNum,
                                  waited |-> 0]]
  /\ UNCHANGED <<files, store, entries, flushVars, mAvailable, crashes, history>>

CreateFile(t) ==
  /\ At(t, "create")
  /\ files' = files \union
       {[at |-> Active, url |-> call[t].url, size |-> 0, epoch |-> epoch]}
  /\ call' = [call EXCEPT ![t].pc = "write"]
  /\ UNCHANGED <<dirs, store, entries, flushVars, mAvailable, crashes, history>>

(* What has been created is removed when it cannot be written, and only    *)
(* for a full disk during a flush tried again, for a time.                 *)
WriteBuffer(t) ==
  LET c     == call[t]
      file  == [at |-> Active, url |-> c.url, size |-> 0, epoch |-> epoch]
      space == SizeOf(files) + c.size <= DiskSpace
      again == ~space /\ c.retry /\ c.waited < MaxWait
  IN
  /\ At(t, "write")
  /\ \/ /\ space
        /\ files' = (files \ {file}) \union {[file EXCEPT !.size = c.size]}
        /\ mAvailable' = mAvailable - c.size
        /\ kept' = kept \union {c.url}
        /\ call' = [call EXCEPT ![t] = Idle]
     \/ /\ again
        /\ files' = files \ {file}
        /\ call' = [call EXCEPT ![t].pc = "create", ![t].waited = @ + 1]
        /\ UNCHANGED <<mAvailable, kept>>
     \/ /\ files' = files \ {file} (* NO_SPACE, or another error *)
        /\ call' = [call EXCEPT ![t] = Idle]
        /\ UNCHANGED <<mAvailable, kept>>
  /\ UNCHANGED <<dirs, store, entries, flushVars, crashes, epoch, crashed>>

(* Mutant: the space is not given back.                                    *)
DeleteOnly(t, url) ==
  /\ MayCall(t)
  /\ \E f \in FilesAt(Active) : f.url = url /\ files' = files \ {f}
  /\ kept' = kept \ {url}
  /\ UNCHANGED <<dirs, store, entries, flushVars, mAvailable, call, crashes,
                 epoch, crashed>>

Delete(t, url) ==
  /\ MayCall(t)
  /\ \E f \in FilesAt(Active) :
       /\ f.url = url
       /\ files' = files \ {f}
       /\ mAvailable' = mAvailable + f.size
  /\ kept' = kept \ {url}
  /\ UNCHANGED <<dirs, store, entries, flushVars, call, crashes, epoch, crashed>>

Flush(t) ==
  /\ MayCall(t)
  /\ epoch < MaxEpochs
  /\ mActiveDirNum' = mActiveDirNum + 1
  /\ mAvailable' = Capacity
  /\ call' = [call EXCEPT ![t].pc = "post"]
  /\ epoch' = epoch + 1
  /\ kept' = {}
  /\ UNCHANGED <<diskVars, store, entries, mFlushDirNum, mFlusherSem, flusher,
                 crashes, crashed>>

(* Mutants: the flusher is told twice, or not at all.                      *)
PostTwice(t) ==
  /\ At(t, "post")
  /\ mFlusherSem' = mFlusherSem + 2
  /\ call' = [call EXCEPT ![t] = Idle]
  /\ UNCHANGED <<diskVars, store, entries, mFlushDirNum, mActiveDirNum, flusher,
                 mAvailable, crashes, history>>

PostNothing(t) ==
  /\ At(t, "post")
  /\ call' = [call EXCEPT ![t] = Idle]
  /\ UNCHANGED <<diskVars, store, entries, flushVars, mAvailable, crashes, history>>

(* The end of Flush, after mApiMutex is given up.                          *)
PostFlush(t) ==
  /\ At(t, "post")
  /\ mFlusherSem' = mFlusherSem + 1
  /\ call' = [call EXCEPT ![t] = Idle]
  /\ UNCHANGED <<diskVars, store, entries, mFlushDirNum, mActiveDirNum, flusher,
                 mAvailable, crashes, history>>

(* The destructor; nobody uses the store any more.                         *)
Destroy ==
  /\ store = "open"
  /\ \A t \in Threads : At(t, "idle")
  /\ store' = "closing"
  /\ mFlusherSem' = mFlusherSem + 1
  /\ kept' = {}
  /\ UNCHANGED <<diskVars, entries, mFlushDirNum, mActiveDirNum, flusher,
                 mAvailable, call, crashes, epoch, crashed>>

Join ==
  /\ store = "closing"
  /\ flusher = "exit"
  /\ store' = "none"
  /\ crashed' = FALSE
  /\ UNCHANGED <<diskVars, entries, flushVars, mAvailable, call, crashes, epoch,
                 kept>>

(* The process dies, or the power is cut.                                  *)
Crash ==
  /\ store # "none"
  /\ crashes < MaxCrashes
  /\ crashes' = crashes + 1
  /\ crashed' = TRUE
  /\ store' = "none"
  /\ entries' = {}
  /\ mFlusherSem' = 0
  /\ flusher' = "exit"
  /\ call' = [t \in Threads |-> Idle]
  /\ kept' = {}
  /\ UNCHANGED <<diskVars, mFlushDirNum, mActiveDirNum, mAvailable, epoch>>

------------------------------------------------------------------------------
Constructor == Construct \/ Constructed \/ \E d \in entries : MoveStale(d)
Flusher     == FlusherWait \/ RemoveEntry \/ FlusherNext
Finish(t)   == CreateFile(t) \/ WriteBuffer(t) \/ PostFlush(t)
Call(t)     ==
  \/ \E url \in Urls, size \in 1..MaxSize : Write(t, url, size)
  \/ \E url \in Urls : Delete(t, url)
  \/ Flush(t)

Next ==
  \/ Constructor \/ Flusher \/ Destroy \/ Join \/ Crash
  \/ \E t \in Threads : Call(t) \/ Finish(t)

Spec == Init /\ [][Next]_vars

(* The flusher is scheduled, a call that has begun goes on, and the        *)
(* destructor returns when it can.  Nobody has to call, nothing to crash.  *)
FairSpec ==
  /\ Spec
  /\ WF_vars(Flusher) /\ WF_vars(Join)
  /\ \A t \in Threads : WF_vars(Finish(t))

------------------------------------------------------------------------------
Paths == Seq(Nat)
Files == [at : Paths, url : Urls, size : Nat, epoch : Nat]

(* Every variable has a value of its kind.                                 *)
TypeOK ==
  /\ files \subseteq Files
  /\ dirs \subseteq Paths /\ entries \subseteq Paths
  /\ store \in {"none", "moving", "open", "closing"}
  /\ mFlushDirNum \in Nat /\ mActiveDirNum \in Nat
  /\ mAvailable \in Nat /\ mFlusherSem \in Nat
  /\ flusher \in {"wait", "remove", "exit"}
  /\ call \in [Threads -> [pc : {"idle", "create", "write", "post"}, url : Urls,
                           size : Nat, retry : BOOLEAN, waited : Nat]]
  /\ crashes \in Nat /\ epoch \in Nat
  /\ crashed \in BOOLEAN
  /\ kept \subseteq Urls

(* A segment that Write has stored stays whole in the active directory     *)
(* until it is deleted, flushed or the store destroyed: whatever flushes   *)
(* are behind, the flusher never removes from the directory in use.        *)
WrittenIsKept ==
  \A url \in kept : \E f \in FilesAt(Active) : f.url = url /\ f.size > 0

(* Between calls mAvailable is exactly what the files in use leave of the  *)
(* capacity, after failed writes, deletions and flushes too; so the store  *)
(* never outgrows its capacity and never refuses what it has room for.     *)
AccountingExact ==
  store = "open" /\ MutexFree =>
    mAvailable + SizeOf(FilesAt(Active)) = Capacity

(* A store is empty when it is constructed and after every flush: no file  *)
(* of before is in the active directory.                                   *)
NothingStale ==
  store = "open" => \A f \in FilesAt(Active) : f.epoch = epoch

(* A clean exit leaves nothing on the disk, not even what an earlier crash *)
(* had left there.                                                         *)
CleanExit == store = "none" /\ ~crashed => files = {} /\ dirs = {}

(* The destructor returns: the flusher gets as many posts as it has        *)
(* directories to remove before it may exit.                               *)
DestructorReturns == store = "closing" ~> store = "none"
==============================================================================
