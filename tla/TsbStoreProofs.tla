--------------------------- MODULE TsbStoreProofs ---------------------------
(***************************************************************************)
(* Proofs about TsbStore, for any threads, segments, sizes and bounds.     *)
(* Three of the properties fail when the process dies again before the     *)
(* flusher has removed what it left when it died before; they are proved   *)
(* for any number of crashes that are further apart than that.             *)
(***************************************************************************)
EXTENDS TsbStore, FiniteSetTheorems, SequenceTheorems, TLAPS

(* mApiMutex has one holder, who uses a store that is open, has found room *)
(* for its segment, and has the directory it writes to.                    *)
Holds(t) == call[t].pc \in {"create", "write"}

MutexInv ==
  /\ \A t, u \in Threads : Holds(t) /\ Holds(u) => t = u
  /\ \A t \in Threads : ~At(t, "idle") => store = "open"
  /\ \A t \in Threads :
       Holds(t) => call[t].size > 0 /\ Fits(call[t].size) /\ Active \in dirs

(* The semaphore: the flusher is told once for every directory it has to   *)
(* remove, and so it never comes to the active one before the destructor.  *)
Posting  == {t \in Threads : At(t, "post")}
Removing == IF flusher = "remove" THEN 1 ELSE 0

FlusherInv ==
  /\ store = "open" =>
       /\ flusher # "exit"
       /\ mFlushDirNum + Removing + mFlusherSem + Cardinality(Posting) = mActiveDirNum
  /\ store = "closing" =>
       IF flusher = "exit" THEN mFlushDirNum = mActiveDirNum
       ELSE mFlushDirNum + Removing + mFlusherSem = mActiveDirNum + 1
  /\ store = "moving" => mFlushDirNum = 0 /\ mActiveDirNum = 1
  /\ store \in {"none", "moving"} => flusher = "exit"

KeptInv == store # "open" => kept = {}

(* What is on the disk: numbered directories and, in 0, moved ones.        *)
IsTop(d)   == d = <<d[1]>> /\ d[1] \in Nat \ {0}
IsMoved(d) == Len(d) = 2 /\ d = <<0, d[2]>> /\ d[2] \in Nat \ {0}

DiskInv ==
  /\ \A d \in dirs : IsTop(d) \/ IsMoved(d)
  /\ \A f \in files : f.at \in dirs
  /\ \A d \in entries : IsTop(d)
  /\ IsFiniteSet(files)
  /\ mActiveDirNum > 0

(* A crash finds nothing in directory 0: the flusher has done with what    *)
(* the last one had left.                                                  *)
CrashesApart == Crash => \A d \in dirs : IsTop(d)

SparseCrashes == Spec /\ [][CrashesApart]_vars

(* Then directories are moved only once, so that a rename always finds its *)
(* target free, and the directories of an open store are those between the *)
(* flusher's and the active one.                                           *)
CrashInv ==
  /\ crashes = 0 => ~crashed /\ \A d \in dirs : IsTop(d)
  /\ crashes = 0 /\ store = "moving" => dirs = {}
  /\ store = "none" => \A d \in dirs : IsTop(d)
  /\ store = "none" /\ ~crashed => dirs = {}
  /\ store = "moving" =>
       /\ entries \subseteq dirs
       /\ \A d \in dirs : d \in entries \/ IsMoved(d)
       /\ \A d \in entries : <<0>> \o d \notin dirs
  /\ store \in {"open", "closing"} =>
       \A d \in dirs : Head(d) \in mFlushDirNum .. mActiveDirNum
  /\ store = "closing" /\ flusher = "exit" => dirs = {}

(* A segment that is being written has no file yet, or an empty one.       *)
NewFile(t) == [at |-> Active, url |-> call[t].url, size |-> 0, epoch |-> epoch]

WritingInv ==
  \A t \in Threads :
    /\ At(t, "create") => \A f \in FilesAt(Active) : f.url # call[t].url
    /\ At(t, "write")  =>
         /\ NewFile(t) \in files
         /\ \A f \in FilesAt(Active) : f.url = call[t].url => f = NewFile(t)

SpaceInv == store = "open" => mAvailable + SizeOf(FilesAt(Active)) = Capacity

------------------------------------------------------------------------------
(* Sums of sizes.  SizeOf is a fold, which is a recursive function on the  *)
(* subsets of its argument; that it satisfies its equation, and that the   *)
(* order of the elements does not matter, is shown by minimal              *)
(* counterexamples.                                                        *)

Pick(s)   == CHOOSE x \in s : TRUE
Rec(g, s) == IF s = {} THEN 0 ELSE Pick(s).size + g[s \ {Pick(s)}]
Sums(g, S) == g = [s \in SUBSET S |-> Rec(g, s)]
Iter(S)   == CHOOSE g : Sums(g, S)

LEMMA MinimalSet ==
  ASSUME NEW S, IsFiniteSet(S), NEW Bad \in SUBSET (SUBSET S), Bad # {}
  PROVE  \E T \in Bad : \A U \in Bad : U \subseteq T => U = T
<1>1. IsWellFoundedOn(StrictSubsetOrdering(S), SUBSET S)
  BY FS_StrictSubsetOrderingWellFounded, FS_FiniteSubsetsOfFinite
<1>2. PICK T \in Bad : \A U \in Bad : ~ (<<U, T>> \in StrictSubsetOrdering(S))
  BY <1>1, WFMin
<1>3. ASSUME NEW U \in Bad, U \subseteq T
      PROVE  U = T
  BY <1>2, <1>3 DEF StrictSubsetOrdering
<1> QED BY <1>3

LEMMA PickOne == ASSUME NEW s, s # {} PROVE Pick(s) \in s
  BY DEF Pick

LEMMA SizeOfIter == ASSUME NEW S PROVE SizeOf(S) = Iter(S)[S]
  BY DEF SizeOf, MapThenSumSet, MapThenFoldSet, Iter, Sums, Rec, Pick

LEMMA SumsUnique ==
  ASSUME NEW S, IsFiniteSet(S), NEW g, Sums(g, S), NEW h, Sums(h, S)
  PROVE  g = h
<1> DEFINE Bad == {s \in SUBSET S : g[s] # h[s]}
<1>1. Bad = {}
  <2> SUFFICES ASSUME Bad # {} PROVE FALSE OBVIOUS
  <2>0. Bad \in SUBSET (SUBSET S)
    OBVIOUS
  <2>1. PICK T \in Bad : \A U \in Bad : U \subseteq T => U = T
    <3> HIDE DEF Bad
    <3> QED BY <2>0, MinimalSet
  <2>2. g[T] = Rec(g, T) /\ h[T] = Rec(h, T)
    BY DEF Sums
  <2>3. T # {}
    BY <2>1, <2>2 DEF Rec
  <2>4. Pick(T) \in T /\ T \ {Pick(T)} \in SUBSET S
    BY <2>3, PickOne
  <2>5. g[T \ {Pick(T)}] = h[T \ {Pick(T)}]
    BY <2>1, <2>4
  <2> QED BY <2>1, <2>2, <2>3, <2>5 DEF Rec
<1>2. /\ g = [s \in SUBSET S |-> g[s]]
      /\ h = [s \in SUBSET S |-> h[s]]
  BY DEF Sums
<1> QED BY <1>1, <1>2

LEMMA SumsRestrict ==
  ASSUME NEW S, NEW g, Sums(g, S), NEW u \in SUBSET S
  PROVE  Sums([r \in SUBSET u |-> g[r]], u)
<1> DEFINE h == [r \in SUBSET u |-> g[r]]
<1>1. ASSUME NEW r \in SUBSET u
      PROVE  h[r] = Rec(h, r)
  <2>1. g[r] = Rec(g, r)
    BY DEF Sums
  <2>2. CASE r = {}
    BY <2>1, <2>2 DEF Rec
  <2>3. CASE r # {}
    <3>1. r \ {Pick(r)} \in SUBSET u
      OBVIOUS
    <3>2. h[r \ {Pick(r)}] = g[r \ {Pick(r)}]
      BY <3>1
    <3> QED BY <2>1, <2>3, <3>2 DEF Rec
  <2> QED BY <2>2, <2>3
<1> QED BY <1>1 DEF Sums

LEMMA SumsSubset ==
  ASSUME NEW S, IsFiniteSet(S), NEW g, Sums(g, S),
         NEW u \in SUBSET S, NEW h, Sums(h, u)
  PROVE  g[u] = h[u]
<1>1. IsFiniteSet(u)
  BY FS_Subset
<1>2. Sums([r \in SUBSET u |-> g[r]], u)
  BY SumsRestrict
<1>3. [r \in SUBSET u |-> g[r]] = h
  BY <1>1, <1>2, SumsUnique
<1> QED BY <1>3

(* The recursion equation has a solution.                                  *)
LEMMA IterSums == ASSUME NEW S, IsFiniteSet(S) PROVE Sums(Iter(S), S)
<1> DEFINE Bad == {s \in SUBSET S : ~ Sums(Iter(s), s)}
<1> SUFFICES Bad = {} OBVIOUS
<1> SUFFICES ASSUME Bad # {} PROVE FALSE OBVIOUS
<1>0. Bad \in SUBSET (SUBSET S)
  OBVIOUS
<1>1. PICK T \in Bad : \A U \in Bad : U \subseteq T => U = T
  <2> HIDE DEF Bad
  <2> QED BY <1>0, MinimalSet
<1>2. \A U \in SUBSET T : U # T => Sums(Iter(U), U)
  BY <1>1
<1> DEFINE rest == T \ {Pick(T)}
           last == IF T = {} THEN 0 ELSE Pick(T).size + Iter(rest)[rest]
           h == [s \in SUBSET T |-> IF s = T THEN last ELSE Iter(s)[s]]
<1>3. ASSUME NEW s \in SUBSET T
      PROVE  h[s] = Rec(h, s)
  <2>1. CASE s = {} /\ s = T
    BY <2>1 DEF Rec
  <2>2. CASE s # {} /\ s = T
    <3>1. rest \in SUBSET T /\ rest # T
      BY <2>2, PickOne
    <3> QED BY <2>2, <3>1 DEF Rec
  <2>3. CASE s # T
    <3>1. Sums(Iter(s), s)
      BY <1>2, <2>3
    <3>2. Iter(s)[s] = Rec(Iter(s), s)
      BY <3>1 DEF Sums
    <3>3. CASE s = {}
      BY <2>3, <3>2, <3>3 DEF Rec
    <3>4. CASE s # {}
      <4> DEFINE u == s \ {Pick(s)}
      <4>1. u \in SUBSET s /\ u \in SUBSET T /\ u # T
        BY <2>3
      <4>2. Sums(Iter(u), u)
        BY <1>2, <4>1
      <4>3. IsFiniteSet(s)
        BY FS_Subset
      <4>4. Iter(s)[u] = Iter(u)[u]
        <5> HIDE DEF u
        <5> QED BY <3>1, <4>1, <4>2, <4>3, SumsSubset
      <4>5. h[u] = Iter(u)[u] /\ h[s] = Iter(s)[s]
        BY <2>3, <4>1
      <4> QED BY <3>2, <3>4, <4>4, <4>5 DEF Rec
    <3> QED BY <3>3, <3>4
  <2> QED BY <2>1, <2>2, <2>3
<1>4. Sums(h, T)
  <2>1. h = [s \in SUBSET T |-> h[s]]
    OBVIOUS
  <2> HIDE DEF h
  <2> QED BY <1>3, <2>1 DEF Sums
<1>5. Sums(Iter(T), T)
  <2> HIDE DEF h
  <2> QED BY <1>4, Zenon DEF Iter
<1> QED BY <1>1, <1>5

LEMMA SizeOfEmpty == SizeOf({}) = 0
<1>1. Sums(Iter({}), {})
  BY IterSums, FS_EmptySet
<1>2. Iter({})[{}] = Rec(Iter({}), {})
  BY <1>1 DEF Sums
<1> QED BY <1>2, SizeOfIter DEF Rec

LEMMA SizeOfPick ==
  ASSUME NEW S, IsFiniteSet(S), S # {}
  PROVE  SizeOf(S) = Pick(S).size + SizeOf(S \ {Pick(S)})
<1> DEFINE u == S \ {Pick(S)}
<1>1. Sums(Iter(S), S)
  BY IterSums
<1>2. IsFiniteSet(u) /\ u \in SUBSET S
  BY FS_RemoveElement
<1>3. Sums(Iter(u), u)
  BY <1>2, IterSums
<1>4. Iter(S)[u] = Iter(u)[u]
  <2> HIDE DEF u
  <2> QED BY <1>1, <1>2, <1>3, SumsSubset
<1>5. Iter(S)[S] = Rec(Iter(S), S)
  BY <1>1 DEF Sums
<1> QED BY <1>4, <1>5, SizeOfIter DEF Rec

Sized(S) == IsFiniteSet(S) /\ \A f \in S : f.size \in Nat

(* Any element may be taken out first.                                     *)
LEMMA SizeOfRemove ==
  ASSUME NEW S, Sized(S)
  PROVE  /\ SizeOf(S) \in Nat
         /\ \A x \in S : SizeOf(S) = x.size + SizeOf(S \ {x})
<1> DEFINE Good(T) == /\ SizeOf(T) \in Nat
                      /\ \A x \in T : SizeOf(T) = x.size + SizeOf(T \ {x})
           Bad == {T \in SUBSET S : ~ Good(T)}
<1> SUFFICES Bad = {} OBVIOUS
<1> SUFFICES ASSUME Bad # {} PROVE FALSE OBVIOUS
<1>0. Bad \in SUBSET (SUBSET S)
  OBVIOUS
<1>1. PICK T \in Bad : \A U \in Bad : U \subseteq T => U = T
  <2> HIDE DEF Bad
  <2> QED BY <1>0, MinimalSet DEF Sized
<1>2. \A U \in SUBSET T : U # T => Good(U)
  BY <1>1
<1>3. IsFiniteSet(T) /\ \A f \in T : f.size \in Nat
  BY FS_Subset DEF Sized
<1>4. CASE T = {}
  BY <1>1, <1>4, SizeOfEmpty
<1>5. CASE T # {}
  <2> DEFINE y == Pick(T)
  <2>1. y \in T /\ SizeOf(T) = y.size + SizeOf(T \ {y})
    BY <1>3, <1>5, PickOne, SizeOfPick
  <2> HIDE DEF y
  <2>2. Good(T \ {y})
    BY <1>2, <2>1
  <2>3. ASSUME NEW x \in T
        PROVE  SizeOf(T) = x.size + SizeOf(T \ {x})
    <3>1. CASE x = y
      BY <2>1, <3>1
    <3>2. CASE x # y
      <4>1. Good(T \ {x})
        BY <1>2
      <4>2. (T \ {x}) \ {y} = (T \ {y}) \ {x}
        OBVIOUS
      <4>3. SizeOf(T \ {x}) = y.size + SizeOf((T \ {x}) \ {y})
        BY <2>1, <3>2, <4>1
      <4>4. SizeOf(T \ {y}) = x.size + SizeOf((T \ {y}) \ {x})
        BY <2>2, <3>2
      <4>5. SizeOf((T \ {y}) \ {x}) \in Nat
        <5>1. (T \ {y}) \ {x} \in SUBSET T /\ (T \ {y}) \ {x} # T
          BY <2>1
        <5> QED BY <1>2, <5>1
      <4>6. x.size \in Nat /\ y.size \in Nat
        BY <1>3, <2>1
      <4> DEFINE c == SizeOf((T \ {y}) \ {x})
      <4>7. SizeOf(T \ {x}) = y.size + c
        BY <4>2, <4>3
      <4>8. SizeOf(T) = y.size + (x.size + c)
        BY <2>1, <4>4
      <4>9. c \in Nat
        BY <4>5
      <4> HIDE DEF Good, Bad, c
      <4> QED BY <4>6, <4>7, <4>8, <4>9
    <3> QED BY <3>1, <3>2
  <2>4. SizeOf(T) \in Nat
    BY <1>3, <2>1, <2>2
  <2> QED BY <1>1, <2>3, <2>4
<1> QED BY <1>4, <1>5

LEMMA SizeOfAdd ==
  ASSUME NEW S, Sized(S), NEW x, x \notin S, x.size \in Nat
  PROVE  SizeOf(S \union {x}) = x.size + SizeOf(S)
<1>1. Sized(S \union {x})
  BY FS_AddElement DEF Sized
<1>2. (S \union {x}) \ {x} = S
  OBVIOUS
<1> QED BY <1>1, <1>2, SizeOfRemove

------------------------------------------------------------------------------
(* Types, and the mutex they depend on.                                    *)
Calls == [pc : {"idle", "create", "write", "post"}, url : Urls,
          size : Nat, retry : BOOLEAN, waited : Nat]

LEMMA IdleCall == Idle \in Calls /\ Idle.pc = "idle"
<1>1. (CHOOSE u \in Urls : TRUE) \in Urls
  BY StoreAssumption
<1> QED BY <1>1 DEF Idle, Calls

LEMMA ActivePath == ASSUME TypeOK PROVE Active \in Paths
  BY DEF TypeOK, Active, Paths

LEMMA PostingFinite == IsFiniteSet(Posting) /\ Cardinality(Posting) \in Nat
<1>1. Posting \in SUBSET Threads
  BY DEF Posting
<1> QED BY <1>1, StoreAssumption, FS_Subset, FS_CardinalityType

LEMMA TypeInit == Init => TypeOK /\ MutexInv
<1> SUFFICES ASSUME Init PROVE TypeOK /\ MutexInv OBVIOUS
<1>1. call \in [Threads -> Calls] /\ \A t \in Threads : At(t, "idle")
  BY IdleCall DEF Init, At
<1> QED BY <1>1 DEF Init, TypeOK, MutexInv, Calls, Holds, At

LEMMA TypeStep == TypeOK /\ MutexInv /\ [Next]_vars => TypeOK'
<1> SUFFICES ASSUME TypeOK, MutexInv, [Next]_vars PROVE TypeOK' OBVIOUS
<1> USE StoreAssumption
<1>1. CASE Construct
  BY <1>1 DEF TypeOK, Construct, diskVars
<1>2. CASE Constructed
  BY <1>2 DEF TypeOK, Constructed, diskVars, history
<1>3. ASSUME NEW d \in entries, MoveStale(d) PROVE TypeOK'
  <2> DEFINE target == <<0>> \o d
  <2>1. target \in Paths /\ d \in Paths
    <3>1. <<0>> \in Seq(Nat) /\ d \in Seq(Nat)
      BY DEF TypeOK, Paths
    <3> QED BY <3>1, ConcatProperties DEF Paths
  <2> HIDE DEF target
  <2>2. {IF f.at = d THEN [f EXCEPT !.at = target] ELSE f : f \in files} \subseteq Files
    BY <2>1 DEF TypeOK, Files
  <2>3. files' \subseteq Files /\ dirs' \subseteq Paths
    BY <1>3, <2>1, <2>2 DEF MoveStale, TypeOK, diskVars, target
  <2> QED BY <1>3, <2>3 DEF TypeOK, MoveStale, flushVars, history
<1>4. CASE FlusherWait
  BY <1>4 DEF TypeOK, FlusherWait, diskVars, history
<1>5. CASE RemoveEntry
  <2>1. files' \subseteq files /\ dirs' \subseteq dirs
    BY <1>5 DEF RemoveEntry
  <2> QED BY <1>5, <2>1 DEF TypeOK, RemoveEntry, flushVars, history
<1>6. CASE FlusherNext
  BY <1>6 DEF TypeOK, FlusherNext, diskVars, history
<1>7. CASE Destroy
  BY <1>7 DEF TypeOK, Destroy, diskVars
<1>8. CASE Join
  BY <1>8 DEF TypeOK, Join, diskVars, flushVars
<1>9. CASE Crash
  <2>1. call' \in [Threads -> Calls]
    BY <1>9, IdleCall DEF Crash
  <2> QED BY <1>9, <2>1 DEF TypeOK, Crash, diskVars, Calls
<1>10. ASSUME NEW t \in Threads, NEW url \in Urls, NEW size \in 1 .. MaxSize,
              Write(t, url, size)
       PROVE  TypeOK'
  <2>1. call' \in [Threads -> Calls]
    BY <1>10 DEF Write, TypeOK, Calls
  <2>2. dirs' \subseteq Paths
    BY <1>10, ActivePath DEF Write, TypeOK
  <2> QED BY <1>10, <2>1, <2>2 DEF TypeOK, Write, flushVars, history, Calls
<1>11. ASSUME NEW t \in Threads, NEW url \in Urls, Delete(t, url) PROVE TypeOK'
  <2>1. PICK f \in FilesAt(Active) :
          files' = files \ {f} /\ mAvailable' = mAvailable + f.size
    BY <1>11 DEF Delete
  <2>2. f.size \in Nat
    BY DEF FilesAt, TypeOK, Files
  <2> QED BY <1>11, <2>1, <2>2 DEF TypeOK, Delete, flushVars
<1>12. ASSUME NEW t \in Threads, Flush(t) PROVE TypeOK'
  <2>1. call' \in [Threads -> Calls]
    BY <1>12 DEF Flush, TypeOK, Calls
  <2> QED BY <1>12, <2>1 DEF TypeOK, Flush, diskVars, Calls
<1>13. ASSUME NEW t \in Threads, CreateFile(t) PROVE TypeOK'
  <2>1. call' \in [Threads -> Calls]
    BY <1>13 DEF CreateFile, TypeOK, Calls
  <2>2. [at |-> Active, url |-> call[t].url, size |-> 0, epoch |-> epoch] \in Files
    BY ActivePath DEF TypeOK, Files
  <2> QED BY <1>13, <2>1, <2>2 DEF TypeOK, CreateFile, flushVars, history, Calls
<1>14. ASSUME NEW t \in Threads, WriteBuffer(t) PROVE TypeOK'
  <2> DEFINE file == [at |-> Active, url |-> call[t].url, size |-> 0, epoch |-> epoch]
             new  == [file EXCEPT !.size = call[t].size]
  <2>1. new \in Files /\ call[t].url \in Urls /\ call[t].size \in Nat
    BY ActivePath DEF TypeOK, Files
  <2>2. mAvailable - call[t].size \in Nat
    BY <1>14 DEF TypeOK, MutexInv, Holds, WriteBuffer, At, Fits
  <2>3. Idle \in Calls
    BY IdleCall
  <2>4. call' \in [Threads -> Calls]
    <3>0. call \in [Threads -> Calls]
      BY DEF TypeOK, Calls
    <3>1. \/ call' = [call EXCEPT ![t] = Idle]
          \/ call' = [call EXCEPT ![t].pc = "create", ![t].waited = @ + 1]
      BY <1>14 DEF WriteBuffer
    <3>2. CASE call' = [call EXCEPT ![t] = Idle]
      BY <2>3, <3>0, <3>2
    <3>3. CASE call' = [call EXCEPT ![t].pc = "create", ![t].waited = @ + 1]
      BY <3>0, <3>3 DEF Calls
    <3> QED BY <3>1, <3>2, <3>3
  <2>5. files' \subseteq files \union {new} /\ kept' \subseteq kept \union {call[t].url}
        /\ mAvailable' \in {mAvailable, mAvailable - call[t].size}
    BY <1>14 DEF WriteBuffer
  <2>6. UNCHANGED <<dirs, store, entries, flushVars, crashes, epoch, crashed>>
    BY <1>14 DEF WriteBuffer
  <2> HIDE DEF file, new
  <2> QED BY <2>1, <2>2, <2>4, <2>5, <2>6 DEF TypeOK, flushVars, Calls
<1>15. ASSUME NEW t \in Threads, PostFlush(t) PROVE TypeOK'
  <2>1. call' \in [Threads -> Calls]
    BY <1>15, IdleCall DEF PostFlush, TypeOK, Calls
  <2> QED BY <1>15, <2>1 DEF TypeOK, PostFlush, diskVars, history, Calls
<1>16. CASE UNCHANGED vars
  BY <1>16 DEF TypeOK, vars, diskVars, flushVars, history
<1> QED
  BY <1>1, <1>2, <1>3, <1>4, <1>5, <1>6, <1>7, <1>8, <1>9, <1>10, <1>11, <1>12,
     <1>13, <1>14, <1>15, <1>16
  DEF Next, Constructor, Flusher, Call, Finish

LEMMA MutexStep == TypeOK /\ MutexInv /\ FlusherInv /\ [Next]_vars => MutexInv'
<1> SUFFICES ASSUME TypeOK, MutexInv, FlusherInv, [Next]_vars PROVE MutexInv' OBVIOUS
<1> USE DEF Holds, At, Active, Fits
<1>1. CASE Construct
  BY <1>1 DEF TypeOK, MutexInv, Construct, diskVars
<1>2. CASE Constructed
  BY <1>2 DEF TypeOK, MutexInv, Constructed, diskVars
<1>3. ASSUME NEW d \in entries, MoveStale(d) PROVE MutexInv'
  BY <1>3 DEF TypeOK, MutexInv, MoveStale, flushVars
<1>4. CASE FlusherWait
  BY <1>4 DEF MutexInv, FlusherWait, diskVars
<1>5. CASE RemoveEntry
  <2>1. UNCHANGED <<store, mActiveDirNum, mAvailable, call>>
    BY <1>5 DEF RemoveEntry, flushVars
  <2>2. ASSUME NEW t \in Threads, Holds(t)
        PROVE  Active \in dirs'
    <3>1. store = "open" /\ Active \in dirs
      BY <2>2 DEF MutexInv
    <3>2. mFlushDirNum # mActiveDirNum
      BY <1>5, <3>1, PostingFinite DEF FlusherInv, Removing, RemoveEntry, TypeOK
    <3>3. Head(Active) # mFlushDirNum
      BY <3>2
    <3> QED BY <1>5, <3>1, <3>3 DEF RemoveEntry
  <2> QED BY <2>1, <2>2 DEF MutexInv
<1>6. CASE FlusherNext
  BY <1>6 DEF MutexInv, FlusherNext, diskVars
<1>7. CASE Destroy
  BY <1>7 DEF MutexInv, Destroy, diskVars
<1>8. CASE Join
  BY <1>8 DEF TypeOK, MutexInv, Join, diskVars, flushVars
<1>9. CASE Crash
  BY <1>9, IdleCall DEF MutexInv, Crash
<1>10. ASSUME NEW t \in Threads, NEW url \in Urls, NEW size \in 1 .. MaxSize,
              Write(t, url, size)
       PROVE  MutexInv'
  BY <1>10 DEF TypeOK, MutexInv, Write, MayCall, MutexFree, flushVars
<1>11. ASSUME NEW t \in Threads, NEW url \in Urls, Delete(t, url) PROVE MutexInv'
  BY <1>11 DEF MutexInv, Delete, MayCall, MutexFree, flushVars
<1>12. ASSUME NEW t \in Threads, Flush(t) PROVE MutexInv'
  BY <1>12 DEF TypeOK, MutexInv, Flush, MayCall, MutexFree, diskVars
<1>13. ASSUME NEW t \in Threads, CreateFile(t) PROVE MutexInv'
  BY <1>13 DEF TypeOK, MutexInv, CreateFile, flushVars
<1>14. ASSUME NEW t \in Threads, WriteBuffer(t) PROVE MutexInv'
  <2>1. UNCHANGED <<dirs, store, mActiveDirNum>>
    BY <1>14 DEF WriteBuffer, flushVars
  <2>2. \A u \in Threads : u # t => call'[u] = call[u] /\ ~Holds(u)
    BY <1>14 DEF WriteBuffer, TypeOK, MutexInv
  <2>3. \/ call'[t] = Idle
        \/ /\ call'[t].pc = "create" /\ call'[t].size = call[t].size
           /\ mAvailable' = mAvailable
    BY <1>14 DEF WriteBuffer, TypeOK
  <2>4. Holds(t)
    BY <1>14 DEF WriteBuffer
  <2> QED BY <2>1, <2>2, <2>3, <2>4, IdleCall DEF MutexInv
<1>15. ASSUME NEW t \in Threads, PostFlush(t) PROVE MutexInv'
  BY <1>15, IdleCall DEF TypeOK, MutexInv, PostFlush, diskVars
<1>16. CASE UNCHANGED vars
  BY <1>16 DEF MutexInv, vars, diskVars, flushVars
<1> QED
  BY <1>1, <1>2, <1>3, <1>4, <1>5, <1>6, <1>7, <1>8, <1>9, <1>10, <1>11, <1>12,
     <1>13, <1>14, <1>15, <1>16
  DEF Next, Constructor, Flusher, Call, Finish

------------------------------------------------------------------------------
LEMMA FlusherStep ==
  TypeOK /\ MutexInv /\ FlusherInv /\ [Next]_vars => FlusherInv'
<1> SUFFICES ASSUME TypeOK, MutexInv, FlusherInv, [Next]_vars
             PROVE  FlusherInv'
  OBVIOUS
<1> USE DEF FlusherInv, Removing
<1>0. Cardinality(Posting) \in Nat /\ IsFiniteSet(Posting)
  BY PostingFinite
<1>1. CASE Construct
  BY <1>1 DEF TypeOK, Construct
<1>2. CASE Constructed
  <2>1. Posting' = {}
    BY <1>2 DEF Constructed, Posting, MutexInv, At
  <2> QED BY <1>2, <2>1, FS_EmptySet DEF TypeOK, Constructed
<1>3. CASE Destroy
  <2>1. Posting = {}
    BY <1>3 DEF Destroy, Posting, At
  <2> QED BY <1>3, <2>1, FS_EmptySet DEF TypeOK, Destroy
<1>4. CASE Crash
  BY <1>4 DEF Crash
<1>5. ASSUME NEW t \in Threads, Flush(t) PROVE FlusherInv'
  <2>1. Posting' = Posting \union {t} /\ t \notin Posting
    BY <1>5 DEF Flush, Posting, At, MayCall, TypeOK
  <2>2. Cardinality(Posting') = Cardinality(Posting) + 1
    BY <1>0, <2>1, FS_AddElement
  <2> QED BY <1>0, <1>5, <2>2 DEF TypeOK, Flush, MayCall
<1>6. ASSUME NEW t \in Threads, PostFlush(t) PROVE FlusherInv'
  <2>1. Posting' = Posting \ {t} /\ t \in Posting
    BY <1>6, IdleCall DEF PostFlush, Posting, At, TypeOK
  <2>2. Cardinality(Posting') = Cardinality(Posting) - 1
    BY <1>0, <2>1, FS_RemoveElement
  <2>3. store = "open"
    BY <1>6 DEF PostFlush, MutexInv, At
  <2> QED BY <1>0, <1>6, <2>2, <2>3 DEF TypeOK, PostFlush
<1>7. ASSUME UNCHANGED Posting,
             FlusherWait \/ FlusherNext \/ Join \/ UNCHANGED <<store, flushVars>>
      PROVE  FlusherInv'
  BY <1>0, <1>7 DEF TypeOK, FlusherWait, FlusherNext, Join, flushVars
<1>8. CASE FlusherWait \/ FlusherNext \/ Join
  <2>1. UNCHANGED Posting
    BY <1>8 DEF Posting, At, FlusherWait, FlusherNext, Join
  <2> QED BY <1>7, <1>8, <2>1
<1>9. ASSUME NEW t \in Threads, NEW url \in Urls,
             \/ \E size \in 1 .. MaxSize : Write(t, url, size)
             \/ Delete(t, url)
      PROVE  FlusherInv'
  <2>1. UNCHANGED Posting
    BY <1>9 DEF Posting, At, Write, Delete, MayCall, TypeOK
  <2>2. UNCHANGED <<store, flushVars>>
    BY <1>9 DEF Write, Delete
  <2> QED BY <1>7, <2>1, <2>2
<1>10. ASSUME NEW t \in Threads, CreateFile(t) \/ WriteBuffer(t)
       PROVE  FlusherInv'
  <2>1. \A u \in Threads : u # t => call'[u] = call[u]
    BY <1>10 DEF CreateFile, WriteBuffer, TypeOK
  <2>2. call[t].pc # "post" /\ call'[t].pc # "post"
    BY <1>10, IdleCall DEF CreateFile, WriteBuffer, TypeOK, At
  <2>3. UNCHANGED Posting
    BY <2>1, <2>2 DEF Posting, At
  <2>4. UNCHANGED <<store, flushVars>>
    BY <1>10 DEF CreateFile, WriteBuffer
  <2> QED BY <1>7, <2>3, <2>4
<1>11. CASE RemoveEntry \/ (\E d \in entries : MoveStale(d)) \/ UNCHANGED vars
  <2>1. UNCHANGED <<store, flushVars, call>>
    BY <1>11 DEF RemoveEntry, MoveStale, vars
  <2>2. UNCHANGED Posting
    BY <2>1 DEF Posting, At
  <2> QED BY <1>7, <2>1, <2>2
<1> QED
  BY <1>1, <1>2, <1>3, <1>4, <1>5, <1>6, <1>8, <1>9, <1>10, <1>11
  DEF Next, Constructor, Flusher, Call, Finish

StoreInv == TypeOK /\ MutexInv /\ FlusherInv

LEMMA StoreInvariant == Spec => []StoreInv
<1>1. Init => StoreInv
  <2>1. Init => FlusherInv
    BY DEF Init, FlusherInv
  <2> QED BY <2>1, TypeInit DEF StoreInv
<1>2. StoreInv /\ [Next]_vars => StoreInv'
  BY TypeStep, MutexStep, FlusherStep DEF StoreInv
<1> QED BY <1>1, <1>2, PTL DEF Spec

(* Types are correct in every reachable state: mAvailable and the          *)
(* semaphore never go below zero, although a write takes its space long    *)
(* after it has tested for it.                                             *)
THEOREM StoreTypesCorrect == Spec => []TypeOK
<1>1. StoreInv => TypeOK
  BY DEF StoreInv
<1> QED BY <1>1, StoreInvariant, PTL

(* The flusher removes nothing from the directory in use.                  *)
LEMMA FlusherBehind ==
  ASSUME StoreInv, store = "open", flusher = "remove"
  PROVE  mFlushDirNum < mActiveDirNum
  BY PostingFinite DEF StoreInv, TypeOK, FlusherInv, Removing

LEMMA RemoveKeepsActive ==
  ASSUME StoreInv, store = "open", RemoveEntry
  PROVE  FilesAt(Active)' = FilesAt(Active)
<1>1. UNCHANGED Active
  BY DEF RemoveEntry, flushVars, Active
<1>2. mFlushDirNum < mActiveDirNum
  BY FlusherBehind DEF RemoveEntry
<1>3. Head(Active) # mFlushDirNum
  BY <1>2 DEF Active, StoreInv, TypeOK
<1>4. \A f \in files : f.at = Active => f \in files'
  BY <1>3 DEF RemoveEntry, FilesAt
<1>5. files' \subseteq files
  BY DEF RemoveEntry
<1> QED BY <1>1, <1>4, <1>5 DEF FilesAt

------------------------------------------------------------------------------
(* WrittenIsKept, after any number of crashes.                             *)

LEMMA KeptStep ==
  StoreInv /\ KeptInv /\ WrittenIsKept /\ [Next]_vars => KeptInv' /\ WrittenIsKept'
<1> SUFFICES ASSUME StoreInv, KeptInv, WrittenIsKept, [Next]_vars
             PROVE  KeptInv' /\ WrittenIsKept'
  OBVIOUS
<1>0. ASSUME UNCHANGED <<store, Active, kept>>, FilesAt(Active) \subseteq FilesAt(Active)'
      PROVE  KeptInv' /\ WrittenIsKept'
  BY <1>0 DEF KeptInv, WrittenIsKept
<1>1. ASSUME kept' = {}
      PROVE  KeptInv' /\ WrittenIsKept'
  BY <1>1 DEF KeptInv, WrittenIsKept
<1>2. CASE \/ Construct \/ Constructed \/ Destroy \/ Join \/ Crash
           \/ \E t \in Threads : Flush(t)
  <2>1. kept' = {}
    BY <1>2 DEF KeptInv, Construct, Constructed, Destroy, Join, Crash, Flush, history
  <2> QED BY <1>1, <2>1
<1>3. ASSUME NEW d \in entries, MoveStale(d) PROVE KeptInv' /\ WrittenIsKept'
  <2>1. kept' = {}
    BY <1>3 DEF KeptInv, MoveStale, history
  <2> QED BY <1>1, <2>1
<1>4. CASE FlusherWait \/ FlusherNext \/ UNCHANGED vars
  <2>1. UNCHANGED <<store, Active, kept, files>>
    BY <1>4 DEF FlusherWait, FlusherNext, vars, diskVars, flushVars, history, Active
  <2> QED BY <1>0, <2>1 DEF FilesAt
<1>5. CASE RemoveEntry
  <2>1. UNCHANGED <<store, Active, kept>>
    BY <1>5 DEF RemoveEntry, flushVars, history, Active
  <2>2. CASE store = "open"
    BY <1>0, <1>5, <2>1, <2>2, RemoveKeepsActive
  <2>3. CASE store # "open"
    BY <1>1, <2>1, <2>3 DEF KeptInv
  <2> QED BY <2>2, <2>3
<1>6. ASSUME NEW t \in Threads,
             \/ PostFlush(t)
             \/ CreateFile(t)
             \/ \E url \in Urls, size \in 1 .. MaxSize : Write(t, url, size)
      PROVE  KeptInv' /\ WrittenIsKept'
  <2>1. UNCHANGED <<store, Active, kept>> /\ files \subseteq files'
    BY <1>6 DEF PostFlush, CreateFile, Write, diskVars, flushVars, history, Active
  <2> QED BY <1>0, <2>1 DEF FilesAt
<1>7. ASSUME NEW t \in Threads, NEW url \in Urls, Delete(t, url)
      PROVE  KeptInv' /\ WrittenIsKept'
  <2>1. UNCHANGED <<store, Active>> /\ store = "open"
    BY <1>7 DEF Delete, flushVars, Active, MayCall
  <2>2. PICK f \in FilesAt(Active) : f.url = url /\ files' = files \ {f}
    BY <1>7 DEF Delete
  <2>3. kept' = kept \ {url}
    BY <1>7 DEF Delete
  <2>4. \A g \in FilesAt(Active) : g.url # url => g \in FilesAt(Active)'
    BY <2>1, <2>2 DEF FilesAt
  <2> QED BY <2>1, <2>3, <2>4 DEF KeptInv, WrittenIsKept
<1>8. ASSUME NEW t \in Threads, WriteBuffer(t)
      PROVE  KeptInv' /\ WrittenIsKept'
  <2> DEFINE file == [at |-> Active, url |-> call[t].url, size |-> 0, epoch |-> epoch]
             new  == [file EXCEPT !.size = call[t].size]
  <2>1. UNCHANGED <<store, Active>>
    BY <1>8 DEF WriteBuffer, flushVars, Active
  <2>2. store = "open" /\ call[t].size > 0
    BY <1>8 DEF WriteBuffer, StoreInv, MutexInv, At, Holds
  <2>3. file.size = 0 /\ new.at = Active /\ new.url = call[t].url /\ new.size > 0
    BY <2>2
  <2>4. \/ files' = (files \ {file}) \union {new} /\ kept' = kept \union {call[t].url}
        \/ files' = files \ {file} /\ kept' = kept
    BY <1>8 DEF WriteBuffer
  <2> HIDE DEF file, new
  <2>5. \A g \in FilesAt(Active) : g.size > 0 => g \in FilesAt(Active)'
    BY <2>1, <2>3, <2>4 DEF FilesAt
  <2>6. call[t].url \in kept' => call[t].url \in kept \/ new \in FilesAt(Active)'
    BY <2>1, <2>3, <2>4 DEF FilesAt
  <2>7. kept' \subseteq kept \union {call[t].url}
    BY <2>4
  <2> QED BY <2>1, <2>2, <2>3, <2>5, <2>6, <2>7 DEF KeptInv, WrittenIsKept
<1> QED
  BY <1>2, <1>3, <1>4, <1>5, <1>6, <1>7, <1>8
  DEF Next, Constructor, Flusher, Call, Finish

(* A segment that Write has stored stays whole in the active directory     *)
(* until it is deleted, flushed or the store destroyed, however far the    *)
(* flusher is behind and after any number of crashes.                      *)
THEOREM StoredStaysStored == Spec => []WrittenIsKept
<1>1. Init => KeptInv /\ WrittenIsKept
  BY DEF Init, KeptInv, WrittenIsKept
<1>2. StoreInv /\ KeptInv /\ WrittenIsKept /\ [Next]_vars => KeptInv' /\ WrittenIsKept'
  BY KeptStep
<1> QED BY <1>1, <1>2, StoreInvariant, PTL DEF Spec

------------------------------------------------------------------------------
(* The disk, after any number of crashes.                                  *)

LEMMA TopPath == ASSUME NEW n \in Nat, n > 0 PROVE IsTop(<<n>>)
  BY DEF IsTop

LEMMA MovedPath ==
  ASSUME NEW d, IsTop(d)
  PROVE  /\ IsMoved(<<0>> \o d) /\ Head(<<0>> \o d) = 0
         /\ (<<0>> \o d)[2] = d[1]
<1>1. PICK n \in Nat \ {0} : d = <<n>>
  BY DEF IsTop
<1>2. <<0>> \o <<n>> = <<0, n>>
  <2> DEFINE a == <<0>>  b == <<n>>  c == <<0, n>>
  <2>1. /\ a \in Seq(Nat) /\ Len(a) = 1 /\ a[1] = 0
        /\ b \in Seq(Nat) /\ Len(b) = 1 /\ b[1] = n
        /\ c \in Seq(Nat) /\ Len(c) = 2 /\ c[1] = 0 /\ c[2] = n
    OBVIOUS
  <2> HIDE DEF a, b, c
  <2>2. /\ a \o b \in Seq(Nat) /\ Len(a \o b) = 2
        /\ (a \o b)[1] = 0 /\ (a \o b)[2] = n
    <3>1. /\ a \o b \in Seq(Nat) /\ Len(a \o b) = Len(a) + Len(b)
          /\ \A i \in 1 .. Len(a) + Len(b) :
               (a \o b)[i] = IF i <= Len(a) THEN a[i] ELSE b[i - Len(a)]
      BY <2>1, ConcatProperties
    <3> QED BY <2>1, <3>1
  <2>3. \A i \in 1 .. 2 : (a \o b)[i] = c[i]
    BY <2>1, <2>2
  <2>4. a \o b = c
    BY <2>1, <2>2, <2>3, SeqEqual
  <2> QED BY <2>4 DEF a, b, c
<1> QED BY <1>1, <1>2 DEF IsMoved

LEMMA DiskStep == StoreInv /\ DiskInv /\ [Next]_vars => DiskInv'
<1> SUFFICES ASSUME StoreInv, DiskInv, [Next]_vars PROVE DiskInv' OBVIOUS
<1> USE DEF DiskInv
<1>t. TypeOK
  BY DEF StoreInv
<1>1. CASE Construct
  <2>1. \A d \in entries' : IsTop(d)
    <3> SUFFICES ASSUME NEW d \in entries' PROVE IsTop(d) OBVIOUS
    <3>1. d \in dirs /\ Len(d) = 1
      BY <1>1 DEF Construct
    <3>2. ~IsMoved(d)
      BY <3>1 DEF IsMoved
    <3> QED BY <3>1, <3>2
  <2> QED BY <1>1, <2>1 DEF Construct, diskVars
<1>2. ASSUME NEW d \in entries, MoveStale(d) PROVE DiskInv'
  <2> DEFINE target == <<0>> \o d
             moved  == {IF f.at = d THEN [f EXCEPT !.at = target] ELSE f : f \in files}
  <2>1. IsMoved(target)
    BY MovedPath
  <2>2. UNCHANGED mActiveDirNum /\ entries' \subseteq entries
    BY <1>2 DEF MoveStale, flushVars
  <2>3. CASE target \in dirs
    BY <1>2, <2>2, <2>3 DEF MoveStale, diskVars
  <2>4. CASE target \notin dirs
    <3>1. dirs' = (dirs \ {d}) \union {target} /\ files' = moved
      BY <1>2, <2>4 DEF MoveStale
    <3>2. IsFiniteSet(moved)
      <4> DEFINE g == [f \in files |-> IF f.at = d THEN [f EXCEPT !.at = target] ELSE f]
      <4>1. g \in Surjection(files, moved)
        BY DEF Surjection
      <4> HIDE DEF g, moved
      <4> QED BY <4>1, FS_Surjection
    <3>3. \A f \in moved : f.at \in dirs'
      <4> SUFFICES ASSUME NEW f \in files
                   PROVE  (IF f.at = d THEN [f EXCEPT !.at = target] ELSE f).at \in dirs'
        OBVIOUS
      <4>1. f \in Files /\ f.at \in dirs
        BY <1>t DEF TypeOK
      <4> HIDE DEF target
      <4>2. [f EXCEPT !.at = target].at = target
        BY <4>1 DEF Files
      <4> QED BY <3>1, <4>1, <4>2
    <3> HIDE DEF moved, target
    <3> QED BY <2>1, <2>2, <3>1, <3>2, <3>3
  <2> QED BY <2>3, <2>4
<1>3. CASE RemoveEntry
  <2>1. UNCHANGED <<entries, mActiveDirNum>>
    BY <1>3 DEF RemoveEntry, flushVars
  <2>2. PICK d \in dirs :
          \/ \E f \in FilesAt(d) : files' = files \ {f} /\ UNCHANGED dirs
          \/ FilesAt(d) = {} /\ dirs' = dirs \ {d} /\ UNCHANGED files
    BY <1>3 DEF RemoveEntry
  <2>3. CASE \E f \in FilesAt(d) : files' = files \ {f} /\ UNCHANGED dirs
    BY <2>1, <2>3, FS_RemoveElement
  <2>4. CASE FilesAt(d) = {} /\ dirs' = dirs \ {d} /\ UNCHANGED files
    BY <2>1, <2>4 DEF FilesAt
  <2> QED BY <2>2, <2>3, <2>4
<1>4. ASSUME NEW t \in Threads, NEW url \in Urls, NEW size \in 1 .. MaxSize,
             Write(t, url, size)
      PROVE  DiskInv'
  <2>1. IsTop(Active)
    BY <1>t, TopPath DEF TypeOK, Active
  <2> QED BY <1>4, <2>1 DEF Write, flushVars
<1>5. ASSUME NEW t \in Threads, CreateFile(t) PROVE DiskInv'
  <2>1. Active \in dirs
    BY <1>5 DEF StoreInv, MutexInv, CreateFile, At, Holds
  <2> DEFINE new == [at |-> Active, url |-> call[t].url, size |-> 0, epoch |-> epoch]
  <2>2. files' = files \union {new} /\ new.at = Active
    BY <1>5 DEF CreateFile
  <2>3. UNCHANGED <<dirs, entries, mActiveDirNum>>
    BY <1>5 DEF CreateFile, flushVars
  <2> HIDE DEF new
  <2>4. IsFiniteSet(files')
    BY <2>2, FS_AddElement
  <2> QED BY <2>1, <2>2, <2>3, <2>4
<1>6. ASSUME NEW t \in Threads, WriteBuffer(t) PROVE DiskInv'
  <2>1. Active \in dirs
    BY <1>6 DEF StoreInv, MutexInv, WriteBuffer, At, Holds
  <2> DEFINE file == [at |-> Active, url |-> call[t].url, size |-> 0, epoch |-> epoch]
             new == [file EXCEPT !.size = call[t].size]
  <2>2. files' = files \ {file} \/ files' = (files \ {file}) \union {new}
    BY <1>6 DEF WriteBuffer
  <2>3. new.at = Active
    OBVIOUS
  <2>4. UNCHANGED <<dirs, entries, mActiveDirNum>>
    BY <1>6 DEF WriteBuffer, flushVars
  <2> HIDE DEF file, new
  <2>5. IsFiniteSet(files \ {file})
    BY FS_RemoveElement
  <2>6. IsFiniteSet((files \ {file}) \union {new})
    BY <2>5, FS_AddElement
  <2> QED BY <2>1, <2>2, <2>3, <2>4, <2>5, <2>6
<1>7. ASSUME NEW t \in Threads, NEW url \in Urls, Delete(t, url) PROVE DiskInv'
  <2>1. PICK f \in FilesAt(Active) : files' = files \ {f}
    BY <1>7 DEF Delete
  <2> QED BY <1>7, <2>1, FS_RemoveElement DEF Delete, flushVars
<1>8. CASE \/ FlusherWait \/ FlusherNext \/ Constructed \/ Destroy \/ Join \/ Crash
           \/ (\E t \in Threads : Flush(t) \/ PostFlush(t)) \/ UNCHANGED vars
  <2>1. UNCHANGED <<files, dirs>> /\ entries' \subseteq entries
    BY <1>8 DEF FlusherWait, FlusherNext, Constructed, Destroy, Join, Crash,
                Flush, PostFlush, vars, diskVars
  <2>2. mActiveDirNum' \in {mActiveDirNum, mActiveDirNum + 1}
    BY <1>8 DEF FlusherWait, FlusherNext, Constructed, Destroy, Join, Crash,
                Flush, PostFlush, vars, flushVars
  <2> QED BY <1>t, <2>1, <2>2 DEF TypeOK
<1> QED
  BY <1>1, <1>2, <1>3, <1>4, <1>5, <1>6, <1>7, <1>8
  DEF Next, Constructor, Flusher, Call, Finish

------------------------------------------------------------------------------
(* The disk, with crashes apart.                                           *)

LEMMA CrashStep ==
  StoreInv /\ DiskInv /\ CrashInv /\ [Next]_vars /\ [CrashesApart]_vars => CrashInv'
<1> SUFFICES ASSUME StoreInv, DiskInv, CrashInv, [Next]_vars, [CrashesApart]_vars
             PROVE  CrashInv'
  OBVIOUS
<1>t. TypeOK /\ MutexInv /\ FlusherInv
  BY DEF StoreInv
<1>h. \A d : IsTop(d) => Head(d) = d[1] /\ Len(d) = 1
  BY DEF IsTop
<1>m. \A d : IsMoved(d) => Head(d) = 0 /\ ~IsTop(d)
  BY DEF IsMoved, IsTop
<1>n. \A d \in dirs : Head(d) \in Nat
  BY <1>h, <1>m DEF DiskInv, IsTop
<1>1. CASE Construct
  <2>1. store = "none" /\ store' = "moving" /\ UNCHANGED <<dirs, crashes, crashed>>
    BY <1>1 DEF Construct, diskVars
  <2>2. entries' = dirs
    BY <1>1, <1>h, <2>1 DEF Construct, CrashInv, IsTop
  <2>3. \A d \in entries' : <<0>> \o d \notin dirs
    BY <1>1, <1>m, <2>1, <2>2, MovedPath DEF Construct, CrashInv
  <2> QED BY <2>1, <2>2, <2>3 DEF CrashInv
<1>2. CASE Constructed
  <2>1. /\ store = "moving" /\ store' = "open" /\ flusher' = "wait" /\ entries = {}
        /\ UNCHANGED <<dirs, crashes, crashed, entries, mFlushDirNum, mActiveDirNum>>
    BY <1>2 DEF Constructed, diskVars, history
  <2>2. mFlushDirNum = 0 /\ mActiveDirNum = 1
    BY <1>t, <2>1 DEF FlusherInv
  <2>3. \A d \in dirs : Head(d) = 0
    BY <1>m, <2>1 DEF CrashInv
  <2> QED BY <2>1, <2>2, <2>3 DEF CrashInv
<1>3. ASSUME NEW d \in entries, MoveStale(d) PROVE CrashInv'
  <2> DEFINE target == <<0>> \o d
  <2>1. /\ store = "moving" /\ entries' = entries \ {d}
        /\ UNCHANGED <<store, crashes, crashed>>
    BY <1>3 DEF MoveStale, history
  <2>2. dirs' = (dirs \ {d}) \union {target}
    BY <1>3, <2>1 DEF MoveStale, CrashInv
  <2>3. IsTop(d) /\ IsMoved(target) /\ target[2] = d[1]
    BY MovedPath DEF DiskInv
  <2>4. \A e \in entries' : <<0>> \o e # target
    <3> SUFFICES ASSUME NEW e \in entries, e # d PROVE <<0>> \o e # target
      BY <2>1
    <3>1. (<<0>> \o e)[2] = e[1] /\ IsTop(e)
      BY MovedPath DEF DiskInv
    <3>2. e[1] # d[1]
      BY <2>3, <3>1 DEF IsTop
    <3> QED BY <2>3, <3>1, <3>2
  <2>5. crashes # 0
    BY <2>1 DEF CrashInv
  <2> HIDE DEF target
  <2> QED BY <2>1, <2>2, <2>3, <2>4, <2>5 DEF CrashInv, target
<1>4. CASE RemoveEntry
  <2>1. /\ dirs' \subseteq dirs /\ flusher = "remove"
        /\ UNCHANGED <<store, entries, mFlushDirNum, mActiveDirNum, flusher, crashes, crashed>>
    BY <1>4 DEF RemoveEntry, flushVars, history
  <2>2. store \notin {"none", "moving"}
    BY <1>t, <2>1 DEF FlusherInv
  <2> QED BY <2>1, <2>2 DEF CrashInv
<1>5. CASE FlusherNext
  <2>1. /\ flusher = "remove" /\ \A d \in dirs : Head(d) # mFlushDirNum
        /\ UNCHANGED <<dirs, store, entries, mActiveDirNum, crashes, crashed>>
    BY <1>5 DEF FlusherNext, diskVars, history
  <2>2. store \in {"open", "closing"}
    BY <1>t, <2>1 DEF FlusherInv, TypeOK
  <2>3. CASE mFlushDirNum = mActiveDirNum
    <3>1. mFlushDirNum' = mFlushDirNum
      BY <1>5, <2>3 DEF FlusherNext
    <3>2. dirs = {}
      BY <1>n, <1>t, <2>1, <2>2, <2>3 DEF CrashInv, TypeOK
    <3> QED BY <2>1, <2>2, <3>1, <3>2 DEF CrashInv
  <2>4. CASE mFlushDirNum # mActiveDirNum
    <3>1. mFlushDirNum' = mFlushDirNum + 1 /\ flusher' = "wait"
      BY <1>5, <2>4 DEF FlusherNext
    <3>2. \A d \in dirs : Head(d) \in mFlushDirNum + 1 .. mActiveDirNum
      BY <1>n, <1>t, <2>1, <2>2 DEF CrashInv, TypeOK
    <3> QED BY <2>1, <2>2, <3>1, <3>2 DEF CrashInv
  <2> QED BY <2>3, <2>4
<1>6. CASE FlusherWait
  <2>1. /\ UNCHANGED <<dirs, store, entries, mFlushDirNum, mActiveDirNum, crashes, crashed>>
        /\ flusher' = "remove"
    BY <1>6 DEF FlusherWait, diskVars, history
  <2> QED BY <2>1 DEF CrashInv
<1>7. CASE Destroy
  <2>1. /\ UNCHANGED <<dirs, entries, mFlushDirNum, mActiveDirNum, flusher, crashes, crashed>>
        /\ store = "open" /\ store' = "closing"
    BY <1>7 DEF Destroy, diskVars
  <2>2. flusher # "exit"
    BY <1>t, <2>1 DEF FlusherInv
  <2> QED BY <2>1, <2>2 DEF CrashInv
<1>8. CASE Join
  <2>1. /\ UNCHANGED <<dirs, entries, crashes>> /\ crashed' = FALSE
        /\ store = "closing" /\ flusher = "exit" /\ store' = "none"
    BY <1>8 DEF Join, diskVars
  <2> QED BY <2>1 DEF CrashInv
<1>9. CASE Crash
  <2>1. /\ UNCHANGED dirs /\ crashes' = crashes + 1 /\ crashed' = TRUE
        /\ store' = "none" /\ store # "none"
    BY <1>9 DEF Crash, diskVars
  <2>2. \A d \in dirs : IsTop(d)
    BY <1>9, <2>1 DEF CrashesApart, vars
  <2>3. crashes' # 0
    BY <1>t, <2>1 DEF TypeOK
  <2> QED BY <2>1, <2>2, <2>3 DEF CrashInv
<1>10. ASSUME NEW t \in Threads, NEW url \in Urls, NEW size \in 1 .. MaxSize,
              Write(t, url, size)
       PROVE  CrashInv'
  <2>1. /\ dirs' = dirs \union {Active} /\ store = "open"
        /\ UNCHANGED <<store, entries, mFlushDirNum, mActiveDirNum, flusher, crashes, crashed>>
    BY <1>10 DEF Write, MayCall, flushVars, history
  <2>2. IsTop(Active) /\ Head(Active) = mActiveDirNum
    BY <1>t, TopPath DEF TypeOK, Active, DiskInv
  <2>3. mFlushDirNum <= mActiveDirNum
    BY <1>t, <2>1, PostingFinite DEF FlusherInv, Removing, TypeOK
  <2>4. Head(Active) \in mFlushDirNum .. mActiveDirNum
    BY <1>t, <2>2, <2>3 DEF TypeOK
  <2> QED BY <2>1, <2>2, <2>4 DEF CrashInv
<1>11. ASSUME NEW t \in Threads, Flush(t) PROVE CrashInv'
  <2>1. /\ mActiveDirNum' = mActiveDirNum + 1 /\ store = "open"
        /\ UNCHANGED <<dirs, store, entries, mFlushDirNum, flusher, crashes, crashed>>
    BY <1>11 DEF Flush, MayCall, diskVars
  <2>2. \A d \in dirs : Head(d) \in mFlushDirNum .. mActiveDirNum + 1
    BY <1>n, <1>t, <2>1 DEF CrashInv, TypeOK
  <2> QED BY <2>1, <2>2 DEF CrashInv
<1>12. ASSUME UNCHANGED <<dirs, store, entries, mFlushDirNum, mActiveDirNum,
                          flusher, crashes, crashed>>
       PROVE  CrashInv'
  BY <1>12 DEF CrashInv
<1>13. ASSUME NEW t \in Threads,
              \/ \E url \in Urls : Delete(t, url)
              \/ Finish(t)
       PROVE  CrashInv'
  BY <1>12, <1>13
  DEF Delete, Finish, CreateFile, WriteBuffer, PostFlush, diskVars, flushVars, history
<1>14. CASE UNCHANGED vars
  BY <1>12, <1>14 DEF vars, diskVars, flushVars, history
<1> QED
  BY <1>1, <1>2, <1>3, <1>4, <1>5, <1>6, <1>7, <1>8, <1>9, <1>10, <1>11, <1>13, <1>14
  DEF Next, Constructor, Flusher, Call

DiskStoreInv == StoreInv /\ DiskInv /\ CrashInv

LEMMA DiskStoreInit == Init => DiskInv /\ CrashInv
  BY FS_EmptySet DEF Init, DiskInv, CrashInv

LEMMA DiskStoreInvariant == SparseCrashes => []DiskStoreInv
<1>1. /\ DiskInv /\ CrashInv /\ StoreInv /\ [Next]_vars /\ [CrashesApart]_vars
      => (DiskInv /\ CrashInv)'
  BY DiskStep, CrashStep
<1>2. StoreInv /\ DiskInv /\ CrashInv <=> DiskStoreInv
  BY DEF DiskStoreInv
<1> QED BY <1>1, <1>2, DiskStoreInit, StoreInvariant, PTL DEF SparseCrashes, Spec

(* A process that dies once in its life never dies too early again: with   *)
(* one crash at most the hypothesis of the theorems below holds.           *)
THEOREM OneCrashIsApart == ASSUME MaxCrashes <= 1 PROVE Spec => SparseCrashes
<1>1. CrashInv /\ StoreInv => CrashesApart
  <2> SUFFICES ASSUME CrashInv, StoreInv, Crash PROVE \A d \in dirs : IsTop(d)
    BY DEF CrashesApart
  <2>1. crashes = 0
    BY StoreAssumption DEF Crash, StoreInv, TypeOK
  <2> QED BY <2>1 DEF CrashInv
<1>2. CrashesApart => [CrashesApart]_vars
  OBVIOUS
<1>3. StoreInv /\ DiskInv /\ CrashInv /\ [Next]_vars => (DiskInv /\ CrashInv)'
  BY <1>1, <1>2, DiskStep, CrashStep
<1>4. CrashInv /\ StoreInv => [CrashesApart]_vars
  BY <1>1
<1> QED BY <1>3, <1>4, DiskStoreInit, StoreInvariant, PTL DEF SparseCrashes, Spec

(* With crashes apart, a clean exit leaves nothing on the disk, not even   *)
(* what a crash had left there.                                            *)
THEOREM CleanExitLeavesNothing == SparseCrashes => []CleanExit
<1>1. DiskStoreInv => CleanExit
  BY DEF DiskStoreInv, DiskInv, CrashInv, CleanExit
<1> QED BY <1>1, DiskStoreInvariant, PTL

(* Nothing is in the directory that a constructor or a flush opens.        *)
LEMMA OpensEmpty ==
  ASSUME DiskStoreInv, Constructed \/ \E t \in Threads : Flush(t)
  PROVE  FilesAt(Active)' = {}
<1>0. TypeOK /\ FlusherInv
  BY DEF DiskStoreInv, StoreInv
<1>1. CASE Constructed
  <2>1. files' = files /\ store = "moving" /\ entries = {} /\ mActiveDirNum' = mActiveDirNum
    BY <1>1 DEF Constructed, diskVars
  <2>2. \A d \in dirs : IsMoved(d)
    BY <2>1 DEF DiskStoreInv, CrashInv
  <2>3. \A f \in files : f.at # Active
    BY <2>2 DEF DiskStoreInv, DiskInv, IsMoved, Active
  <2> QED BY <2>1, <2>3 DEF FilesAt, Active
<1>2. ASSUME NEW t \in Threads, Flush(t)
      PROVE  FilesAt(Active)' = {}
  <2>1. files' = files /\ store = "open" /\ mActiveDirNum' = mActiveDirNum + 1
    BY <1>2 DEF Flush, MayCall, diskVars
  <2>2. \A f \in files : Head(f.at) \in mFlushDirNum .. mActiveDirNum
    BY <2>1 DEF DiskStoreInv, DiskInv, CrashInv
  <2>3. \A f \in files : f.at # <<mActiveDirNum + 1>>
    <3> SUFFICES ASSUME NEW f \in files, f.at = <<mActiveDirNum + 1>> PROVE FALSE
      OBVIOUS
    <3>1. Head(f.at) = mActiveDirNum + 1
      OBVIOUS
    <3> QED BY <1>0, <2>2, <3>1 DEF TypeOK
  <2> QED BY <2>1, <2>3 DEF FilesAt, Active
<1> QED BY <1>1, <1>2

LEMMA StaleStep == DiskStoreInv /\ NothingStale /\ [Next]_vars => NothingStale'
<1> SUFFICES ASSUME DiskStoreInv, NothingStale, [Next]_vars PROVE NothingStale' OBVIOUS
<1>1. CASE Constructed \/ \E t \in Threads : Flush(t)
  BY <1>1, OpensEmpty DEF NothingStale
<1>2. CASE Construct \/ Destroy \/ Join \/ Crash \/ \E d \in entries : MoveStale(d)
  BY <1>2 DEF NothingStale, Construct, Destroy, Join, Crash, MoveStale
<1>3. ASSUME UNCHANGED <<store, epoch, Active>>,
             \A f \in files' : f \in files \/ f.epoch = epoch
      PROVE  NothingStale'
  BY <1>3 DEF NothingStale, FilesAt
<1>4. CASE FlusherWait \/ FlusherNext \/ RemoveEntry \/ UNCHANGED vars
  <2>1. UNCHANGED <<store, epoch, Active>> /\ files' \subseteq files
    BY <1>4 DEF FlusherWait, FlusherNext, RemoveEntry, vars, diskVars, flushVars,
                history, Active
  <2> QED BY <1>3, <2>1
<1>5. ASSUME NEW t \in Threads,
             \/ \E url \in Urls, size \in 1 .. MaxSize : Write(t, url, size)
             \/ \E url \in Urls : Delete(t, url)
             \/ PostFlush(t)
      PROVE  NothingStale'
  <2>1. UNCHANGED <<store, epoch, Active>> /\ files' \subseteq files
    BY <1>5 DEF Write, Delete, PostFlush, diskVars, flushVars, history, Active
  <2> QED BY <1>3, <2>1
<1>6. ASSUME NEW t \in Threads, CreateFile(t) \/ WriteBuffer(t)
      PROVE  NothingStale'
  <2>1. UNCHANGED <<store, epoch, Active>>
    BY <1>6 DEF CreateFile, WriteBuffer, flushVars, history, Active
  <2>2. \A f \in files' : f \in files \/ f.epoch = epoch
    BY <1>6 DEF CreateFile, WriteBuffer
  <2> QED BY <1>3, <2>1, <2>2
<1> QED
  BY <1>1, <1>2, <1>4, <1>5, <1>6
  DEF Next, Constructor, Flusher, Call, Finish

(* With crashes apart, a store is empty when it is constructed and after   *)
(* every flush.                                                            *)
THEOREM OpensWithNothingStale == SparseCrashes => []NothingStale
<1>1. Init => NothingStale
  BY DEF Init, NothingStale
<1>2. DiskStoreInv /\ NothingStale /\ [Next]_vars => NothingStale'
  BY StaleStep
<1> QED BY <1>1, <1>2, DiskStoreInvariant, PTL DEF SparseCrashes, Spec

------------------------------------------------------------------------------
(* The space in use.                                                       *)

LEMMA WritingStep == StoreInv /\ WritingInv /\ [Next]_vars => WritingInv'
<1> SUFFICES ASSUME StoreInv, WritingInv, [Next]_vars PROVE WritingInv' OBVIOUS
<1>t. TypeOK /\ MutexInv
  BY DEF StoreInv
<1>0. ASSUME \A t \in Threads : ~Holds(t)' PROVE WritingInv'
  BY <1>0 DEF WritingInv, Holds, At
<1>1. CASE Construct \/ Constructed \/ Destroy \/ Join \/ Crash
  BY <1>0, <1>1, <1>t, IdleCall
  DEF Construct, Constructed, Destroy, Join, Crash, MutexInv, Holds, At
<1>2. ASSUME NEW d \in entries, MoveStale(d) PROVE WritingInv'
  BY <1>0, <1>2, <1>t DEF MoveStale, MutexInv, Holds, At
<1>3. ASSUME NEW t \in Threads, Flush(t) PROVE WritingInv'
  BY <1>0, <1>3, <1>t DEF Flush, MayCall, MutexFree, TypeOK, Holds, At
<1>4. ASSUME NEW t \in Threads, NEW url \in Urls, Delete(t, url) PROVE WritingInv'
  BY <1>0, <1>4, <1>t DEF Delete, MayCall, MutexFree, TypeOK, Holds, At
<1>5. ASSUME UNCHANGED <<Active, epoch, FilesAt(Active)>>,
             \A t \in Threads : Holds(t)' => call'[t] = call[t]
      PROVE  WritingInv'
  <2>1. ASSUME NEW t \in Threads, At(t, "create")' \/ At(t, "write")'
        PROVE  call'[t] = call[t] /\ NewFile(t)' = NewFile(t)
    BY <1>5, <2>1 DEF At, Holds, NewFile
  <2>2. \A f : f.at = Active => (f \in files' <=> f \in files)
    BY <1>5 DEF FilesAt
  <2>3. \A t \in Threads : NewFile(t).at = Active
    BY DEF NewFile
  <2> QED BY <1>5, <2>1, <2>2, <2>3 DEF WritingInv, At
<1>6. CASE FlusherWait \/ FlusherNext \/ UNCHANGED vars
  <2>1. UNCHANGED <<Active, epoch, call, files>>
    BY <1>6 DEF FlusherWait, FlusherNext, vars, diskVars, flushVars, history, Active
  <2> QED BY <1>5, <2>1 DEF FilesAt
<1>7. CASE RemoveEntry
  <2>1. UNCHANGED <<Active, epoch, call, store>>
    BY <1>7 DEF RemoveEntry, flushVars, history, Active
  <2>2. CASE store = "open"
    BY <1>5, <1>7, <2>1, <2>2, RemoveKeepsActive
  <2>3. CASE store # "open"
    BY <1>0, <1>t, <2>1, <2>3 DEF MutexInv, Holds, At
  <2> QED BY <2>2, <2>3
<1>8. ASSUME NEW t \in Threads, PostFlush(t) PROVE WritingInv'
  <2>1. UNCHANGED <<Active, epoch, files>>
    BY <1>8 DEF PostFlush, diskVars, history, Active
  <2>2. \A u \in Threads : Holds(u)' => call'[u] = call[u]
    BY <1>8, <1>t, IdleCall DEF PostFlush, TypeOK, Holds
  <2> QED BY <1>5, <2>1, <2>2 DEF FilesAt
<1>9. ASSUME NEW t \in Threads, NEW url \in Urls, NEW size \in 1 .. MaxSize,
             Write(t, url, size)
      PROVE  WritingInv'
  <2>1. UNCHANGED <<Active, epoch, files>> /\ \A f \in FilesAt(Active) : f.url # url
    BY <1>9 DEF Write, flushVars, history, Active
  <2>2. \A u \in Threads : u # t => ~Holds(u)'
    BY <1>9, <1>t DEF Write, TypeOK, MayCall, MutexFree, Holds
  <2>3. call'[t].pc = "create" /\ call'[t].url = url
    BY <1>9, <1>t DEF Write, TypeOK
  <2> QED BY <2>1, <2>2, <2>3 DEF WritingInv, Holds, At, FilesAt
<1>10. ASSUME NEW t \in Threads, CreateFile(t) PROVE WritingInv'
  <2>1. UNCHANGED <<Active, epoch>> /\ At(t, "create")
    BY <1>10 DEF CreateFile, flushVars, history, Active
  <2>2. \A u \in Threads : u # t => ~Holds(u)'
    BY <1>10, <1>t DEF CreateFile, TypeOK, MutexInv, At, Holds
  <2>3. call'[t].pc = "write" /\ call'[t].url = call[t].url
    BY <1>10, <1>t DEF CreateFile, TypeOK
  <2>4. files' = files \union {NewFile(t)} /\ NewFile(t)' = NewFile(t)
    BY <1>10, <2>1, <2>3 DEF CreateFile, NewFile
  <2> QED BY <2>1, <2>2, <2>3, <2>4 DEF WritingInv, Holds, At, FilesAt
<1>11. ASSUME NEW t \in Threads, WriteBuffer(t) PROVE WritingInv'
  <2>1. UNCHANGED <<Active, epoch>> /\ At(t, "write")
    BY <1>11 DEF WriteBuffer, flushVars, Active
  <2>2. \A u \in Threads : u # t => ~Holds(u)'
    BY <1>11, <1>t DEF WriteBuffer, TypeOK, MutexInv, At, Holds
  <2>3. CASE call' = [call EXCEPT ![t] = Idle]
    BY <1>0, <1>t, <2>2, <2>3, IdleCall DEF TypeOK, Holds
  <2>4. CASE call' # [call EXCEPT ![t] = Idle]
    <3>1. /\ call' = [call EXCEPT ![t].pc = "create", ![t].waited = @ + 1]
          /\ files' = files \ {NewFile(t)}
      BY <1>11, <2>4 DEF WriteBuffer, NewFile
    <3>2. call'[t].pc = "create" /\ call'[t].url = call[t].url
      BY <1>t, <3>1 DEF TypeOK
    <3> QED BY <2>1, <2>2, <3>1, <3>2 DEF WritingInv, Holds, At, FilesAt
  <2> QED BY <2>3, <2>4
<1> QED
  BY <1>1, <1>2, <1>3, <1>4, <1>6, <1>7, <1>8, <1>9, <1>10, <1>11
  DEF Next, Constructor, Flusher, Call, Finish

LEMMA SizedActive == ASSUME DiskStoreInv PROVE Sized(FilesAt(Active))
<1>1. FilesAt(Active) \subseteq files
  BY DEF FilesAt
<1>2. IsFiniteSet(FilesAt(Active))
  BY <1>1, FS_Subset DEF DiskStoreInv, DiskInv
<1> QED BY <1>1, <1>2 DEF Sized, DiskStoreInv, StoreInv, TypeOK, Files

LEMMA SpaceStep ==
  DiskStoreInv /\ WritingInv /\ SpaceInv /\ [Next]_vars => SpaceInv'
<1> SUFFICES ASSUME DiskStoreInv, WritingInv, SpaceInv, [Next]_vars
             PROVE  SpaceInv'
  OBVIOUS
<1>t. TypeOK /\ MutexInv
  BY DEF DiskStoreInv, StoreInv
<1>s. Sized(FilesAt(Active)) /\ SizeOf(FilesAt(Active)) \in Nat
  BY SizedActive, SizeOfRemove
<1>1. CASE Constructed \/ \E t \in Threads : Flush(t)
  <2>1. FilesAt(Active)' = {} /\ mAvailable' = Capacity
    BY <1>1, OpensEmpty DEF Constructed, Flush
  <2>2. SizeOf(FilesAt(Active))' = 0
    BY <2>1, SizeOfEmpty
  <2> QED BY <2>1, <2>2, StoreAssumption DEF SpaceInv
<1>2. CASE Construct \/ Destroy \/ Join \/ Crash \/ \E d \in entries : MoveStale(d)
  BY <1>2 DEF SpaceInv, Construct, Destroy, Join, Crash, MoveStale
<1>3. ASSUME UNCHANGED <<store, mAvailable, FilesAt(Active)>> PROVE SpaceInv'
  BY <1>3 DEF SpaceInv
<1>4. CASE FlusherWait \/ FlusherNext \/ UNCHANGED vars
  <2>1. UNCHANGED <<store, mAvailable, files, Active>>
    BY <1>4 DEF FlusherWait, FlusherNext, vars, diskVars, flushVars, Active
  <2> QED BY <1>3, <2>1 DEF FilesAt
<1>5. CASE RemoveEntry
  <2>1. UNCHANGED <<store, mAvailable>>
    BY <1>5 DEF RemoveEntry
  <2>2. CASE store = "open"
    BY <1>3, <1>5, <2>1, <2>2, RemoveKeepsActive DEF DiskStoreInv
  <2>3. CASE store # "open"
    BY <2>1, <2>3 DEF SpaceInv
  <2> QED BY <2>2, <2>3
<1>6. ASSUME NEW t \in Threads,
             \/ \E url \in Urls, size \in 1 .. MaxSize : Write(t, url, size)
             \/ PostFlush(t)
      PROVE  SpaceInv'
  <2>1. UNCHANGED <<store, mAvailable, files, Active>>
    BY <1>6 DEF Write, PostFlush, diskVars, flushVars, Active
  <2> QED BY <1>3, <2>1 DEF FilesAt
<1>7. ASSUME NEW t \in Threads, NEW url \in Urls, Delete(t, url) PROVE SpaceInv'
  <2>1. UNCHANGED <<store, Active>>
    BY <1>7 DEF Delete, flushVars, Active
  <2>2. PICK f \in FilesAt(Active) : files' = files \ {f} /\ mAvailable' = mAvailable + f.size
    BY <1>7 DEF Delete
  <2>3. FilesAt(Active)' = FilesAt(Active) \ {f}
    BY <2>1, <2>2 DEF FilesAt
  <2>4. SizeOf(FilesAt(Active)) = f.size + SizeOf(FilesAt(Active) \ {f})
    BY <1>s, SizeOfRemove
  <2>5. f.size \in Nat /\ SizeOf(FilesAt(Active) \ {f}) \in Nat
    <3>1. Sized(FilesAt(Active) \ {f})
      BY <1>s, FS_RemoveElement DEF Sized
    <3> QED BY <1>s, <3>1, SizeOfRemove DEF Sized
  <2>6. SizeOf(FilesAt(Active))' = SizeOf(FilesAt(Active) \ {f})
    BY <2>3
  <2> QED BY <1>s, <1>t, <2>1, <2>2, <2>4, <2>5, <2>6 DEF SpaceInv, TypeOK
<1>8. ASSUME NEW t \in Threads, CreateFile(t) PROVE SpaceInv'
  <2>1. UNCHANGED <<store, mAvailable, Active>>
    BY <1>8 DEF CreateFile, flushVars, Active
  <2>2. files' = files \union {NewFile(t)} /\ NewFile(t).at = Active /\ NewFile(t).size = 0
        /\ NewFile(t).url = call[t].url
    BY <1>8 DEF CreateFile, NewFile
  <2>3. NewFile(t) \notin FilesAt(Active)
    BY <1>8, <2>2 DEF CreateFile, WritingInv
  <2>4. FilesAt(Active)' = FilesAt(Active) \union {NewFile(t)}
    BY <2>1, <2>2 DEF FilesAt
  <2>5. SizeOf(FilesAt(Active) \union {NewFile(t)}) = SizeOf(FilesAt(Active))
    BY <1>s, <2>2, <2>3, SizeOfAdd
  <2>6. SizeOf(FilesAt(Active))' = SizeOf(FilesAt(Active))
    BY <2>4, <2>5
  <2> QED BY <2>1, <2>6 DEF SpaceInv
<1>9. ASSUME NEW t \in Threads, WriteBuffer(t) PROVE SpaceInv'
  <2> DEFINE c    == call[t]
             new  == [NewFile(t) EXCEPT !.size = c.size]
             rest == FilesAt(Active) \ {NewFile(t)}
  <2>1. UNCHANGED <<store, Active>> /\ At(t, "write") /\ store = "open"
    BY <1>9, <1>t DEF WriteBuffer, flushVars, Active, MutexInv, At
  <2>2. c.size \in Nat /\ c.size <= mAvailable
    BY <1>t, <2>1 DEF TypeOK, MutexInv, At, Holds, Fits
  <2>3. /\ NewFile(t).at = Active /\ NewFile(t).size = 0
        /\ new.at = Active /\ new.size = c.size /\ new.url = c.url
    BY DEF NewFile
  <2>4. /\ NewFile(t) \in FilesAt(Active)
        /\ \A f \in rest : f.url # c.url
    BY <2>1, <2>3 DEF WritingInv, FilesAt
  <2>5. Sized(rest) /\ SizeOf(rest) = SizeOf(FilesAt(Active))
    <3>1. Sized(rest)
      BY <1>s, FS_RemoveElement DEF Sized
    <3>2. SizeOf(FilesAt(Active)) = 0 + SizeOf(rest) /\ SizeOf(rest) \in Nat
      BY <1>s, <2>3, <2>4, <3>1, SizeOfRemove
    <3> QED BY <3>1, <3>2
  <2>6. \/ files' = (files \ {NewFile(t)}) \union {new} /\ mAvailable' = mAvailable - c.size
        \/ files' = files \ {NewFile(t)} /\ mAvailable' = mAvailable
    BY <1>9 DEF WriteBuffer, NewFile
  <2> HIDE DEF new
  <2>7. CASE files' = (files \ {NewFile(t)}) \union {new} /\ mAvailable' = mAvailable - c.size
    <3>1. FilesAt(Active)' = rest \union {new}
      BY <2>1, <2>3, <2>7 DEF FilesAt
    <3>2. SizeOf(rest \union {new}) = c.size + SizeOf(rest)
      BY <2>2, <2>3, <2>4, <2>5, SizeOfAdd
    <3>3. SizeOf(FilesAt(Active))' = c.size + SizeOf(FilesAt(Active))
      BY <2>5, <3>1, <3>2
    <3> HIDE DEF c
    <3> QED BY <1>s, <1>t, <2>1, <2>2, <2>7, <3>3 DEF SpaceInv, TypeOK
  <2>8. CASE files' = files \ {NewFile(t)} /\ mAvailable' = mAvailable
    <3>1. FilesAt(Active)' = rest
      BY <2>1, <2>3, <2>8 DEF FilesAt
    <3> QED BY <2>1, <2>5, <2>8, <3>1 DEF SpaceInv
  <2> QED BY <2>6, <2>7, <2>8
<1> QED
  BY <1>1, <1>2, <1>4, <1>5, <1>6, <1>7, <1>8, <1>9
  DEF Next, Constructor, Flusher, Call, Finish

(* With crashes apart, mAvailable is between calls exactly what the files  *)
(* in use leave of the capacity, whatever writes failed and whatever was   *)
(* deleted and flushed.                                                    *)
THEOREM SpaceIsAccounted == SparseCrashes => []AccountingExact
<1>1. Init => WritingInv /\ SpaceInv
  BY IdleCall DEF Init, WritingInv, SpaceInv, At
<1>2. WritingInv /\ SpaceInv /\ DiskStoreInv /\ [Next]_vars => (WritingInv /\ SpaceInv)'
  BY WritingStep, SpaceStep DEF DiskStoreInv
<1>3. SpaceInv => AccountingExact
  BY DEF SpaceInv, AccountingExact
<1> QED BY <1>1, <1>2, <1>3, DiskStoreInvariant, PTL DEF SparseCrashes, Spec

------------------------------------------------------------------------------
(* What the semaphore achieves.                                            *)

(* On its way out the flusher stops at the active directory.               *)
BehindInv ==
  store = "closing" /\ flusher # "exit" => mFlushDirNum <= mActiveDirNum

LEMMA BehindStep == StoreInv /\ BehindInv /\ [Next]_vars => BehindInv'
<1> SUFFICES ASSUME StoreInv, BehindInv, [Next]_vars PROVE BehindInv' OBVIOUS
<1>t. TypeOK /\ FlusherInv
  BY DEF StoreInv
<1> USE DEF BehindInv
<1>1. CASE UNCHANGED <<store, flusher, mFlushDirNum, mActiveDirNum>>
  BY <1>1
<1>2. CASE Construct \/ Constructed \/ Join \/ Crash
  BY <1>2 DEF Construct, Constructed, Join, Crash
<1>3. CASE FlusherWait
  BY <1>3 DEF FlusherWait
<1>4. CASE FlusherNext
  BY <1>4, <1>t DEF FlusherNext, TypeOK
<1>5. ASSUME NEW t \in Threads, Flush(t) PROVE BehindInv'
  BY <1>5 DEF Flush, MayCall
<1>6. CASE Destroy
  <2>1. mFlushDirNum + Removing + mFlusherSem + Cardinality(Posting) = mActiveDirNum
    BY <1>6, <1>t DEF Destroy, FlusherInv
  <2>2. mFlushDirNum <= mActiveDirNum
    BY <1>t, <2>1, PostingFinite DEF TypeOK, Removing
  <2> QED BY <1>6, <2>2 DEF Destroy
<1>7. CASE UNCHANGED vars
  BY <1>1, <1>7 DEF vars, flushVars
<1>8. ASSUME NEW d \in entries, MoveStale(d) PROVE BehindInv'
  BY <1>1, <1>8 DEF MoveStale, flushVars
<1>9. CASE RemoveEntry
  BY <1>1, <1>9 DEF RemoveEntry, flushVars
<1>10. ASSUME NEW t \in Threads, NEW url \in Urls, NEW size \in 1..MaxSize,
              Write(t, url, size)
       PROVE  BehindInv'
  BY <1>1, <1>10 DEF Write, flushVars
<1>11. ASSUME NEW t \in Threads, NEW url \in Urls, Delete(t, url)
       PROVE  BehindInv'
  BY <1>1, <1>11 DEF Delete, flushVars
<1>12. ASSUME NEW t \in Threads, Finish(t) PROVE BehindInv'
  BY <1>1, <1>12 DEF Finish, CreateFile, WriteBuffer, PostFlush, flushVars
<1> QED
  BY <1>2, <1>3, <1>4, <1>5, <1>6, <1>7, <1>8, <1>9, <1>10, <1>11, <1>12
  DEF Next, Constructor, Flusher, Call

(* While the destructor waits, the flusher never waits for a post that is  *)
(* not there: it has been told once more than there are directories before *)
(* the active one.                                                         *)
FlusherIsTold == store = "closing" /\ flusher = "wait" => mFlusherSem > 0

(* The safety part of DestructorReturns: ~TsbStore posts once, and that is *)
(* enough, whatever flushes were still to be carried out.                  *)
THEOREM DestructorWakesFlusher == Spec => []FlusherIsTold
<1>1. Init => BehindInv
  BY DEF Init, BehindInv
<1>2. StoreInv /\ BehindInv => FlusherIsTold
  <2> SUFFICES ASSUME StoreInv, BehindInv, store = "closing", flusher = "wait"
               PROVE  mFlusherSem > 0
    BY DEF FlusherIsTold
  <2>1. mFlushDirNum + 0 + mFlusherSem = mActiveDirNum + 1
    BY DEF StoreInv, FlusherInv, Removing
  <2> QED BY <2>1 DEF StoreInv, TypeOK, BehindInv
<1> QED BY <1>1, <1>2, BehindStep, StoreInvariant, PTL DEF Spec

(* When the flusher is asleep and no Flush is on its way, the disk has no  *)
(* directory but the active one.                                           *)
FlushedIsRemoved ==
  /\ store = "open" /\ flusher = "wait" /\ mFlusherSem = 0
  /\ \A t \in Threads : At(t, "idle")
  => dirs \subseteq {Active}

(* Flush leaves nothing on the disk for good, nor does a crash: as often   *)
(* as the semaphore of the flusher is posted, so many directories there    *)
(* are to remove.                                                          *)
THEOREM FlushReachesTheDisk == SparseCrashes => []FlushedIsRemoved
<1>1. DiskStoreInv => FlushedIsRemoved
  <2> SUFFICES ASSUME DiskStoreInv, store = "open", flusher = "wait",
                      mFlusherSem = 0, \A t \in Threads : At(t, "idle")
               PROVE  dirs \subseteq {Active}
    BY DEF FlushedIsRemoved
  <2>1. Posting = {}
    BY DEF Posting, At
  <2>2. mFlushDirNum + 0 + 0 + 0 = mActiveDirNum
    BY <2>1, FS_EmptySet DEF DiskStoreInv, StoreInv, FlusherInv, Removing
  <2>3. mFlushDirNum = mActiveDirNum /\ mActiveDirNum \in Nat \ {0}
    BY <2>2 DEF DiskStoreInv, StoreInv, TypeOK, DiskInv
  <2>4. ASSUME NEW d \in dirs PROVE d = Active
    <3>1. Head(d) = mActiveDirNum
      BY <2>3 DEF DiskStoreInv, CrashInv
    <3>2. IsTop(d) \/ IsMoved(d)
      BY DEF DiskStoreInv, DiskInv
    <3>3. CASE IsMoved(d)
      BY <2>3, <3>1, <3>3 DEF IsMoved
    <3>4. CASE IsTop(d)
      BY <3>1, <3>4 DEF IsTop, Active
    <3> QED BY <3>2, <3>3, <3>4
  <2> QED BY <2>4
<1> QED BY <1>1, DiskStoreInvariant, PTL
=============================================================================
