------------------------------ MODULE LogProofs -------------------------------
(***************************************************************************)
(* Proofs about the parts of log4cplus, one at a time, for any number of   *)
(* threads: SharedMutex implements ReadWriteLock and its guards own the    *)
(* mutexes they unlock; a wait on a ManualResetEvent ends only after a     *)
(* signal; SharedObjectPtr counts the pointers; SyncGuard leaves every     *)
(* primitive balanced; a logging statement writes whole records.           *)
(***************************************************************************)
EXTENDS MCLog, FiniteSetTheorems, SequenceTheorems, TLAPS

-----------------------------------------------------------------------------
(* SharedMutex.                                                            *)

PmsmLabels ==
  {"idle", "rd_m3", "rd_r", "rd_m1", "rd_w", "reading", "ru", "wr_m2", "wr_r",
   "wr_w", "writing", "wr_catch", "wu_m2"}
NativeLabels == {"idle", "rd_native", "wr_native", "reading", "writing"}

\* Each implementation has its own steps.
TypeInv ==
  /\ impl \in {"pmsm", "rwlock", "srw"}
  /\ pc \in [Threads -> IF impl = "pmsm" THEN PmsmLabels ELSE NativeLabels]

\* Many readers or one writer.
ExclusionInv ==
  /\ Readers = {} \/ Writers = {}
  /\ \A s, t \in Writers : s = t

\* In the portable implementation reader_count counts the readers, and w is
\* taken once for all of them or by the writer.
CountInv ==
  impl = "pmsm" => /\ IsFiniteSet(Readers)
                   /\ reader_count = Cardinality(Readers)
                   /\ w \in {0, 1}
                   /\ w = 1 <=> Readers = {} /\ Writers = {}

RWInv == TypeInv /\ ExclusionInv /\ CountInv

-----------------------------------------------------------------------------
(* Where a thread stands tells whether it holds the lock.                  *)

\* No reader when the count is zero.
LEMMA NoReaders ==
  ASSUME RWInv, impl = "pmsm"
  PROVE  reader_count \in Nat /\ (reader_count = 0 <=> Readers = {})
  BY FS_CardinalityType, FS_EmptySet DEF RWInv, CountInv

\* A thread moves.
LEMMA Move ==
  ASSUME RWInv, NEW t \in Threads, NEW l,
         l \in IF impl = "pmsm" THEN PmsmLabels ELSE NativeLabels,
         pc' = [pc EXCEPT ![t] = l], UNCHANGED impl
  PROVE  /\ TypeInv'
         /\ Readers' = IF l \in {"reading", "ru"} THEN Readers \cup {t} ELSE Readers \ {t}
         /\ Writers' = IF l = "writing" THEN Writers \cup {t} ELSE Writers \ {t}
  BY DEF RWInv, TypeInv, Readers, Writers

\* A thread moves to a label at which it does not hold the lock.
LEMMA MoveOut ==
  ASSUME RWInv, NEW t \in Threads, NEW l,
         l \in IF impl = "pmsm" THEN PmsmLabels ELSE NativeLabels,
         l \notin {"reading", "ru", "writing"},
         pc' = [pc EXCEPT ![t] = l], UNCHANGED impl
  PROVE  TypeInv' /\ Readers' = Readers \ {t} /\ Writers' = Writers \ {t}
  BY Move

\* A thread moves and neither takes nor gives up the lock.
LEMMA QuietStep ==
  ASSUME RWInv, UNCHANGED <<impl, w, reader_count, Readers, Writers>>, TypeInv'
  PROVE  RWInv'
  BY DEF RWInv, ExclusionInv, CountInv

\* A thread that is no reader and no writer.
Outside(t) == pc[t] \notin {"reading", "ru", "writing"}

\* What a step does to the lock: nothing, or what ReadWriteLock allows.
Holding ==
  \/ UNCHANGED <<Readers, Writers>>
  \/ \E t \in Threads : RW!AcquireRead(t) \/ RW!AcquireWrite(t) \/ RW!Release(t)

\* Steps between labels at which the thread does not hold the lock.
LEMMA OutsideStep ==
  ASSUME RWInv, NEW t \in Threads, Outside(t),
         NEW l, l \in IF impl = "pmsm" THEN PmsmLabels ELSE NativeLabels,
         l \notin {"reading", "ru", "writing"},
         pc' = [pc EXCEPT ![t] = l], UNCHANGED <<impl, w, reader_count>>
  PROVE  RWInv' /\ Holding
<1>1. /\ TypeInv' /\ Readers' = Readers \ {t} /\ Writers' = Writers \ {t}
  BY Move
<1>2. t \notin Readers /\ t \notin Writers
  BY DEF Outside, Readers, Writers
<1>3. UNCHANGED <<Readers, Writers>>
  BY <1>1, <1>2
<1>4. QED
  BY <1>1, <1>3, QuietStep DEF Holding

\* The calls, and the steps before the lock is taken or after it was given up.
LEMMA WaitingSteps ==
  ASSUME RWInv, NEW t \in Threads,
         \/ ReaderGuard(t) \/ WriterGuard(t) \/ RdM3(t) \/ RdR(t) \/ RdM1(t)
         \/ WrM2(t) \/ WrR(t) \/ WrCatch(t) \/ WuM2(t) \/ NativeThrows(t)
  PROVE  RWInv' /\ Holding
<1>1. Outside(t) /\ UNCHANGED <<impl, w, reader_count>>
  BY DEF ReaderGuard, WriterGuard, RdM3, RdR, RdM1, WrM2, WrR, WrCatch, WuM2,
         NativeThrows, At, Outside, sems, counts
<1>2. pc[t] \in IF impl = "pmsm" THEN PmsmLabels ELSE NativeLabels
  BY DEF RWInv, TypeInv
<1>3. \E l \in (IF impl = "pmsm" THEN PmsmLabels ELSE NativeLabels) \ {"reading", "ru", "writing"} :
        pc' = [pc EXCEPT ![t] = l]
  BY <1>2 DEF ReaderGuard, WriterGuard, RdM3, RdR, RdM1, WrM2, WrR, WrCatch, WuM2,
         NativeThrows, At, Then, PmsmLabels, NativeLabels
<1>4. QED
  BY <1>1, <1>3, OutsideStep

\* A guard is destroyed: nobody moves.
LEMMA UnwindStep ==
  ASSUME RWInv, NEW t \in Threads, Unwind(t)
  PROVE  RWInv' /\ Holding
<1>1. UNCHANGED <<impl, w, reader_count, pc>>
  BY DEF Unwind, counts
<1>2. UNCHANGED <<Readers, Writers>> /\ TypeInv'
  BY <1>1 DEF Readers, Writers, RWInv, TypeInv
<1>3. QED
  BY <1>1, <1>2, QuietStep DEF Holding

\* rdlock: the first reader takes w for all of them.
LEMMA RdWStep ==
  ASSUME RWInv, NEW t \in Threads, RdW(t)
  PROVE  RWInv' /\ Holding
<1>1. pc[t] = "rd_w" /\ UNCHANGED impl
  BY DEF RdW, At
<1>2. impl = "pmsm"
  BY <1>1 DEF RWInv, TypeInv, NativeLabels
<1>3. t \notin Readers /\ t \notin Writers
  BY <1>1 DEF Readers, Writers
<1>4. CASE Then(t, "idle", <<"m1", "r", "m3">>) /\ UNCHANGED <<w, reader_count>>
  BY <1>1, <1>2, <1>4, OutsideStep DEF Then, PmsmLabels, Outside
<1>5. CASE /\ FirstReader => w > 0
           /\ w' = IF FirstReader THEN w - 1 ELSE w
           /\ reader_count' = reader_count + 1
           /\ Then(t, "reading", <<"m1", "r", "m3">>)
  <2>1. reader_count \in Nat /\ (reader_count = 0 <=> Readers = {})
    BY <1>2, NoReaders
  <2>2. /\ IsFiniteSet(Readers) /\ reader_count = Cardinality(Readers)
        /\ w \in {0, 1} /\ (w = 1 <=> Readers = {} /\ Writers = {})
        /\ Readers = {} \/ Writers = {}
    BY <1>2 DEF RWInv, CountInv, ExclusionInv
  <2>3. FirstReader <=> Readers = {}
    BY <2>1 DEF FirstReader
  <2>4. Writers = {}
    BY <2>2, <2>3, <1>5
  <2>5. w' = 0
    BY <1>5, <2>2, <2>3
  <2>6. TypeInv' /\ Readers' = Readers \cup {t} /\ Writers' = {}
    BY <1>1, <1>2, <1>3, <1>5, <2>4, Move DEF Then, PmsmLabels
  <2>7. IsFiniteSet(Readers') /\ Cardinality(Readers') = reader_count + 1
    BY <1>3, <2>2, <2>6, FS_AddElement
  <2>8. RWInv'
    BY <1>1, <1>5, <2>5, <2>6, <2>7 DEF RWInv, ExclusionInv, CountInv
  <2>9. RW!AcquireRead(t)
    BY <2>4, <2>6 DEF RW!AcquireRead
  <2>10. QED
    BY <2>8, <2>9 DEF Holding
<1>6. QED
  BY <1>4, <1>5 DEF RdW

\* rdunlock, between taking m1 and leaving.
LEMMA RuM1Step ==
  ASSUME RWInv, NEW t \in Threads, RuM1(t)
  PROVE  RWInv' /\ Holding
<1>1. pc[t] = "reading" /\ impl = "pmsm" /\ UNCHANGED <<impl, w, reader_count>>
  BY DEF RuM1, At, sems, counts
<1>2. t \in Readers /\ t \notin Writers
  BY <1>1 DEF Readers, Writers
<1>3. TypeInv' /\ Readers' = Readers \cup {t} /\ Writers' = Writers \ {t}
  BY <1>1, Move DEF RuM1, Then, PmsmLabels
<1>4. UNCHANGED <<Readers, Writers>>
  BY <1>2, <1>3
<1>5. QED
  BY <1>1, <1>3, <1>4, QuietStep DEF Holding

\* rdunlock: the last reader gives w back.
LEMMA RuStep ==
  ASSUME RWInv, NEW t \in Threads, Ru(t)
  PROVE  RWInv' /\ Holding
<1>1. /\ pc[t] = "ru" /\ UNCHANGED impl /\ pc' = [pc EXCEPT ![t] = "idle"]
      /\ w' = IF reader_count - 1 = 0 THEN w + 1 ELSE w
      /\ reader_count' = reader_count - 1
  BY DEF Ru, At, Then
<1>2. impl = "pmsm"
  BY <1>1 DEF RWInv, TypeInv, NativeLabels
<1>3. t \in Readers
  BY <1>1 DEF Readers
<1>4. /\ IsFiniteSet(Readers) /\ reader_count = Cardinality(Readers)
      /\ w \in {0, 1} /\ (w = 1 <=> Readers = {} /\ Writers = {})
      /\ Readers = {} \/ Writers = {}
  BY <1>2 DEF RWInv, CountInv, ExclusionInv
<1>5. Writers = {} /\ w = 0
  BY <1>3, <1>4
<1>6. TypeInv' /\ Readers' = Readers \ {t} /\ Writers' = {}
  <2>1. "idle" \in PmsmLabels
    BY DEF PmsmLabels
  <2>2. TypeInv' /\ Readers' = Readers \ {t} /\ Writers' = Writers \ {t}
    BY <1>1, <1>2, <2>1, MoveOut
  <2>3. QED
    BY <1>5, <2>2
<1>7. IsFiniteSet(Readers') /\ Cardinality(Readers') = reader_count - 1
  BY <1>3, <1>4, <1>6, FS_RemoveElement
<1>8. reader_count - 1 = 0 <=> Readers' = {}
  <2>1. Cardinality(Readers') = 0 <=> Readers' = {}
    BY <1>7, FS_EmptySet
  <2>2. QED
    BY <1>7, <2>1
<1>9. w' \in {0, 1} /\ (w' = 1 <=> Readers' = {})
  BY <1>1, <1>5, <1>8
<1>10. RWInv'
  BY <1>1, <1>6, <1>7, <1>9 DEF RWInv, ExclusionInv, CountInv
<1>11. RW!Release(t)
  BY <1>3, <1>5, <1>6 DEF RW!Release
<1>12. QED
  BY <1>10, <1>11 DEF Holding

\* wrlock takes w, which says that nobody is in.
LEMMA WrWStep ==
  ASSUME RWInv, NEW t \in Threads, WrW(t)
  PROVE  RWInv' /\ Holding
<1>1. pc[t] = "wr_w" /\ UNCHANGED <<impl, reader_count>>
  BY DEF WrW, At, counts
<1>2. impl = "pmsm"
  BY <1>1 DEF RWInv, TypeInv, NativeLabels
<1>3. CASE Then(t, "wr_catch", << >>) /\ UNCHANGED w
  BY <1>1, <1>2, <1>3, OutsideStep DEF Then, PmsmLabels, Outside
<1>4. CASE w > 0 /\ w' = w - 1 /\ Then(t, "writing", << >>)
  <2>1. /\ IsFiniteSet(Readers) /\ reader_count = Cardinality(Readers)
        /\ w \in {0, 1} /\ (w = 1 <=> Readers = {} /\ Writers = {})
    BY <1>2 DEF RWInv, CountInv
  <2>2. w = 1 /\ w' = 0 /\ Readers = {} /\ Writers = {}
    BY <1>4, <2>1
  <2>3. TypeInv' /\ Readers' = {} /\ Writers' = {t}
    BY <1>1, <1>2, <1>4, <2>2, Move DEF Then, PmsmLabels
  <2>4. RWInv'
    BY <1>1, <2>1, <2>2, <2>3 DEF RWInv, ExclusionInv, CountInv
  <2>5. RW!AcquireWrite(t)
    BY <2>2, <2>3 DEF RW!AcquireWrite
  <2>6. QED
    BY <2>4, <2>5 DEF Holding
<1>5. QED
  BY <1>3, <1>4 DEF WrW

\* wrunlock gives w back.
LEMMA WuWStep ==
  ASSUME RWInv, NEW t \in Threads, WuW(t)
  PROVE  RWInv' /\ Holding
<1>1. /\ pc[t] = "writing" /\ impl = "pmsm" /\ UNCHANGED <<impl, reader_count>>
      /\ w' = w + 1 /\ pc' = [pc EXCEPT ![t] = "wu_m2"]
  BY DEF WuW, At, Then, counts
<1>2. t \in Writers
  BY <1>1 DEF Writers
<1>3. /\ IsFiniteSet(Readers) /\ reader_count = Cardinality(Readers)
      /\ w \in {0, 1} /\ (w = 1 <=> Readers = {} /\ Writers = {})
  BY <1>1 DEF RWInv, CountInv, ExclusionInv
<1>4. Readers = {} /\ w' = 1 /\ Writers \ {t} = {}
  BY <1>1, <1>2, <1>3 DEF RWInv, ExclusionInv
<1>5. TypeInv' /\ Readers' = {} /\ Writers' = {}
  <2>1. "wu_m2" \in PmsmLabels
    BY DEF PmsmLabels
  <2>2. TypeInv' /\ Readers' = Readers \ {t} /\ Writers' = Writers \ {t}
    BY <1>1, <2>1, MoveOut
  <2>3. QED
    BY <1>4, <2>2
<1>6. RWInv'
  BY <1>1, <1>3, <1>4, <1>5 DEF RWInv, ExclusionInv, CountInv
<1>7. RW!Release(t)
  BY <1>2, <1>4, <1>5 DEF RW!Release
<1>8. QED
  BY <1>6, <1>7 DEF Holding

\* The locks of the system.
LEMMA NativeSteps ==
  ASSUME RWInv, NEW t \in Threads, RdNative(t) \/ WrNative(t) \/ UnlockNative(t)
  PROVE  RWInv' /\ Holding
<1>1. TypeInv /\ ExclusionInv /\ UNCHANGED impl
  BY DEF RWInv, RdNative, WrNative, UnlockNative
<1>2. impl # "pmsm"
  BY <1>1 DEF RdNative, WrNative, UnlockNative, At, TypeInv, PmsmLabels
<1>3. CASE RdNative(t)
  <2>1. Writers = {} /\ pc' = [pc EXCEPT ![t] = "reading"]
    BY <1>3 DEF RdNative, Then
  <2>2. TypeInv' /\ Readers' = Readers \cup {t} /\ Writers' = {}
    BY <1>1, <1>2, <2>1, Move DEF NativeLabels
  <2>3. RW!AcquireRead(t)
    BY <2>1, <2>2 DEF RW!AcquireRead
  <2>4. QED
    BY <1>1, <1>2, <2>2, <2>3 DEF Holding, RWInv, ExclusionInv, CountInv
<1>4. CASE WrNative(t)
  <2>1. Writers = {} /\ Readers = {} /\ pc' = [pc EXCEPT ![t] = "writing"]
    BY <1>4 DEF WrNative, Then
  <2>2. TypeInv' /\ Readers' = {} /\ Writers' = {t}
    BY <1>1, <1>2, <2>1, Move DEF NativeLabels
  <2>3. RW!AcquireWrite(t)
    BY <2>1, <2>2 DEF RW!AcquireWrite
  <2>4. QED
    BY <1>1, <1>2, <2>2, <2>3 DEF Holding, RWInv, ExclusionInv, CountInv
<1>5. CASE UnlockNative(t)
  <2>1. t \in Readers \cup Writers /\ pc' = [pc EXCEPT ![t] = "idle"]
    BY <1>5 DEF UnlockNative, At, Then, Readers, Writers
  <2>2. TypeInv' /\ Readers' = Readers \ {t} /\ Writers' = Writers \ {t}
    <3>1. "idle" \in NativeLabels
      BY DEF NativeLabels
    <3>2. QED
      BY <1>1, <1>2, <2>1, <3>1, MoveOut
  <2>3. RW!Release(t)
    BY <2>1, <2>2 DEF RW!Release
  <2>4. QED
    BY <1>1, <1>2, <2>2, <2>3 DEF Holding, RWInv, ExclusionInv, CountInv
<1>6. QED
  BY <1>3, <1>4, <1>5

\* Every step keeps the invariant and is a step of the read-write lock, or none.
LEMMA NextStep ==
  ASSUME RWInv, [Next]_vars
  PROVE  RWInv' /\ [RW!Next]_<<Readers, Writers>>
<1>1. RWInv' /\ Holding
  <2>1. CASE UNCHANGED vars
    <3>1. UNCHANGED <<impl, w, reader_count, Readers, Writers>> /\ TypeInv'
      BY <2>1 DEF vars, Readers, Writers, RWInv, TypeInv
    <3>2. QED
      BY <3>1, QuietStep DEF Holding
  <2>2. ASSUME NEW t \in Threads, Call(t) \/ Step(t) PROVE RWInv' /\ Holding
    BY <2>2, UnwindStep, WaitingSteps, RdWStep, RuM1Step, RuStep, WrWStep, WuWStep,
       NativeSteps
    DEF Call, Step
  <2>3. QED
    BY <2>1, <2>2 DEF Next
<1>2. QED
  BY <1>1 DEF Holding, RW!Next

\* Nobody has a new lock.
LEMMA InitRWInv == Init => RWInv /\ RW!Init
<1> SUFFICES ASSUME Init PROVE RWInv /\ RW!Init
  OBVIOUS
<1>1. Readers = {} /\ Writers = {}
  BY DEF Init, Readers, Writers
<1>2. TypeInv
  BY DEF Init, TypeInv, PmsmLabels, NativeLabels
<1>3. QED
  BY <1>1, <1>2, FS_EmptySet DEF Init, RWInv, ExclusionInv, CountInv, RW!Init

-----------------------------------------------------------------------------
(* The refinement.                                                         *)

\* In every implementation, whichever system calls fail, a step of a SharedMutex
\* lets in a reader while no writer is in, lets in a writer while nobody is in,
\* lets somebody out, or is none of the users' business.
THEOREM SharedMutexRefinement == Spec => ImplementsReadWriteLock
<1>1. Init => RWInv /\ RW!Init
  BY InitRWInv
<1>2. RWInv /\ [Next]_vars => RWInv' /\ [RW!Next]_<<Readers, Writers>>
  BY NextStep
<1>3. QED
  BY <1>1, <1>2, PTL DEF Spec, ImplementsReadWriteLock, RW!Spec

-----------------------------------------------------------------------------
(* The mutexes.  RdW, Ru, WrR, WrCatch and WuM2 read a count, compare it,  *)
(* use a semaphore and write the count in one step; that is right because  *)
(* the code between is under m1 or m2, and each of them has one owner.     *)

\* What a thread's guards can have left to unlock: after rdlock, after Unwind
\* has begun on it, after rdunlock, and after a block of wrlock or wrunlock.
Rdlock   == <<"m1", "r", "m3">>
RdlockR  == <<"r", "m3">>
OnlyM3   == <<"m3">>
OnlyM1   == <<"m1">>
OnlyM2   == <<"m2">>
Unwinds  == {<< >>, Rdlock, RdlockR, OnlyM3, OnlyM1, OnlyM2}

\* At label l with u left to unlock, a thread is between the constructor and the
\* destructor of a guard of x.
GuardsAt(l, u, x) ==
  \/ x = "m1" /\ (l \in {"rd_w", "ru"} \/ u \in {Rdlock, OnlyM1})
  \/ x = "m2" /\ (l = "wr_r" \/ u = OnlyM2)
  \/ x = "m3" /\ (l \in {"rd_r", "rd_m1", "rd_w"} \/ u \in {Rdlock, RdlockR, OnlyM3})

Guards(t, x) == GuardsAt(pc[t], unwind[t], x)

\* A thread owns exactly the mutexes it has a guard of.
OwnerInv ==
  /\ m \in [Mutexes -> Threads \cup {NoThread}]
  /\ \A t \in Threads, x \in Mutexes : Guards(t, x) <=> m[x] = t

\* Destructors run when a call returns or throws, and when wrlock's first block
\* ends.
UnwindInv ==
  /\ unwind \in [Threads -> Unwinds]
  /\ \A t \in Threads : unwind[t] # << >> => pc[t] \in {"idle", "reading", "wr_w"}

MutexInv == TypeInv /\ OwnerInv /\ UnwindInv

\* At most one thread at a time is in the code that a mutex protects.
OneInEachSection ==
  \A x \in Mutexes : \A s, t \in Threads : Guards(s, x) /\ Guards(t, x) => s = t

\* The six are different, and Unwind goes from one to the next.
LEMMA UnwindsDiffer ==
  /\ << >> \notin {Rdlock, RdlockR, OnlyM3, OnlyM1, OnlyM2}
  /\ Rdlock \notin {RdlockR, OnlyM3, OnlyM1, OnlyM2}
  /\ RdlockR \notin {OnlyM3, OnlyM1, OnlyM2}
  /\ OnlyM3 # OnlyM1 /\ OnlyM3 # OnlyM2 /\ OnlyM1 # OnlyM2
<1>1. /\ Len(<< >>) = 0 /\ Len(Rdlock) = 3 /\ Len(RdlockR) = 2
      /\ Len(OnlyM3) = 1 /\ Len(OnlyM1) = 1 /\ Len(OnlyM2) = 1
  BY DEF Rdlock, RdlockR, OnlyM3, OnlyM1, OnlyM2
<1>2. OnlyM3[1] = "m3" /\ OnlyM1[1] = "m1" /\ OnlyM2[1] = "m2"
  BY DEF OnlyM3, OnlyM1, OnlyM2
<1>3. QED
  BY <1>1, <1>2

\* What a destructor unlocks, and what it leaves to the next.
LEMMA UnwindsNext ==
  /\ Head(Rdlock) = "m1" /\ Tail(Rdlock) = RdlockR
  /\ Head(RdlockR) = "r" /\ Tail(RdlockR) = OnlyM3
  /\ Head(OnlyM3) = "m3" /\ Tail(OnlyM3) = << >>
  /\ Head(OnlyM1) = "m1" /\ Tail(OnlyM1) = << >>
  /\ Head(OnlyM2) = "m2" /\ Tail(OnlyM2) = << >>
  BY DEF Rdlock, RdlockR, OnlyM3, OnlyM1, OnlyM2

\* A step of t that takes, keeps and gives back what its guards say.
LEMMA GuardStep ==
  ASSUME NoThread \notin Threads, MutexInv, TypeInv', NEW t \in Threads,
         NEW l, NEW u \in Unwinds,
         u # << >> => l \in {"idle", "reading", "wr_w"},
         pc' = [pc EXCEPT ![t] = l], unwind' = [unwind EXCEPT ![t] = u],
         m' \in [Mutexes -> Threads \cup {NoThread}],
         \A x \in Mutexes : GuardsAt(l, u, x) <=> m'[x] = t,
         \A x \in Mutexes : m'[x] = m[x] \/ {m[x], m'[x]} = {t, NoThread}
  PROVE  MutexInv'
<1>1. /\ pc \in [Threads -> IF impl = "pmsm" THEN PmsmLabels ELSE NativeLabels]
      /\ unwind \in [Threads -> Unwinds]
      /\ \A s \in Threads, x \in Mutexes : GuardsAt(pc[s], unwind[s], x) <=> m[x] = s
      /\ \A s \in Threads : unwind[s] # << >> => pc[s] \in {"idle", "reading", "wr_w"}
  BY DEF MutexInv, TypeInv, OwnerInv, UnwindInv, Guards
<1>2. pc'[t] = l /\ unwind'[t] = u
  BY <1>1
<1>3. \A s \in Threads \ {t} : pc'[s] = pc[s] /\ unwind'[s] = unwind[s]
  BY <1>1
<1>4. UnwindInv'
  BY <1>1, <1>2, <1>3 DEF UnwindInv
<1>5. ASSUME NEW s \in Threads, NEW x \in Mutexes
      PROVE  GuardsAt(pc'[s], unwind'[s], x) <=> m'[x] = s
  <2>1. CASE s = t
    BY <1>2, <2>1
  <2>2. CASE s # t
    <3>1. m'[x] = s <=> m[x] = s
      BY <2>2
    <3>2. QED
      BY <1>1, <1>3, <2>2, <3>1
  <2>3. QED
    BY <2>1, <2>2
<1>6. OwnerInv'
  BY <1>5 DEF OwnerInv, Guards
<1>7. QED
  BY <1>4, <1>6 DEF MutexInv

\* A step that leaves the mutexes alone.
LEMMA KeepMutexes ==
  ASSUME NoThread \notin Threads, MutexInv, TypeInv', NEW t \in Threads,
         NEW l, NEW u \in Unwinds,
         u # << >> => l \in {"idle", "reading", "wr_w"},
         pc' = [pc EXCEPT ![t] = l], unwind' = [unwind EXCEPT ![t] = u],
         UNCHANGED m,
         \A x \in Mutexes : GuardsAt(l, u, x) <=> GuardsAt(pc[t], unwind[t], x)
  PROVE  MutexInv'
<1>1. /\ m' \in [Mutexes -> Threads \cup {NoThread}]
      /\ \A x \in Mutexes : GuardsAt(l, u, x) <=> m'[x] = t
  BY DEF MutexInv, OwnerInv, Guards
<1>2. QED
  BY <1>1, GuardStep

\* The constructor of a MutexGuard, in a thread that has no guard of j.
LEMMA TakeStep ==
  ASSUME NoThread \notin Threads, MutexInv, TypeInv', NEW t \in Threads,
         NEW j \in Mutexes, TakeMutex(t, j),
         NEW l, NEW u \in Unwinds,
         u # << >> => l \in {"idle", "reading", "wr_w"},
         Then(t, l, u),
         \A x \in Mutexes : GuardsAt(l, u, x) <=> x = j \/ GuardsAt(pc[t], unwind[t], x)
  PROVE  MutexInv'
<1>1. m \in [Mutexes -> Threads \cup {NoThread}]
  BY DEF MutexInv, OwnerInv
<1>2. /\ m' \in [Mutexes -> Threads \cup {NoThread}]
      /\ m'[j] = t /\ m[j] = NoThread
      /\ \A x \in Mutexes \ {j} : m'[x] = m[x]
  BY <1>1 DEF TakeMutex
<1>3. \A x \in Mutexes : m'[x] = m[x] \/ {m[x], m'[x]} = {t, NoThread}
  BY <1>2
<1>4. \A x \in Mutexes : GuardsAt(l, u, x) <=> m'[x] = t
  BY <1>2 DEF MutexInv, OwnerInv, Guards
<1>5. pc' = [pc EXCEPT ![t] = l] /\ unwind' = [unwind EXCEPT ![t] = u]
  BY DEF Then
<1>6. m' \in [Mutexes -> Threads \cup {NoThread}]
  BY <1>2
<1>7. QED
  BY <1>3, <1>4, <1>5, <1>6, GuardStep

\* The destructors.
LEMMA UnwindGuards ==
  ASSUME NoThread \notin Threads, MutexInv, TypeInv', NEW t \in Threads, Unwind(t)
  PROVE  MutexInv'
<1>1. /\ unwind[t] \in Unwinds \ {<< >>} /\ unwind' = [unwind EXCEPT ![t] = Tail(unwind[t])]
      /\ UNCHANGED pc /\ pc \in [Threads -> IF impl = "pmsm" THEN PmsmLabels ELSE NativeLabels]
      /\ pc[t] \in {"idle", "reading", "wr_w"}
      /\ m \in [Mutexes -> Threads \cup {NoThread}]
      /\ \A x \in Mutexes : GuardsAt(pc[t], unwind[t], x) <=> m[x] = t
  BY DEF MutexInv, OwnerInv, UnwindInv, TypeInv, Guards, Unwind
<1>2. pc' = [pc EXCEPT ![t] = pc[t]]
  BY <1>1
<1>3. CASE unwind[t] = RdlockR
  <2>1. UNCHANGED m /\ Tail(unwind[t]) = OnlyM3
    BY <1>3, UnwindsNext DEF Unwind
  <2>2. \A x \in Mutexes : GuardsAt(pc[t], OnlyM3, x) <=> GuardsAt(pc[t], unwind[t], x)
    BY <1>3, UnwindsDiffer DEF GuardsAt
  <2>3. QED
    BY <1>1, <1>2, <2>1, <2>2, KeepMutexes DEF Unwinds
<1>4. ASSUME NEW j \in Mutexes, NEW u \in Unwinds,
             Head(unwind[t]) = j, Tail(unwind[t]) = u,
             GuardsAt(pc[t], unwind[t], j), ~ GuardsAt(pc[t], u, j),
             \A x \in Mutexes \ {j} : GuardsAt(pc[t], u, x) <=> GuardsAt(pc[t], unwind[t], x)
      PROVE  MutexInv'
  <2>1. m' = [m EXCEPT ![j] = NoThread]
    BY <1>4 DEF Unwind, Mutexes
  <2>2. /\ m' \in [Mutexes -> Threads \cup {NoThread}]
        /\ m'[j] = NoThread /\ m[j] = t
        /\ \A x \in Mutexes \ {j} : m'[x] = m[x]
    BY <1>1, <1>4, <2>1
  <2>3. \A x \in Mutexes : m'[x] = m[x] \/ {m[x], m'[x]} = {t, NoThread}
    BY <2>2
  <2>4. \A x \in Mutexes : GuardsAt(pc[t], u, x) <=> m'[x] = t
    BY <1>1, <1>4, <2>2
  <2>5. QED
    BY <1>1, <1>2, <1>4, <2>2, <2>3, <2>4, GuardStep
<1> USE UnwindsDiffer, UnwindsNext DEF Unwinds, Mutexes, GuardsAt
<1>5. CASE unwind[t] = Rdlock
  BY <1>1, <1>4, <1>5
<1>6. CASE unwind[t] = OnlyM1
  BY <1>1, <1>4, <1>6
<1>7. CASE unwind[t] = OnlyM2
  BY <1>1, <1>4, <1>7
<1>8. CASE unwind[t] = OnlyM3
  BY <1>1, <1>4, <1>8
<1>9. QED
  BY <1>1, <1>3, <1>5, <1>6, <1>7, <1>8

\* Every step of a thread.
LEMMA MutexStep ==
  ASSUME NoThread \notin Threads, MutexInv, TypeInv', NEW t \in Threads,
         Call(t) \/ Step(t)
  PROVE  MutexInv'
<1> USE UnwindsDiffer DEF Unwinds, Mutexes, GuardsAt
<1>1. CASE RdM3(t)
  BY <1>1, TakeStep DEF RdM3, At
<1>2. CASE RdM1(t)
  BY <1>2, TakeStep DEF RdM1, At
<1>3. CASE RuM1(t)
  BY <1>3, TakeStep DEF RuM1, At
<1>4. CASE WrM2(t)
  BY <1>4, TakeStep DEF WrM2, At
<1>5. CASE WrCatch(t)
  BY <1>5, TakeStep DEF WrCatch, At, OnlyM2
<1>6. CASE WuM2(t)
  BY <1>6, TakeStep DEF WuM2, At, OnlyM2
<1>7. CASE ReaderGuard(t) \/ WriterGuard(t)
  BY <1>7, KeepMutexes DEF ReaderGuard, WriterGuard, At, Then
<1>8. CASE RdR(t)
  BY <1>8, KeepMutexes DEF RdR, At, Then, OnlyM3
<1>9. CASE RdW(t)
  BY <1>9, KeepMutexes DEF RdW, At, Then, Rdlock
<1>10. CASE Ru(t)
  BY <1>10, KeepMutexes DEF Ru, At, Then, OnlyM1
<1>11. CASE WrR(t)
  BY <1>11, KeepMutexes DEF WrR, At, Then, OnlyM2
<1>12. CASE WrW(t) \/ WuW(t)
  BY <1>12, KeepMutexes DEF WrW, WuW, At, Then
<1>13. CASE RdNative(t) \/ WrNative(t) \/ NativeThrows(t) \/ UnlockNative(t)
  BY <1>13, KeepMutexes DEF RdNative, WrNative, NativeThrows, UnlockNative, At, Then
<1>14. QED
  BY <1>1, <1>2, <1>3, <1>4, <1>5, <1>6, <1>7, <1>8, <1>9, <1>10, <1>11, <1>12,
     <1>13, UnwindGuards
  DEF Call, Step

\* m1, m2 and m3 protect what they are for: no two threads are between the
\* constructor and the destructor of a guard of the same mutex, although the
\* guards of rdlock are destroyed one by one, and by exceptions too.
THEOREM SectionsExclude ==
  ASSUME NoThread \notin Threads
  PROVE  Spec => []OneInEachSection
<1>1. Init => RWInv /\ MutexInv
  <2> SUFFICES ASSUME Init PROVE MutexInv
    BY InitRWInv
  <2>1. TypeInv
    BY InitRWInv DEF RWInv
  <2>2. \A t \in Threads, x \in Mutexes : ~ GuardsAt(pc[t], unwind[t], x) /\ m[x] # t
    BY UnwindsDiffer DEF Init, GuardsAt
  <2>3. QED
    BY <2>1, <2>2 DEF Init, MutexInv, OwnerInv, UnwindInv, Guards, Unwinds
<1>2. RWInv /\ MutexInv /\ [Next]_vars => RWInv' /\ MutexInv'
  <2> SUFFICES ASSUME RWInv, MutexInv, [Next]_vars PROVE RWInv' /\ MutexInv'
    OBVIOUS
  <2>1. RWInv' /\ TypeInv'
    BY NextStep DEF RWInv
  <2>2. CASE UNCHANGED vars
    BY <2>1, <2>2 DEF vars, MutexInv, OwnerInv, UnwindInv, Guards
  <2>3. QED
    BY <2>1, <2>2, MutexStep DEF Next
<1>3. MutexInv => OneInEachSection
  BY DEF MutexInv, OwnerInv, OneInEachSection
<1>4. QED
  BY <1>1, <1>2, <1>3, PTL DEF Spec

-----------------------------------------------------------------------------
(* ManualResetEvent.                                                       *)

Waiter == [at : {"idle", "waiting", "woken", "timedout", "released"}, timed : BOOLEAN,
           prev_count : Int, began : Nat, result : BOOLEAN, due : BOOLEAN]

EventTypeInv ==
  /\ sigcount \in Int
  /\ signals \in Nat
  /\ th \in [PairOfThreads -> Waiter]

\* A thread remembers the count of the signal before it began to wait; so if the
\* count has moved there was a signal.  Only SetEvent releases a thread.
PrevCountInv ==
  \A t \in PairOfThreads :
    /\ th[t].began <= signals
    /\ th[t].at \in {"waiting", "woken"} /\ th[t].began = signals => th[t].prev_count = sigcount
    /\ th[t].at = "released" => th[t].began < signals

EventInv == EventTypeInv /\ PrevCountInv /\ WaitNeedsSignal

\* signal, on every back end.
LEMMA EventSignal ==
  ASSUME EventInv, EV!Signal
  PROVE  EventInv'
<1> USE DEF EventInv, EventTypeInv, PrevCountInv, WaitNeedsSignal, EV!WaitNeedsSignal
<1>1. signals' \in Nat /\ signals' = signals + 1
  BY DEF EV!Signal
<1>2. sigcount' \in Int
  BY EventAssumption DEF EV!Signal, EV!signal_pthreads, EV!signal_win32
<1>3. \A t \in PairOfThreads : th[t] \in Waiter
  OBVIOUS
<1>4. CASE UNCHANGED th /\ UNCHANGED sigcount
  <2>1. PrevCountInv'
    BY <1>1, <1>3, <1>4 DEF Waiter
  <2>. QED
    BY <1>1, <1>2, <1>4, <2>1, Zenon
<1>5. ASSUME NEW p \in {"woken", "released"}, th' = EV!Wakes(p)
      PROVE  EventInv'
  <2>1. \A t \in PairOfThreads :
          th'[t] = IF th[t].at = "waiting" THEN [th[t] EXCEPT !.at = p] ELSE th[t]
    BY <1>5 DEF EV!Wakes
  <2>2. \A t \in PairOfThreads :
          /\ th'[t] \in Waiter
          /\ th'[t].at \in {th[t].at, p}
          /\ th'[t].began = th[t].began /\ th'[t].prev_count = th[t].prev_count
          /\ th'[t].result = th[t].result /\ th'[t].due = th[t].due
    <3> SUFFICES ASSUME NEW t \in PairOfThreads
                 PROVE  /\ th'[t] \in Waiter
                        /\ th'[t].at \in {th[t].at, p}
                        /\ th'[t].began = th[t].began /\ th'[t].prev_count = th[t].prev_count
                        /\ th'[t].result = th[t].result /\ th'[t].due = th[t].due
      BY Zenon
    <3>1. th[t] \in Waiter /\ p \in {"woken", "released"}
      BY <1>3, <1>5, Zenon
    <3>2. CASE th[t].at = "waiting"
      <4>1. th'[t] = [th[t] EXCEPT !.at = p]
        BY <2>1, <3>2, Zenon
      <4>. QED
        BY ONLY <3>1, <4>1 DEF Waiter
    <3>3. CASE th[t].at # "waiting"
      <4>1. th'[t] = th[t]
        BY <2>1, <3>3, Zenon
      <4>. QED
        BY <3>1, <4>1, Zenon
    <3>. QED
      BY <3>2, <3>3, Zenon
  <2>3. th' \in [PairOfThreads -> Waiter]
    BY <1>5, <2>2 DEF EV!Wakes
  <2>4. \A t \in PairOfThreads : th'[t].began < signals'
    BY <1>1, <1>3, <2>2 DEF Waiter
  <2>5. PrevCountInv'
    BY <1>1, <1>3, <2>2, <2>4 DEF Waiter
  <2>6. WaitNeedsSignal'
    BY <2>2, Zenon
  <2>. QED
    BY <1>1, <1>2, <2>3, <2>5, <2>6, Zenon
<1>. QED
  BY <1>4, <1>5 DEF EV!Signal, EV!signal_pthreads, EV!signal_win32

\* A step of one waiting thread.
LEMMA EventWaiter ==
  ASSUME EventInv, NEW t \in PairOfThreads, NEW rec \in Waiter,
         th' = [th EXCEPT ![t] = rec], UNCHANGED <<sigcount, signals>>,
         rec.began <= signals,
         rec.at \in {"waiting", "woken"} /\ rec.began = signals => rec.prev_count = sigcount,
         rec.at = "released" => rec.began < signals,
         rec.result => rec.due
  PROVE  EventInv'
<1> USE DEF EventInv, EventTypeInv, PrevCountInv, WaitNeedsSignal, EV!WaitNeedsSignal
<1>1. \A u \in PairOfThreads : th'[u] = IF u = t THEN rec ELSE th[u]
  OBVIOUS
<1>2. th' \in [PairOfThreads -> Waiter]
  OBVIOUS
<1>. QED
  BY <1>1, <1>2

\* A thread that does not wait.
LEMMA EventIdle ==
  /\ EV!Idle \in Waiter /\ EV!Idle.at = "idle" /\ EV!Idle.began = 0
  /\ EV!Idle.result /\ EV!Idle.due
BY DEF EV!Idle, Waiter

\* A thread is back from its wait.
LEMMA EventReturn ==
  ASSUME EventInv, NEW t \in PairOfThreads, NEW answer \in BOOLEAN,
         EV!Return(t, answer, TRUE), UNCHANGED <<sigcount, signals>>
  PROVE  EventInv'
<1> DEFINE rec == [EV!Idle EXCEPT !.result = answer, !.due = TRUE]
<1>1. rec \in Waiter
  BY EventIdle DEF Waiter
<1>2. rec.at = "idle" /\ rec.began = 0
  BY EventIdle DEF Waiter
<1>3. rec.due
  BY EventIdle DEF Waiter
<1>4. th' = [th EXCEPT ![t] = rec]
  BY DEF EV!Return
<1>. HIDE DEF rec
<1>5. /\ rec.began <= signals
      /\ ~ (rec.at \in {"waiting", "woken"}) /\ rec.at # "released"
  BY <1>2 DEF EventInv, EventTypeInv
<1>. QED
  BY <1>1, <1>3, <1>4, <1>5, EventWaiter, Zenon

\* Every other step of a thread.
LEMMA EventThread ==
  ASSUME EventInv, NEW t \in PairOfThreads,
         \/ EV!Wait(t, TRUE) \/ EV!Wait(t, FALSE) \/ EV!WakeSpuriously(t)
         \/ EV!TimeOut(t) \/ EV!WaitFails(t) \/ EV!Resume(t)
  PROVE  EventInv'
<1> DEFINE Moved(p) == [th[t] EXCEPT !.at = p]
<1>1. th[t] \in Waiter /\ signals \in Nat /\ sigcount \in Int
  BY DEF EventInv, EventTypeInv
<1>2. UNCHANGED <<sigcount, signals>>
  BY DEF EV!Wait, EV!WakeSpuriously, EV!TimeOut, EV!WaitFails, EV!Resume
<1>3. ASSUME NEW p \in {"waiting", "woken", "timedout"}, th' = [th EXCEPT ![t].at = p],
             p \in {"waiting", "woken"} /\ th[t].began = signals => th[t].prev_count = sigcount
      PROVE  EventInv'
  <2>1. /\ Moved(p) \in Waiter /\ Moved(p).at = p
        /\ Moved(p).began = th[t].began /\ Moved(p).prev_count = th[t].prev_count
        /\ Moved(p).result = th[t].result /\ Moved(p).due = th[t].due
    BY <1>1 DEF Waiter
  <2>2. th' = [th EXCEPT ![t] = Moved(p)]
    BY <1>3
  <2>3. th[t].began <= signals /\ (th[t].result => th[t].due)
    BY DEF EventInv, PrevCountInv, WaitNeedsSignal, EV!WaitNeedsSignal
  <2>4. p # "released"
    OBVIOUS
  <2>. HIDE DEF Moved
  <2>. QED
    BY <1>2, <1>3, <2>1, <2>2, <2>3, <2>4, EventWaiter
<1>4. ASSUME NEW timed_ \in BOOLEAN, EV!Wait(t, timed_) PROVE EventInv'
  <2>1. CASE EV!Return(t, TRUE, TRUE)
    BY <1>2, <2>1, EventReturn
  <2> DEFINE rec == [EV!Idle EXCEPT !.at = "waiting", !.timed = timed_,
                                  !.prev_count = sigcount, !.began = signals]
  <2>2. CASE th' = [th EXCEPT ![t] = rec]
    <3>1. rec \in Waiter /\ rec.at = "waiting" /\ rec.began = signals /\ rec.prev_count = sigcount /\ rec.result /\ rec.due
      BY <1>1 DEF EV!Idle, Waiter
    <3>2. signals <= signals
      BY <1>1
    <3>. HIDE DEF rec
    <3>. QED
      BY <1>1, <1>2, <2>2, <3>1, <3>2, EventWaiter
  <2>. QED
    BY <1>4, <2>1, <2>2 DEF EV!Wait
<1>5. CASE EV!WakeSpuriously(t)
  BY <1>3, <1>5 DEF EV!WakeSpuriously, EventInv, PrevCountInv
<1>6. CASE EV!TimeOut(t)
  <2>1. CASE EV!Return(t, FALSE, TRUE)
    BY <1>2, <2>1, EventReturn
  <2>. QED
    BY <1>3, <1>6, <2>1 DEF EV!TimeOut
<1>7. CASE EV!WaitFails(t)
  <2>2. th' = [th EXCEPT ![t] = EV!Idle]
    BY <1>7 DEF EV!WaitFails, EV!Throw
  <2>3. /\ EV!Idle.began <= signals
        /\ ~ (EV!Idle.at \in {"waiting", "woken"}) /\ EV!Idle.at # "released"
    BY <1>1, EventIdle
  <2>. QED
    BY <1>2, <2>2, <2>3, EventIdle, EventWaiter, Zenon
<1>8. CASE EV!Resume(t)
  <2>1. CASE th[t].at = "woken" /\ EV!KeepWaiting(t) /\ th' = [th EXCEPT ![t].at = "waiting"]
    BY <1>3, <2>1 DEF EV!KeepWaiting
  <2>2. CASE EV!Return(t, FALSE, TRUE)
    BY <1>2, <2>2, EventReturn
  <2>3. CASE /\ EV!Return(t, TRUE, signals > th[t].began)
             /\ th[t].at = "released" \/ (th[t].at = "woken" /\ ~ EV!KeepWaiting(t))
    <3>1. (signals > th[t].began) = TRUE
      BY <1>1, <2>3 DEF EV!KeepWaiting, EventInv, PrevCountInv, Waiter
    <3>. QED
      BY <1>2, <2>3, <3>1, EventReturn
  <2>. QED
    BY <1>8, <2>1, <2>2, <2>3 DEF EV!Resume
<1>. QED
  BY <1>4, <1>5, <1>6, <1>7, <1>8

\* EventInv is an invariant.
LEMMA EventInvariant ==
  EV!Init /\ [][EV!Next]_(EV!vars) => []EventInv
<1>1. EV!Init => EventInv
  BY EventIdle DEF EV!Init, EventInv, EventTypeInv, PrevCountInv, WaitNeedsSignal, EV!WaitNeedsSignal
<1>2. EventInv /\ [EV!Next]_(EV!vars) => EventInv'
  <2>1. CASE EV!Reset
    BY <2>1 DEF EV!Reset, EventInv, EventTypeInv, PrevCountInv, WaitNeedsSignal, EV!WaitNeedsSignal
  <2>2. CASE UNCHANGED EV!vars
    BY <2>2 DEF EV!vars, EventInv, EventTypeInv, PrevCountInv, WaitNeedsSignal, EV!WaitNeedsSignal
  <2>. QED
    BY <2>1, <2>2, EventSignal, EventThread DEF EV!Next
<1>. QED
  BY <1>1, <1>2, PTL

\* ManualResetEvent: for any number of threads and any range of an unsigned, no
\* wait ends because of a spurious wake-up; a wrap of sigcount delays a thread
\* but never lets it go.
THEOREM WaitsNeedSignals ==
  EV!Spec => []WaitNeedsSignal
<1>1. EventInv => WaitNeedsSignal
  BY DEF EventInv
<1>. QED
  BY <1>1, EventInvariant, PTL DEF EV!Spec

-----------------------------------------------------------------------------
(* SharedObjectPtr.                                                        *)

Pointers == Objects \cup {Null, Unborn}

PointerTypeInv ==
  /\ pointee \in [PairOfThreads -> [Slots -> Pointers]]
  /\ temp \in [PairOfThreads -> Pointers]
  /\ target \in [PairOfThreads -> Slots \cup {Unborn}]
  /\ count \in [Objects -> Nat]
  /\ objLife \in [Objects -> {"raw", "live", "freed"}]

\* Only finitely many pointers exist at any time.
FiniteInv ==
  \A o \in Objects : IsFiniteSet(PT!PointersTo(o)) /\ IsFiniteSet(PT!TempsTo(o))

\* An assignment has its temporary until the temporary is destroyed.
AssignInv == \A t \in PairOfThreads : target[t] # Unborn => temp[t] # Unborn

PointerInv == PointerTypeInv /\ FiniteInv /\ AssignInv /\ PT!Counted

\* What a thread has read for a copy: it does nothing else until the reference
\* is added, and the pointer it read is as it was unless a race was noted.
CopyOf(t) ==
  LET c == reading[t] IN
  /\ temp[t] = Unborn /\ c.for \in {"construct", "assign"} /\ c.slot \in Slots
  /\ c.value \in Pointers \ {Unborn} /\ c.rhs \in PairOfThreads \X Slots
  /\ c.value \in Objects => objLife[c.value] # "raw"
  /\ c.for = "construct" => pointee[t][c.slot] = Unborn
  /\ ~ raced => pointee[c.rhs[1]][c.rhs[2]] = c.value

CopyInv ==
  /\ reading \in [PairOfThreads -> {PT!NoCopy} \cup [for : {"construct", "assign"}, slot : Slots,
                                                   rhs : PairOfThreads \X Slots, value : Pointers]]
  /\ \A t \in PairOfThreads : PT!Copying(t) => CopyOf(t)
  /\ usedFreed => raced

\* The variables, and the temporaries, that point to o.
VarsTo(f, o) == {z \in PairOfThreads \X Slots : f[z[1]][z[2]] = o}
TempsIn(f, o) == {t \in PairOfThreads : f[t] = o}

\* 1 if p points to o.
One(p, o) == IF p = o THEN 1 ELSE 0

\* An instance has its own copy of the operators of FiniteSets.
LEMMA PointerCardinality ==
  ASSUME NEW S PROVE PT!Cardinality(S) = Cardinality(S)
  BY DEF PT!Cardinality, Cardinality

\* The invariant in these terms.
LEMMA PointedIs ==
  ASSUME PointerInv, NEW o \in Objects
  PROVE  /\ IsFiniteSet(VarsTo(pointee, o)) /\ IsFiniteSet(TempsIn(temp, o))
         /\ Cardinality(VarsTo(pointee, o)) \in Nat /\ Cardinality(TempsIn(temp, o)) \in Nat
         /\ count[o] = Cardinality(VarsTo(pointee, o)) + Cardinality(TempsIn(temp, o))
         /\ count[o] \in Nat
         /\ objLife[o] = "live" <=> count[o] > 0
<1>1. VarsTo(pointee, o) = PT!PointersTo(o) /\ TempsIn(temp, o) = PT!TempsTo(o)
  BY Zenon DEF VarsTo, TempsIn, PT!PointersTo, PT!TempsTo
<1>2. IsFiniteSet(VarsTo(pointee, o)) /\ IsFiniteSet(TempsIn(temp, o))
  BY <1>1, Zenon DEF PointerInv, FiniteInv
<1>3. Cardinality(VarsTo(pointee, o)) \in Nat /\ Cardinality(TempsIn(temp, o)) \in Nat
  BY <1>2, FS_CardinalityType
<1>4. count[o] = Cardinality(VarsTo(pointee, o)) + Cardinality(TempsIn(temp, o))
  BY <1>1, PointerCardinality, Zenon DEF PointerInv, PT!Counted
<1>5. objLife[o] = "live" <=> count[o] > 0
  BY Zenon DEF PointerInv, PT!Counted
<1>6. count[o] \in Nat
  BY DEF PointerInv, PointerTypeInv
<1>. QED
  BY <1>2, <1>3, <1>4, <1>5, <1>6, Zenon

\* And the converse, after a step.
LEMMA PointerInvIs ==
  ASSUME PointerTypeInv', AssignInv',
         \A o \in Objects :
           /\ IsFiniteSet(VarsTo(pointee', o)) /\ IsFiniteSet(TempsIn(temp', o))
           /\ count'[o] = Cardinality(VarsTo(pointee', o)) + Cardinality(TempsIn(temp', o))
           /\ objLife'[o] = "live" <=> count'[o] > 0
  PROVE  PointerInv'
<1>1. \A o \in Objects : VarsTo(pointee', o) = PT!PointersTo(o)' /\ TempsIn(temp', o) = PT!TempsTo(o)'
  BY Zenon DEF VarsTo, TempsIn, PT!PointersTo, PT!TempsTo
<1>2. FiniteInv'
  BY <1>1, Zenon DEF FiniteInv
<1>3. PT!Counted'
  BY <1>1, PointerCardinality, Zenon DEF PT!Counted
<1>. QED
  BY <1>2, <1>3, Zenon DEF PointerInv

\* A finite set with an element more, or less.
LEMMA OneMore ==
  ASSUME NEW S, NEW z, IsFiniteSet(S), z \notin S
  PROVE  IsFiniteSet(S \cup {z}) /\ Cardinality(S \cup {z}) = Cardinality(S) + 1
  BY FS_AddElement

LEMMA OneLess ==
  ASSUME NEW S, NEW z, IsFiniteSet(S), z \in S
  PROVE  IsFiniteSet(S \ {z}) /\ Cardinality(S \ {z}) = Cardinality(S) - 1
  BY FS_RemoveElement

\* Q has an element more than S if p points to o, and one less if q did.
Grows(Q, S, p, q, o) ==
  IsFiniteSet(Q) /\ Cardinality(Q) = Cardinality(S) + One(p, o) - One(q, o)

\* An element enters or leaves a set according to what it points to.
LEMMA OneChanged ==
  ASSUME NEW S, NEW Q, NEW z, NEW p, NEW q, NEW o, IsFiniteSet(S),
         z \in S <=> q = o,
         p = o => Q = S \cup {z},
         p # o => Q = S \ {z}
  PROVE  Grows(Q, S, p, q, o)
<1> SUFFICES IsFiniteSet(Q) /\ Cardinality(Q) = Cardinality(S) + One(p, o) - One(q, o)
  BY Zenon DEF Grows
<1>1. Cardinality(S) \in Nat
  BY FS_CardinalityType
<1>2. CASE p = o /\ q = o
  <2>1. Q = S \cup {z} /\ z \in S
    BY <1>2, Zenon
  <2>2. Q = S
    BY <2>1, Zenon
  <2>3. Cardinality(S) = Cardinality(S) + One(p, o) - One(q, o)
    BY <1>1, <1>2 DEF One
  <2>. QED
    BY <2>2, <2>3, Zenon
<1>3. CASE p = o /\ q # o
  BY <1>1, <1>3, OneMore DEF One
<1>4. CASE p # o /\ q = o
  BY <1>1, <1>4, OneLess DEF One
<1>5. CASE p # o /\ q # o
  <2>1. Q = S \ {z} /\ z \notin S
    BY <1>5, Zenon
  <2>2. Q = S
    BY <2>1, Zenon
  <2>3. Cardinality(S) = Cardinality(S) + One(p, o) - One(q, o)
    BY <1>1, <1>5 DEF One
  <2>. QED
    BY <2>2, <2>3, Zenon
<1>. QED
  BY <1>2, <1>3, <1>4, <1>5, Zenon

\* One variable is set to p.
LEMMA VarsChanged ==
  ASSUME NEW f, NEW h, NEW c \in PairOfThreads \X Slots, NEW p, NEW q, NEW o,
         IsFiniteSet(VarsTo(f, o)),
         q = f[c[1]][c[2]],
         \A z \in PairOfThreads \X Slots : h[z[1]][z[2]] = IF z = c THEN p ELSE f[z[1]][z[2]]
  PROVE  Grows(VarsTo(h, o), VarsTo(f, o), p, q, o)
<1>1. /\ p = o => VarsTo(h, o) = VarsTo(f, o) \cup {c}
      /\ p # o => VarsTo(h, o) = VarsTo(f, o) \ {c}
  BY DEF VarsTo
<1>2. c \in VarsTo(f, o) <=> q = o
  BY DEF VarsTo
<1>. QED
  BY <1>1, <1>2, OneChanged

\* h is f with one variable, or one temporary, set to p.
VarSet(f, h, t, d, p) ==
  \A u \in PairOfThreads, s \in Slots : h[u][s] = IF u = t /\ s = d THEN p ELSE f[u][s]
TempSet(f, h, t, p) == \A u \in PairOfThreads : h[u] = IF u = t THEN p ELSE f[u]

LEMMA SetCount ==
  ASSUME NEW f, NEW h, NEW t \in PairOfThreads, NEW d \in Slots, NEW p, NEW o,
         IsFiniteSet(VarsTo(f, o)), VarSet(f, h, t, d, p)
  PROVE  Grows(VarsTo(h, o), VarsTo(f, o), p, f[t][d], o)
<1> DEFINE c == <<t, d>>
           q == f[t][d]
<1>1. \A z \in PairOfThreads \X Slots : h[z[1]][z[2]] = IF z = c THEN p ELSE f[z[1]][z[2]]
  BY DEF VarSet
<1>2. c \in PairOfThreads \X Slots /\ q = f[c[1]][c[2]]
  OBVIOUS
<1>. HIDE DEF c, q
<1>3. Grows(VarsTo(h, o), VarsTo(f, o), p, q, o)
  BY <1>1, <1>2, VarsChanged
<1>. QED
  BY <1>3, Zenon DEF q

LEMMA SetIs ==
  ASSUME NEW f \in [PairOfThreads -> [Slots -> Pointers]],
         NEW t \in PairOfThreads, NEW d \in Slots, NEW p \in Pointers,
         NEW h, h = [f EXCEPT ![t][d] = p]
  PROVE  h \in [PairOfThreads -> [Slots -> Pointers]] /\ VarSet(f, h, t, d, p)
  BY DEF VarSet

LEMMA TempIs ==
  ASSUME NEW f \in [PairOfThreads -> Pointers], NEW t \in PairOfThreads, NEW p \in Pointers,
         NEW h, h = [f EXCEPT ![t] = p]
  PROVE  h \in [PairOfThreads -> Pointers] /\ TempSet(f, h, t, p)
  BY DEF TempSet

LEMMA TempCount ==
  ASSUME NEW f, NEW h, NEW t \in PairOfThreads, NEW p, NEW o,
         IsFiniteSet(TempsIn(f, o)), TempSet(f, h, t, p)
  PROVE  Grows(TempsIn(h, o), TempsIn(f, o), p, f[t], o)
<1>1. /\ p = o => TempsIn(h, o) = TempsIn(f, o) \cup {t}
      /\ p # o => TempsIn(h, o) = TempsIn(f, o) \ {t}
  BY DEF TempsIn, TempSet
<1>2. t \in TempsIn(f, o) <=> f[t] = o
  BY DEF TempsIn
<1>. QED
  BY <1>1, <1>2, OneChanged

\* An object that somebody points to is alive.
LEMMA PointedLives ==
  ASSUME PointerInv, NEW u \in PairOfThreads, NEW o \in Objects,
         temp[u] = o \/ \E s \in Slots : pointee[u][s] = o
  PROVE  count[o] > 0 /\ objLife[o] = "live"
<1> DEFINE V == VarsTo(pointee, o)
           T == TempsIn(temp, o)
<1>1. /\ IsFiniteSet(V) /\ IsFiniteSet(T) /\ Cardinality(V) \in Nat /\ Cardinality(T) \in Nat
      /\ count[o] = Cardinality(V) + Cardinality(T)
      /\ objLife[o] = "live" <=> count[o] > 0
  BY PointedIs, Zenon
<1>2. V # {} \/ T # {}
  <2>1. CASE temp[u] = o
    BY <2>1 DEF TempsIn
  <2>2. ASSUME NEW s \in Slots, pointee[u][s] = o PROVE V # {}
    <3>1. <<u, s>> \in V
      BY <2>2 DEF VarsTo
    <3>. QED
      BY <3>1, Zenon
  <2>. QED
    BY <2>1, <2>2, Zenon
<1>. HIDE DEF V, T
<1>3. Cardinality(V) # 0 \/ Cardinality(T) # 0
  BY <1>1, <1>2, FS_EmptySet
<1>4. count[o] > 0
  BY <1>1, <1>3
<1>. QED
  BY <1>1, <1>4, Zenon

\* What addref and release do to the counts.
LEMMA AddrefIs ==
  ASSUME PointerTypeInv, NEW p \in Pointers, PT!addref(p)
  PROVE  /\ count' \in [Objects -> Nat]
         /\ \A o \in Objects : count'[o] = count[o] + One(p, o)
<1>1. CASE p \in Objects
  BY <1>1 DEF PointerTypeInv, PT!addref, PT!addReference, One
<1>2. CASE p \notin Objects
  BY <1>2 DEF PointerTypeInv, PT!addref, One
<1>. QED
  BY <1>1, <1>2

LEMMA ReleaseIs ==
  ASSUME PointerTypeInv, NEW p \in Pointers, p \in Objects => count[p] > 0, PT!release(p)
  PROVE  /\ count' \in [Objects -> Nat]
         /\ objLife' \in [Objects -> {"raw", "live", "freed"}]
         /\ \A o \in Objects : /\ count'[o] = count[o] - One(p, o)
                               /\ objLife'[o] = IF p = o /\ count[o] = 1 THEN "freed" ELSE objLife[o]
<1>1. CASE p \in Objects
  BY <1>1 DEF PointerTypeInv, PT!release, PT!removeReference, One
<1>2. CASE p \notin Objects
  BY <1>2 DEF PointerTypeInv, PT!release, One
<1>. QED
  BY <1>1, <1>2

\* After the step o has k more pointers and temporaries.
Gains(o, k) ==
  /\ IsFiniteSet(VarsTo(pointee', o)) /\ IsFiniteSet(TempsIn(temp', o))
  /\ Cardinality(VarsTo(pointee', o)) + Cardinality(TempsIn(temp', o))
       = Cardinality(VarsTo(pointee, o)) + Cardinality(TempsIn(temp, o)) + k

\* A pointer to p more, an unchanged number, or a pointer to p less.
LEMMA GainStep ==
  ASSUME PointerInv, PointerTypeInv', AssignInv', NEW p \in Pointers, PT!addref(p),
         \A o \in Objects : Gains(o, One(p, o)) /\ objLife'[o] = IF p = o THEN "live" ELSE objLife[o]
  PROVE  PointerInv'
<1>1. ASSUME NEW o \in Objects
      PROVE  /\ count'[o] = Cardinality(VarsTo(pointee', o)) + Cardinality(TempsIn(temp', o))
             /\ objLife'[o] = "live" <=> count'[o] > 0
  <2>1. /\ count[o] = Cardinality(VarsTo(pointee, o)) + Cardinality(TempsIn(temp, o))
        /\ count[o] \in Nat /\ (objLife[o] = "live" <=> count[o] > 0)
    BY PointedIs, Zenon
  <2>2. count'[o] = count[o] + One(p, o)
    BY AddrefIs DEF PointerInv
  <2>3. count'[o] = Cardinality(VarsTo(pointee', o)) + Cardinality(TempsIn(temp', o))
    BY <2>1, <2>2, Zenon DEF Gains
  <2>4. objLife'[o] = "live" <=> count'[o] > 0
    BY <2>1, <2>2 DEF One
  <2>. QED
    BY <2>3, <2>4, Zenon
<1>. QED
  BY <1>1, PointerInvIs, Zenon DEF Gains

LEMMA KeepStep ==
  ASSUME PointerInv, PointerTypeInv', AssignInv', UNCHANGED <<count, objLife>>,
         \A o \in Objects : Gains(o, 0)
  PROVE  PointerInv'
<1>1. ASSUME NEW o \in Objects
      PROVE  /\ count'[o] = Cardinality(VarsTo(pointee', o)) + Cardinality(TempsIn(temp', o))
             /\ objLife'[o] = "live" <=> count'[o] > 0
  <2>1. /\ count[o] = Cardinality(VarsTo(pointee, o)) + Cardinality(TempsIn(temp, o))
        /\ count[o] \in Nat /\ (objLife[o] = "live" <=> count[o] > 0)
    BY PointedIs, Zenon
  <2>2. Cardinality(VarsTo(pointee', o)) + Cardinality(TempsIn(temp', o)) = count[o] + 0
    BY <2>1, Zenon DEF Gains
  <2>3. count'[o] = Cardinality(VarsTo(pointee', o)) + Cardinality(TempsIn(temp', o))
    BY <2>1, <2>2
  <2>. QED
    BY <2>1, <2>3, Zenon
<1>. QED
  BY <1>1, PointerInvIs, Zenon DEF Gains

LEMMA LoseStep ==
  ASSUME PointerInv, pointee' \in [PairOfThreads -> [Slots -> Pointers]],
         temp' \in [PairOfThreads -> Pointers], UNCHANGED target, AssignInv',
         NEW p \in Pointers, p \in Objects => count[p] > 0, PT!release(p),
         \A o \in Objects : Gains(o, - One(p, o))
  PROVE  PointerInv'
<1>0. PointerTypeInv
  BY DEF PointerInv
<1>1. ASSUME NEW o \in Objects
      PROVE  /\ count'[o] = Cardinality(VarsTo(pointee', o)) + Cardinality(TempsIn(temp', o))
             /\ objLife'[o] = "live" <=> count'[o] > 0
  <2>1. /\ count[o] = Cardinality(VarsTo(pointee, o)) + Cardinality(TempsIn(temp, o))
        /\ count[o] \in Nat /\ (objLife[o] = "live" <=> count[o] > 0)
    BY PointedIs, Zenon
  <2>2. /\ count'[o] = count[o] - One(p, o)
        /\ objLife'[o] = IF p = o /\ count[o] = 1 THEN "freed" ELSE objLife[o]
    BY <1>0, ReleaseIs
  <2>3. Cardinality(VarsTo(pointee', o)) + Cardinality(TempsIn(temp', o)) = count[o] + (- One(p, o))
    BY <2>1, Zenon DEF Gains
  <2>4. count'[o] = Cardinality(VarsTo(pointee', o)) + Cardinality(TempsIn(temp', o))
    BY <2>1, <2>2, <2>3 DEF One
  <2>5. objLife'[o] = "live" <=> count'[o] > 0
    BY <2>1, <2>2 DEF One
  <2>. QED
    BY <2>4, <2>5, Zenon
<1>2. PointerTypeInv'
  BY <1>0, ReleaseIs DEF PointerTypeInv
<1>. QED
  BY <1>1, <1>2, PointerInvIs, Zenon DEF Gains

\* One of them is 0 where p is no object.
LEMMA OneIs ==
  ASSUME NEW p, NEW o
  PROVE  One(p, o) \in {0, 1} /\ (p # o => One(p, o) = 0)
  BY DEF One

\* A variable is set, and nothing else points elsewhere.
LEMMA VarStep ==
  ASSUME PointerInv, NEW t \in PairOfThreads, NEW d \in Slots, NEW p \in Pointers,
         PT!Set(t, d, p), UNCHANGED temp
  PROVE  /\ pointee' \in [PairOfThreads -> [Slots -> Pointers]]
         /\ \A o \in Objects : Gains(o, One(p, o) - One(pointee[t][d], o))
<1>1. pointee \in [PairOfThreads -> [Slots -> Pointers]]
  BY DEF PointerInv, PointerTypeInv
<1>2. pointee' = [pointee EXCEPT ![t][d] = p]
  BY DEF PT!Set
<1>3. pointee' \in [PairOfThreads -> [Slots -> Pointers]] /\ VarSet(pointee, pointee', t, d, p)
  BY <1>1, <1>2, SetIs, Zenon
<1>4. ASSUME NEW o \in Objects PROVE Gains(o, One(p, o) - One(pointee[t][d], o))
  <2> DEFINE q == pointee[t][d]
  <2>1. /\ IsFiniteSet(VarsTo(pointee, o)) /\ IsFiniteSet(TempsIn(temp, o))
        /\ Cardinality(VarsTo(pointee, o)) \in Nat /\ Cardinality(TempsIn(temp, o)) \in Nat
    BY PointedIs, Zenon
  <2>2. Grows(VarsTo(pointee', o), VarsTo(pointee, o), p, q, o)
    BY <1>3, <2>1, SetCount, Zenon
  <2>. HIDE DEF q
  <2>3. One(p, o) \in Int /\ One(q, o) \in Int
    BY OneIs
  <2>4. Cardinality(VarsTo(pointee', o)) + Cardinality(TempsIn(temp, o))
          = Cardinality(VarsTo(pointee, o)) + Cardinality(TempsIn(temp, o)) + (One(p, o) - One(q, o))
    BY <2>1, <2>2, <2>3 DEF Grows
  <2>. QED
    BY <2>1, <2>2, <2>4, Zenon DEF Gains, Grows, q
<1>. QED
  BY <1>3, <1>4, Zenon

\* A temporary is set, and nothing else points elsewhere.
LEMMA TempStep ==
  ASSUME PointerInv, NEW t \in PairOfThreads, NEW p \in Pointers,
         temp' = [temp EXCEPT ![t] = p], UNCHANGED pointee
  PROVE  /\ temp' \in [PairOfThreads -> Pointers]
         /\ \A o \in Objects : Gains(o, One(p, o) - One(temp[t], o))
<1>1. temp \in [PairOfThreads -> Pointers]
  BY DEF PointerInv, PointerTypeInv
<1>2. temp' \in [PairOfThreads -> Pointers] /\ TempSet(temp, temp', t, p)
  BY <1>1, TempIs, Zenon
<1>4. ASSUME NEW o \in Objects PROVE Gains(o, One(p, o) - One(temp[t], o))
  <2> DEFINE q == temp[t]
  <2>1. /\ IsFiniteSet(VarsTo(pointee, o)) /\ IsFiniteSet(TempsIn(temp, o))
        /\ Cardinality(VarsTo(pointee, o)) \in Nat /\ Cardinality(TempsIn(temp, o)) \in Nat
    BY PointedIs, Zenon
  <2>2. Grows(TempsIn(temp', o), TempsIn(temp, o), p, q, o)
    BY <1>2, <2>1, TempCount, Zenon
  <2>. HIDE DEF q
  <2>3. One(p, o) \in Int /\ One(q, o) \in Int
    BY OneIs
  <2>4. Cardinality(VarsTo(pointee, o)) + Cardinality(TempsIn(temp', o))
          = Cardinality(VarsTo(pointee, o)) + Cardinality(TempsIn(temp, o)) + (One(p, o) - One(q, o))
    BY <2>1, <2>2, <2>3 DEF Grows
  <2>. QED
    BY <2>1, <2>2, <2>4, Zenon DEF Gains, Grows, q
<1>. QED
  BY <1>2, <1>4, Zenon

\* A pointer that points to no object may be overwritten.
LEMMA NoObject ==
  ASSUME NEW p \in {Null, Unborn}, NEW o \in Objects PROVE One(p, o) = 0
  BY PointerAssumption DEF One

\* The constructors.
LEMMA ConstructStep ==
  ASSUME PointerInv, NEW t \in PairOfThreads, NEW d \in Slots, NEW o \in Objects \cup {Null},
         PT!Construct(t, d, o)
  PROVE  PointerInv'
<1>1. o \in Pointers /\ pointee[t][d] = Unborn /\ UNCHANGED <<temp, target>> /\ PT!Set(t, d, o) /\ PT!addref(o)
  BY DEF Pointers, PT!Construct, PT!Free
<1>2. /\ pointee' \in [PairOfThreads -> [Slots -> Pointers]]
      /\ \A x \in Objects : Gains(x, One(o, x) - One(pointee[t][d], x))
  BY <1>1, VarStep
<1>3. ASSUME NEW x \in Objects PROVE Gains(x, One(o, x))
  <2>1. One(pointee[t][d], x) = 0 /\ One(o, x) \in {0, 1}
    BY <1>1, NoObject, OneIs
  <2>2. One(o, x) - One(pointee[t][d], x) = One(o, x)
    BY <2>1
  <2>. QED
    BY <1>2, <2>2, Zenon
<1>4. /\ objLife' \in [Objects -> {"raw", "live", "freed"}]
      /\ \A x \in Objects : objLife'[x] = IF o = x THEN "live" ELSE objLife[x]
  BY DEF PT!Construct, PointerInv, PointerTypeInv
<1>5. PointerTypeInv' /\ AssignInv'
  BY <1>1, <1>2, <1>4, AddrefIs DEF PointerInv, PointerTypeInv, AssignInv
<1>. QED
  BY <1>1, <1>3, <1>4, <1>5, GainStep, Zenon

\* What a thread that copies has in hand.
LEMMA CopyIs ==
  ASSUME PointerInv, CopyInv, NEW t \in PairOfThreads, reading[t].for \in {"construct", "assign"}
  PROVE  PT!Copying(t) /\ CopyOf(t)
<1>1. reading[t] # PT!NoCopy
  BY DEF PT!NoCopy
<1>. QED
  BY <1>1 DEF CopyInv, PT!Copying

\* A copy is made of nothing, or of an object that is alive.
LEMMA CopiedLives ==
  ASSUME PointerInv, NEW p \in Pointers, p \in Objects => objLife[p] # "raw", ~ PT!Gone(p)
  PROVE  \A x \in Objects : p = x => objLife[x] = "live"
  BY DEF PointerInv, PointerTypeInv, PT!Gone

LEMMA CopyConstructStep ==
  ASSUME PointerInv, CopyInv, NEW t \in PairOfThreads, PT!CopyConstruct(t)
  PROVE  PointerInv'
<1> DEFINE p == reading[t].value
           d == reading[t].slot
<1>0. PT!Copying(t) /\ CopyOf(t)
  BY CopyIs DEF PT!CopyConstruct
<1>1. /\ p \in Pointers /\ d \in Slots /\ pointee[t][d] = Unborn /\ UNCHANGED <<temp, target, objLife>>
      /\ PT!Set(t, d, p) /\ PT!addref(p) /\ ~ PT!Gone(p) /\ (p \in Objects => objLife[p] # "raw")
  BY <1>0 DEF CopyOf, PT!CopyConstruct
<1>. HIDE DEF p, d
<1>2. /\ pointee' \in [PairOfThreads -> [Slots -> Pointers]]
      /\ \A x \in Objects : Gains(x, One(p, x) - One(pointee[t][d], x))
  BY <1>1, VarStep
<1>3. \A x \in Objects : p = x => objLife[x] = "live"
  BY <1>1, CopiedLives
<1>4. ASSUME NEW x \in Objects PROVE Gains(x, One(p, x))
  <2>1. One(pointee[t][d], x) = 0 /\ One(p, x) \in {0, 1}
    BY <1>1, NoObject, OneIs
  <2>2. One(p, x) - One(pointee[t][d], x) = One(p, x)
    BY <2>1
  <2>. QED
    BY <1>2, <2>2, Zenon
<1>5. \A x \in Objects : objLife'[x] = IF p = x THEN "live" ELSE objLife[x]
  BY <1>1, <1>3
<1>6. PointerTypeInv' /\ AssignInv'
  BY <1>1, <1>2, AddrefIs DEF PointerInv, PointerTypeInv, AssignInv
<1>. QED
  BY <1>1, <1>4, <1>5, <1>6, GainStep, Zenon

\* The temporary of an assignment.
LEMMA AssignStep ==
  ASSUME PointerInv, CopyInv, NEW t \in PairOfThreads, PT!Assign(t)
  PROVE  PointerInv'
<1> DEFINE p == reading[t].value
           d == reading[t].slot
<1>0. PT!Copying(t) /\ CopyOf(t)
  BY CopyIs DEF PT!Assign
<1>1. /\ p \in Pointers /\ p # Unborn /\ d \in Slots /\ temp[t] = Unborn /\ UNCHANGED <<pointee, objLife>>
      /\ temp' = [temp EXCEPT ![t] = p] /\ target' = [target EXCEPT ![t] = d] /\ PT!addref(p)
      /\ ~ PT!Gone(p) /\ (p \in Objects => objLife[p] # "raw")
  BY <1>0 DEF CopyOf, PT!Assign
<1>. HIDE DEF p, d
<1>2. /\ temp' \in [PairOfThreads -> Pointers]
      /\ \A x \in Objects : Gains(x, One(p, x) - One(temp[t], x))
  BY <1>1, TempStep
<1>3. \A x \in Objects : p = x => objLife[x] = "live"
  BY <1>1, CopiedLives
<1>4. ASSUME NEW x \in Objects PROVE Gains(x, One(p, x))
  <2>1. One(temp[t], x) = 0 /\ One(p, x) \in {0, 1}
    BY <1>1, NoObject, OneIs
  <2>2. One(p, x) - One(temp[t], x) = One(p, x)
    BY <2>1
  <2>. QED
    BY <1>2, <2>2, Zenon
<1>5. \A x \in Objects : objLife'[x] = IF p = x THEN "live" ELSE objLife[x]
  BY <1>1, <1>3
<1>6. PointerTypeInv'
  BY <1>1, <1>2, AddrefIs DEF PointerInv, PointerTypeInv
<1>7. AssignInv'
  BY <1>1 DEF PointerInv, PointerTypeInv, AssignInv
<1>. QED
  BY <1>1, <1>4, <1>5, <1>6, <1>7, GainStep, Zenon

\* The destructors, of a temporary and of a variable.
LEMMA DestroyTempStep ==
  ASSUME PointerInv, NEW t \in PairOfThreads, PT!DestroyTemp(t)
  PROVE  PointerInv'
<1> DEFINE p == temp[t]
<1>1. /\ p \in Pointers /\ target[t] = Unborn /\ UNCHANGED <<pointee, target>>
      /\ temp' = [temp EXCEPT ![t] = Unborn] /\ PT!release(p)
  BY DEF PointerInv, PointerTypeInv, PT!DestroyTemp
<1>2. /\ temp' \in [PairOfThreads -> Pointers]
      /\ \A x \in Objects : Gains(x, One(Unborn, x) - One(p, x))
  BY <1>1, TempStep DEF Pointers
<1>3. p \in Objects => count[p] > 0
  BY PointedLives
<1>. HIDE DEF p
<1>4. ASSUME NEW x \in Objects PROVE Gains(x, - One(p, x))
  <2>1. One(Unborn, x) = 0 /\ One(p, x) \in {0, 1}
    BY NoObject, OneIs
  <2>2. One(Unborn, x) - One(p, x) = - One(p, x)
    BY <2>1
  <2>. QED
    BY <1>2, <2>2, Zenon
<1>5. AssignInv'
  BY <1>1 DEF PointerInv, PointerTypeInv, AssignInv
<1>6. pointee' \in [PairOfThreads -> [Slots -> Pointers]]
  BY <1>1 DEF PointerInv, PointerTypeInv
<1>. QED
  BY <1>1, <1>2, <1>3, <1>4, <1>5, <1>6, LoseStep, Zenon

LEMMA DestroyStep ==
  ASSUME PointerInv, NEW t \in PairOfThreads, NEW s \in Slots, PT!Destroy(t, s)
  PROVE  PointerInv'
<1> DEFINE p == pointee[t][s]
<1>1. /\ p \in Pointers /\ UNCHANGED <<temp, target>>
      /\ PT!Set(t, s, Unborn) /\ PT!release(p)
  BY DEF PointerInv, PointerTypeInv, PT!Destroy
<1>2. /\ pointee' \in [PairOfThreads -> [Slots -> Pointers]]
      /\ \A x \in Objects : Gains(x, One(Unborn, x) - One(p, x))
  BY <1>1, VarStep DEF Pointers
<1>3. p \in Objects => count[p] > 0
  BY PointedLives
<1>. HIDE DEF p
<1>4. ASSUME NEW x \in Objects PROVE Gains(x, - One(p, x))
  <2>1. One(Unborn, x) = 0 /\ One(p, x) \in {0, 1}
    BY NoObject, OneIs
  <2>2. One(Unborn, x) - One(p, x) = - One(p, x)
    BY <2>1
  <2>. QED
    BY <1>2, <2>2, Zenon
<1>5. AssignInv' /\ temp' \in [PairOfThreads -> Pointers]
  BY <1>1 DEF PointerInv, PointerTypeInv, AssignInv
<1>. QED
  BY <1>1, <1>2, <1>3, <1>4, <1>5, LoseStep, Zenon

\* Where p and q were pointed to, a and b are.
Balanced(a, p, b, q) ==
  \A x \in Objects : One(a, x) - One(p, x) + One(b, x) - One(q, x) = 0

\* Two variables of a thread change, and the number of pointers does not.
LEMMA TwoVarsStep ==
  ASSUME PointerInv, NEW t \in PairOfThreads, NEW d \in Slots, NEW s \in Slots,
         NEW a \in Pointers, NEW b \in Pointers, NEW g,
         g = [pointee EXCEPT ![t][d] = a], pointee' = [g EXCEPT ![t][s] = b],
         UNCHANGED <<temp, target, count, objLife>>,
         Balanced(a, pointee[t][d], b, g[t][s])
  PROVE  PointerInv'
<1>1. pointee \in [PairOfThreads -> [Slots -> Pointers]]
  BY DEF PointerInv, PointerTypeInv
<1>2. g \in [PairOfThreads -> [Slots -> Pointers]] /\ VarSet(pointee, g, t, d, a)
  BY <1>1, SetIs, Zenon
<1>4. pointee' \in [PairOfThreads -> [Slots -> Pointers]] /\ VarSet(g, pointee', t, s, b)
  BY <1>2, SetIs, Zenon
<1>5. PointerTypeInv' /\ AssignInv'
  <2>1. UNCHANGED <<temp, target, count, objLife>>
    OBVIOUS
  <2>. QED
    BY ONLY <1>4, <2>1, PointerInv DEF PointerInv, PointerTypeInv, AssignInv
<1>6. ASSUME NEW o \in Objects PROVE Gains(o, 0)
  <2> DEFINE p == pointee[t][d]
             q == g[t][s]
  <2>1. /\ IsFiniteSet(VarsTo(pointee, o)) /\ IsFiniteSet(TempsIn(temp, o))
        /\ Cardinality(VarsTo(pointee, o)) \in Nat /\ Cardinality(TempsIn(temp, o)) \in Nat
    BY PointedIs, Zenon
  <2>2. Grows(VarsTo(g, o), VarsTo(pointee, o), a, p, o)
    BY <1>2, <2>1, SetCount, Zenon
  <2>3. Grows(VarsTo(pointee', o), VarsTo(g, o), b, q, o)
    <3>1. IsFiniteSet(VarsTo(g, o))
      BY <2>2, Zenon DEF Grows
    <3>. QED
      BY <1>4, <3>1, SetCount, Zenon
  <2>4. One(a, o) - One(p, o) + One(b, o) - One(q, o) = 0
    BY Zenon DEF Balanced
  <2>. HIDE DEF p, q
  <2>6. One(a, o) \in Int /\ One(p, o) \in Int /\ One(b, o) \in Int /\ One(q, o) \in Int
    BY OneIs
  <2>7. Cardinality(VarsTo(pointee', o)) + Cardinality(TempsIn(temp, o))
          = Cardinality(VarsTo(pointee, o)) + Cardinality(TempsIn(temp, o)) + 0
    BY ONLY <2>1, <2>2, <2>3, <2>4, <2>6 DEF Grows
  <2>. QED
    BY <2>1, <2>3, <2>7, Zenon DEF Gains, Grows
<1>. QED
  BY <1>5, <1>6, KeepStep, Zenon

\* The moves.
LEMMA MoveStep ==
  ASSUME PointerInv, NEW t \in PairOfThreads, NEW d \in Slots, NEW s \in Slots,
         PT!MoveConstruct(t, d, s) \/ PT!MoveAssign(t, d, s)
  PROVE  PointerInv'
<1> DEFINE p == pointee[t][s]
           q == pointee[t][d]
           g == [pointee EXCEPT ![t][d] = p]
<1>1. p \in Pointers /\ q \in Pointers /\ Null \in Pointers
  BY DEF PointerInv, PointerTypeInv, Pointers
<1>2. UNCHANGED <<temp, target, count, objLife>>
  BY DEF PT!MoveConstruct, PT!MoveAssign
<1>3. g[t][s] = p
  BY DEF PointerInv, PointerTypeInv
<1>4. CASE PT!MoveConstruct(t, d, s)
  <2>1. pointee' = [g EXCEPT ![t][s] = Null] /\ q = Unborn
    BY <1>4 DEF PT!MoveConstruct, PT!AfterMove, PT!Free
  <2>2. Balanced(p, q, Null, g[t][s])
    <3> SUFFICES ASSUME NEW x \in Objects
                 PROVE  One(p, x) - One(q, x) + One(Null, x) - One(g[t][s], x) = 0
      BY Zenon DEF Balanced
    <3>1. One(q, x) = 0 /\ One(Null, x) = 0 /\ One(p, x) \in {0, 1}
      BY <2>1, NoObject, OneIs
    <3>. HIDE DEF p, q, g
    <3>. QED
      BY ONLY <1>3, <3>1
  <2>. QED
    BY <1>1, <1>2, <2>1, <2>2, TwoVarsStep, Zenon
<1>5. CASE PT!MoveAssign(t, d, s)
  <2>1. pointee' = [g EXCEPT ![t][s] = q]
    BY <1>5 DEF PT!MoveAssign
  <2>2. Balanced(p, q, q, g[t][s])
    <3> SUFFICES ASSUME NEW x \in Objects
                 PROVE  One(p, x) - One(q, x) + One(q, x) - One(g[t][s], x) = 0
      BY Zenon DEF Balanced
    <3>1. One(q, x) \in {0, 1} /\ One(p, x) \in {0, 1}
      BY OneIs
    <3>. HIDE DEF p, q, g
    <3>. QED
      BY ONLY <1>3, <3>1
  <2>. QED
    BY <1>1, <1>2, <2>1, <2>2, TwoVarsStep, Zenon
<1>. QED
  BY <1>4, <1>5

\* The swap of an assignment.
LEMMA SwapStep ==
  ASSUME PointerInv, NEW t \in PairOfThreads, PT!Swap(t)
  PROVE  PointerInv'
<1> DEFINE d == target[t]
           p == temp[t]
           q == pointee[t][d]
<1>1. /\ d \in Slots /\ p \in Pointers /\ q \in Pointers
      /\ pointee \in [PairOfThreads -> [Slots -> Pointers]]
      /\ temp \in [PairOfThreads -> Pointers]
  BY DEF PointerInv, PointerTypeInv, PT!Swap
<1>2. /\ pointee' = [pointee EXCEPT ![t][d] = p]
      /\ temp' = [temp EXCEPT ![t] = q]
      /\ target' = [target EXCEPT ![t] = Unborn]
      /\ UNCHANGED <<count, objLife>>
  BY DEF PT!Swap, PT!Set
<1>. HIDE DEF d
<1>3. /\ pointee' \in [PairOfThreads -> [Slots -> Pointers]] /\ VarSet(pointee, pointee', t, d, p)
      /\ temp' \in [PairOfThreads -> Pointers] /\ TempSet(temp, temp', t, q)
  BY <1>1, <1>2, SetIs, TempIs, Zenon
<1>4. PointerTypeInv'
  BY <1>1, <1>2, <1>3 DEF PointerInv, PointerTypeInv
<1>5. AssignInv'
  BY <1>1, <1>2 DEF PointerInv, PointerTypeInv, AssignInv
<1>6. ASSUME NEW o \in Objects PROVE Gains(o, 0)
  <2>1. /\ IsFiniteSet(VarsTo(pointee, o)) /\ IsFiniteSet(TempsIn(temp, o))
        /\ Cardinality(VarsTo(pointee, o)) \in Nat /\ Cardinality(TempsIn(temp, o)) \in Nat
    BY PointedIs, Zenon
  <2>2. Grows(VarsTo(pointee', o), VarsTo(pointee, o), p, q, o)
    BY <1>1, <1>3, <2>1, SetCount, Zenon
  <2>3. Grows(TempsIn(temp', o), TempsIn(temp, o), q, p, o)
    BY <1>3, <2>1, TempCount, Zenon
  <2>. HIDE DEF p, q
  <2>4. One(p, o) \in Int /\ One(q, o) \in Int
    BY OneIs
  <2>5. Cardinality(VarsTo(pointee', o)) + Cardinality(TempsIn(temp', o))
          = Cardinality(VarsTo(pointee, o)) + Cardinality(TempsIn(temp, o)) + 0
    BY <2>1, <2>2, <2>3, <2>4 DEF Grows
  <2>. QED
    BY <2>2, <2>3, <2>5, Zenon DEF Gains, Grows
<1>. QED
  BY <1>2, <1>4, <1>5, <1>6, KeepStep

\* The steps that change no pointer.
LEMMA ReadStep ==
  ASSUME PointerInv, UNCHANGED <<pointee, temp, target, count, objLife>>
  PROVE  PointerInv'
  BY ZenonT(30) DEF PointerInv, PointerTypeInv, FiniteInv, AssignInv, PT!Counted, PT!PointersTo, PT!TempsTo

\* A thread changes its own pointers only, and no object is unmade.
Own(t) ==
  /\ \A v \in PairOfThreads : v # t => reading'[v] = reading[v] /\ temp'[v] = temp[v] /\ pointee'[v] = pointee[v]
  /\ \A o \in Objects : objLife[o] # "raw" => objLife'[o] # "raw"

LEMMA OwnStep ==
  ASSUME PointerInv, CopyInv, NEW t \in PairOfThreads, PT!Step(t)
  PROVE  Own(t)
<1>0. /\ pointee \in [PairOfThreads -> [Slots -> Pointers]] /\ temp \in [PairOfThreads -> Pointers]
      /\ objLife \in [Objects -> {"raw", "live", "freed"}]
      /\ reading \in [PairOfThreads -> {PT!NoCopy} \cup [for : {"construct", "assign"}, slot : Slots,
                                                       rhs : PairOfThreads \X Slots, value : Pointers]]
  BY DEF PointerInv, PointerTypeInv, CopyInv
<1>1. CASE PT!Swap(t)
  BY <1>0, <1>1 DEF PT!Swap, PT!Set, Own
<1>2. CASE PT!DestroyTemp(t)
  BY <1>0, <1>2 DEF PT!DestroyTemp, PT!release, PT!removeReference, Own
<1>3. CASE PT!CopyConstruct(t)
  BY <1>0, <1>3 DEF PT!CopyConstruct, PT!Set, PT!ReadRhs, Own
<1>4. CASE PT!Assign(t)
  BY <1>0, <1>4 DEF PT!Assign, PT!ReadRhs, Own
<1>5. CASE PT!UseFreed(t)
  BY <1>0, <1>5 DEF PT!UseFreed, Own
<1>6. ASSUME NEW d \in Slots, PT!Destroy(t, d) PROVE Own(t)
  BY <1>0, <1>6 DEF PT!Destroy, PT!Set, PT!release, PT!removeReference, Own
<1>7. ASSUME NEW d \in Slots, NEW o \in Objects \cup {Null}, PT!Construct(t, d, o) PROVE Own(t)
  BY <1>0, <1>7 DEF PT!Construct, PT!Set, Own
<1>8. ASSUME NEW d \in Slots, NEW s \in Slots, PT!MoveConstruct(t, d, s) \/ PT!MoveAssign(t, d, s) PROVE Own(t)
  BY <1>0, <1>8 DEF PT!MoveConstruct, PT!MoveAssign, Own
<1>9. ASSUME NEW d \in Slots, NEW u \in PairOfThreads, NEW s \in Slots,
             PT!BeginCopyConstruct(t, d, u, s) \/ PT!BeginAssign(t, d, u, s)
      PROVE  Own(t)
  BY <1>0, <1>9 DEF PT!BeginCopyConstruct, PT!BeginAssign, PT!ReadRhs, Own
<1>. QED
  BY <1>1, <1>2, <1>3, <1>4, <1>5, <1>6, <1>7, <1>8, <1>9 DEF PT!Step

\* The copy a thread is making, after a step of it.
LEMMA OwnCopy ==
  ASSUME PointerInv, CopyInv, NEW t \in PairOfThreads, PT!Step(t), raced => raced'
  PROVE  /\ reading'[t] \in {PT!NoCopy} \cup [for : {"construct", "assign"}, slot : Slots,
                                            rhs : PairOfThreads \X Slots, value : Pointers]
         /\ PT!Copying(t)' => CopyOf(t)'
         /\ usedFreed' => usedFreed \/ raced'
<1>0. /\ pointee \in [PairOfThreads -> [Slots -> Pointers]] /\ temp \in [PairOfThreads -> Pointers]
      /\ objLife \in [Objects -> {"raw", "live", "freed"}]
      /\ reading \in [PairOfThreads -> {PT!NoCopy} \cup [for : {"construct", "assign"}, slot : Slots,
                                                       rhs : PairOfThreads \X Slots, value : Pointers]]
  BY DEF PointerInv, PointerTypeInv, CopyInv
<1>1. CASE PT!UseFreed(t)
  <2>1. /\ PT!Copying(t) /\ CopyOf(t) /\ PT!Gone(reading[t].value)
        /\ UNCHANGED <<pointee, temp, reading, objLife>>
    BY <1>1 DEF PT!UseFreed, CopyInv
  <2>2. raced
    <3>1. SUFFICES ASSUME ~ raced PROVE FALSE
      OBVIOUS
    <3>2. PICK u \in PairOfThreads, s \in Slots : reading[t].rhs = <<u, s>>
      BY <2>1 DEF CopyOf
    <3>3. reading[t].value \in Objects /\ pointee[u][s] = reading[t].value
      BY <2>1, <3>1, <3>2 DEF CopyOf, PT!Gone
    <3>4. objLife[reading[t].value] = "live"
      BY <3>3, PointedLives
    <3>. QED
      BY <2>1, <3>4 DEF PT!Gone
  <2>3. CopyOf(t)'
    BY <2>1, <2>2 DEF CopyOf
  <2>. QED
    BY <1>0, <2>1, <2>2, <2>3
<1>2. CASE PT!CopyConstruct(t) \/ PT!Assign(t)
  <2>1. reading'[t] = PT!NoCopy /\ usedFreed' = usedFreed
    BY <1>0, <1>2 DEF PT!CopyConstruct, PT!Assign, PT!ReadRhs
  <2>. QED
    BY <2>1 DEF PT!Copying
<1>3. ASSUME NEW d \in Slots, NEW u \in PairOfThreads, NEW s \in Slots,
             PT!BeginCopyConstruct(t, d, u, s) \/ PT!BeginAssign(t, d, u, s)
      PROVE  /\ reading'[t] \in [for : {"construct", "assign"}, slot : Slots,
                                rhs : PairOfThreads \X Slots, value : Pointers]
             /\ CopyOf(t)' /\ usedFreed' = usedFreed
  <2> DEFINE p == pointee[u][s]
  <2>1. /\ p \in Pointers \ {Unborn} /\ temp[t] = Unborn /\ UNCHANGED <<pointee, temp, objLife, usedFreed>>
        /\ reading'[t].slot = d /\ reading'[t].value = p /\ reading'[t].rhs = <<u, s>>
        /\ reading'[t].for \in {"construct", "assign"}
        /\ reading'[t].for = "construct" => pointee[t][d] = Unborn
        /\ reading'[t] \in [for : {"construct", "assign"}, slot : Slots,
                            rhs : PairOfThreads \X Slots, value : Pointers]
    BY <1>0, <1>3 DEF PT!BeginCopyConstruct, PT!BeginAssign, PT!ReadRhs, PT!Free, PT!Idle, PT!Alive
  <2>2. p \in Objects => objLife[p] # "raw"
    BY PointedLives
  <2>3. <<u, s>> \in PairOfThreads \X Slots /\ <<u, s>>[1] = u /\ <<u, s>>[2] = s
    OBVIOUS
  <2>. QED
    BY <2>1, <2>2, <2>3 DEF CopyOf
<1>4. ASSUME ~ PT!Copying(t), UNCHANGED <<reading, usedFreed>> PROVE ~ PT!Copying(t)' /\ reading'[t] = PT!NoCopy
  BY <1>4 DEF PT!Copying
<1>5. CASE PT!Swap(t) \/ PT!DestroyTemp(t)
  <2>1. temp[t] # Unborn /\ UNCHANGED <<reading, usedFreed>>
    BY <1>5 DEF PT!Swap, PT!DestroyTemp, PointerInv, AssignInv
  <2>2. ~ PT!Copying(t)
    BY <2>1 DEF CopyInv, CopyOf
  <2>. QED
    BY <1>4, <2>1, <2>2
<1>6. ASSUME NEW d \in Slots,
             \/ PT!Destroy(t, d)
             \/ \E o \in Objects \cup {Null} : PT!Construct(t, d, o)
             \/ \E s \in Slots : PT!MoveConstruct(t, d, s) \/ PT!MoveAssign(t, d, s)
      PROVE  ~ PT!Copying(t) /\ UNCHANGED <<reading, usedFreed>>
  BY <1>6 DEF PT!Destroy, PT!Construct, PT!MoveConstruct, PT!MoveAssign, PT!Free, PT!Idle
<1>. QED
  BY <1>1, <1>2, <1>3, <1>4, <1>5, <1>6 DEF PT!Step

\* The copies of the others are noted to be raced if their pointer changes.
LEMMA CopyStep ==
  ASSUME PointerInv, CopyInv, PT!Next
  PROVE  CopyInv'
<1>1. PICK t \in PairOfThreads : PT!Step(t)
  BY DEF PT!Next
<1>2. /\ raced => raced'
      /\ \A v \in PairOfThreads : PT!Copying(v) /\ PT!Copying(v)' /\ ~ raced' =>
            pointee'[reading[v].rhs[1]][reading[v].rhs[2]] = pointee[reading[v].rhs[1]][reading[v].rhs[2]]
  BY DEF PT!Next, PT!At
<1>3. Own(t)
  BY <1>1, OwnStep
<1>4. /\ reading'[t] \in {PT!NoCopy} \cup [for : {"construct", "assign"}, slot : Slots,
                                         rhs : PairOfThreads \X Slots, value : Pointers]
      /\ PT!Copying(t)' => CopyOf(t)'
      /\ usedFreed' => usedFreed \/ raced'
  BY <1>1, <1>2, OwnCopy
<1>5. ASSUME NEW v \in PairOfThreads, v # t, PT!Copying(v)' PROVE CopyOf(v)'
  <2>1. reading'[v] = reading[v] /\ temp'[v] = temp[v] /\ pointee'[v] = pointee[v]
    BY <1>3, <1>5 DEF Own
  <2>2. PT!Copying(v) /\ CopyOf(v)
    BY <1>5, <2>1 DEF PT!Copying, CopyInv
  <2>3. reading[v].value \in Objects => objLife'[reading[v].value] # "raw"
    BY <1>3, <2>2 DEF Own, CopyOf
  <2>4. ~ raced' => pointee'[reading[v].rhs[1]][reading[v].rhs[2]] = reading[v].value
    BY <1>2, <1>5, <2>2 DEF CopyOf
  <2>. QED
    BY <2>1, <2>2, <2>3, <2>4 DEF CopyOf
<1>6. DOMAIN reading' = PairOfThreads /\ reading' = [v \in PairOfThreads |-> reading'[v]]
  BY <1>1 DEF CopyInv, PT!Step, PT!Swap, PT!DestroyTemp, PT!CopyConstruct, PT!Assign, PT!UseFreed, PT!Destroy,
       PT!Construct, PT!MoveConstruct, PT!MoveAssign, PT!BeginCopyConstruct, PT!BeginAssign, PT!ReadRhs
<1>7. reading' \in [PairOfThreads -> {PT!NoCopy} \cup [for : {"construct", "assign"}, slot : Slots,
                                                     rhs : PairOfThreads \X Slots, value : Pointers]]
  <2>1. \A v \in PairOfThreads : reading'[v] \in {PT!NoCopy} \cup [for : {"construct", "assign"}, slot : Slots,
                                                                 rhs : PairOfThreads \X Slots, value : Pointers]
    BY <1>3, <1>4 DEF Own, CopyInv
  <2>. QED
    BY <1>6, <2>1
<1>. QED
  BY <1>2, <1>4, <1>5, <1>7 DEF CopyInv

\* SharedObjectPtr: for any number of threads, variables and objects, in the
\* middle of any copies and assignments, the count of an object is the number of
\* pointers to it, and it is alive exactly as long as there is one; a copy meets
\* a freed object only if its source changed between the read and the addref.
THEOREM CountsArePointers ==
  PT!Spec => []CountsPointers
<1>1. PT!Init => PointerInv /\ CopyInv
  <2> SUFFICES ASSUME PT!Init PROVE PointerInv /\ CopyInv
    OBVIOUS
  <2>1. PointerTypeInv /\ AssignInv
    BY DEF PT!Init, PointerTypeInv, AssignInv, Pointers
  <2>2. ASSUME NEW o \in Objects
        PROVE  /\ PT!PointersTo(o) = {} /\ PT!TempsTo(o) = {}
               /\ count[o] = 0 /\ objLife[o] = "raw"
    <3>1. \A t \in PairOfThreads, s \in Slots : pointee[t][s] = Unborn
      BY DEF PT!Init
    <3>2. Unborn # o
      BY PointerAssumption
    <3>. QED
      BY <3>1, <3>2 DEF PT!Init, PT!PointersTo, PT!TempsTo
  <2>3. FiniteInv
    BY <2>2, FS_EmptySet DEF FiniteInv
  <2>4. \A o \in Objects : count[o] = 0 + 0 /\ ~ (count[o] > 0) /\ objLife[o] # "live"
    BY <2>2
  <2>5. PT!Counted
    BY <2>2, <2>4, FS_EmptySet, PointerCardinality, Zenon DEF PT!Counted
  <2>6. CopyInv
    BY DEF PT!Init, CopyInv, PT!Copying
  <2>. QED
    BY <2>1, <2>3, <2>5, <2>6, Zenon DEF PointerInv
<1>2. PointerInv /\ CopyInv /\ [PT!Next]_(PT!vars) => PointerInv' /\ CopyInv'
  <2> SUFFICES ASSUME PointerInv, CopyInv, [PT!Next]_(PT!vars) PROVE PointerInv' /\ CopyInv'
    OBVIOUS
  <2>1. CASE UNCHANGED PT!vars
    <3>1. UNCHANGED <<pointee, temp, target, reading, count, objLife, raced, usedFreed>>
      BY <2>1 DEF PT!vars
    <3>2. CopyInv'
      BY <3>1 DEF CopyInv, CopyOf, PT!Copying
    <3>. QED
      BY <3>1, <3>2, ReadStep
  <2>2. ASSUME NEW t \in PairOfThreads, PT!Step(t) PROVE PointerInv'
    <3>1. CASE \/ PT!UseFreed(t)
               \/ \E d \in Slots, u \in PairOfThreads, s \in Slots :
                    PT!BeginCopyConstruct(t, d, u, s) \/ PT!BeginAssign(t, d, u, s)
      BY <3>1, ReadStep DEF PT!UseFreed, PT!BeginCopyConstruct, PT!BeginAssign
    <3>. QED
      BY <2>2, <3>1, SwapStep, DestroyTempStep, DestroyStep, ConstructStep, MoveStep, CopyConstructStep,
         AssignStep, Zenon DEF PT!Step
  <2>3. CASE PT!Next
    BY <2>2, <2>3, CopyStep DEF PT!Next
  <2>. QED
    BY <2>1, <2>3
<1>3. PointerInv /\ CopyInv => CountsPointers
  BY DEF PointerInv, CopyInv, CountsPointers, PT!CountsPointers
<1>. QED
  BY <1>1, <1>2, <1>3, PTL DEF PT!Spec

-----------------------------------------------------------------------------
(* Mutex, Semaphore, FairMutex and SyncGuard.                              *)

Prims == [owner : PairOfThreads \cup {NoThread}, depth : Int, count : Int, max : Int, recursive : BOOLEAN]

GuardTypeInv ==
  /\ backend \in {"pthreads", "win32", "single"} /\ kind \in SY!Kinds
  /\ life \in {"new", "live", "dead"}
  /\ prim \in Prims
  /\ sp \in [PairOfThreads -> [SY!Guards -> BOOLEAN]]
  /\ held \in [PairOfThreads -> Int]
  /\ unlockThrew \in BOOLEAN

\* The guards that are attached, of one thread and of all.
GuardsOf(f, t) == {g \in SY!Guards : f[t][g]}
AllGuards(f) == {z \in PairOfThreads \X SY!Guards : f[z[1]][z[2]]}

\* The primitives that count, and what they count down from.
Counted == kind.class = "Semaphore" \/ (kind.class = "FairMutex" /\ backend = "pthreads")
Limit == IF kind.class = "Semaphore" THEN (IF kind.max < kind.initial THEN kind.max ELSE kind.initial) ELSE 1

\* A thread has taken as many locks as it has guards attached.
HeldInv == \A t \in PairOfThreads : IsFiniteSet(GuardsOf(sp, t)) /\ held[t] = Cardinality(GuardsOf(sp, t))

\* Guards are attached only to a primitive that exists.
LiveInv == life # "live" => \A t \in PairOfThreads, g \in SY!Guards : ~ sp[t][g]

\* A win32 semaphore enforces the maximum it was made with.
MaxInv == life = "live" /\ kind.class = "Semaphore" => prim.max = kind.max

PrimCountInv == life = "live" /\ Counted => prim.count + Cardinality(AllGuards(sp)) = Limit

PrimOwnerInv ==
  life = "live" /\ ~ Counted => \A t \in PairOfThreads : held[t] = IF prim.owner = t THEN prim.depth ELSE 0

GuardInv ==
  /\ GuardTypeInv
  /\ backend # "single" =>
       /\ IsFiniteSet(AllGuards(sp)) /\ HeldInv /\ LiveInv /\ MaxInv /\ PrimCountInv /\ PrimOwnerInv
       /\ unlockThrew = FALSE

LEMMA GuardCardinality ==
  ASSUME NEW S PROVE SY!Cardinality(S) = Cardinality(S)
  BY DEF SY!Cardinality, Cardinality

LEMMA SemaphoreKind ==
  ASSUME kind \in SY!Kinds, kind.class = "Semaphore"
  PROVE  kind.max \in 0 .. 2 /\ kind.initial \in 0 .. 2
  BY DEF SY!Kinds

LEMMA KindClass ==
  ASSUME kind \in SY!Kinds
  PROVE  kind.class \in {"Mutex", "Semaphore", "FairMutex"}
  BY DEF SY!Kinds

LEMMA LimitIs ==
  ASSUME GuardTypeInv
  PROVE  /\ Limit = IF kind.class = "Semaphore" /\ kind.max < SY!Permits THEN kind.max ELSE SY!Permits
         /\ Limit \in Nat
         /\ kind.class = "Semaphore" => Limit <= kind.max /\ kind.max \in Nat
<1>1. CASE kind.class = "Semaphore"
  BY <1>1, SemaphoreKind DEF GuardTypeInv, Limit, SY!Permits
<1>2. CASE kind.class # "Semaphore"
  BY <1>2 DEF Limit, SY!Permits
<1>. QED
  BY <1>1, <1>2, Zenon

\* The invariant says what GuardsBalance does.
LEMMA GuardsBalanceIs ==
  ASSUME GuardInv PROVE GuardsBalance
<1> SUFFICES ASSUME backend # "single", life = "live"
             PROVE  /\ \A t \in PairOfThreads : held[t] = SY!Cardinality(SY!Attached(t))
                    /\ IF kind.class = "Semaphore" \/ (kind.class = "FairMutex" /\ backend = "pthreads")
                       THEN prim.count + SY!Cardinality(SY!AllAttached)
                              = (IF kind.class = "Semaphore" /\ kind.max < SY!Permits THEN kind.max ELSE SY!Permits)
                       ELSE \A t \in PairOfThreads : held[t] = IF prim.owner = t THEN prim.depth ELSE 0
                    /\ ~ unlockThrew
  BY Zenon DEF GuardsBalance, SY!GuardsBalance
<1>1. AllGuards(sp) = SY!AllAttached /\ \A t \in PairOfThreads : GuardsOf(sp, t) = SY!Attached(t)
  BY Zenon DEF AllGuards, GuardsOf, SY!AllAttached, SY!Attached
<1>2. GuardTypeInv /\ HeldInv /\ PrimCountInv /\ PrimOwnerInv /\ unlockThrew = FALSE
  BY Zenon DEF GuardInv
<1>3. \A t \in PairOfThreads : held[t] = SY!Cardinality(SY!Attached(t))
  BY <1>1, <1>2, GuardCardinality, Zenon DEF HeldInv
<1>4. CASE Counted
  <2>1. prim.count + SY!Cardinality(SY!AllAttached) = Limit
    BY <1>1, <1>2, <1>4, GuardCardinality, Zenon DEF PrimCountInv
  <2>. QED
    BY <1>2, <1>3, <1>4, <2>1, LimitIs, Zenon DEF Counted
<1>5. CASE ~ Counted
  BY <1>2, <1>3, <1>5, Zenon DEF Counted, PrimOwnerInv
<1>. QED
  BY <1>4, <1>5, Zenon

\* h is f with a guard attached, or let go.
Attaches(f, h, t, g) ==
  \A u \in PairOfThreads, x \in SY!Guards : h[u][x] <=> (f[u][x] \/ (u = t /\ x = g))
Detaches(f, h, t, g) ==
  \A u \in PairOfThreads, x \in SY!Guards : h[u][x] <=> (f[u][x] /\ ~ (u = t /\ x = g))

LEMMA AttachIs ==
  ASSUME NEW f \in [PairOfThreads -> [SY!Guards -> BOOLEAN]],
         NEW t \in PairOfThreads, NEW g \in SY!Guards, NEW b \in BOOLEAN,
         NEW h, h = [f EXCEPT ![t][g] = b]
  PROVE  /\ h \in [PairOfThreads -> [SY!Guards -> BOOLEAN]]
         /\ b = TRUE => Attaches(f, h, t, g)
         /\ b = FALSE => Detaches(f, h, t, g)
<1>1. \A u \in PairOfThreads, x \in SY!Guards : h[u][x] = IF u = t /\ x = g THEN b ELSE f[u][x]
  OBVIOUS
<1>2. h \in [PairOfThreads -> [SY!Guards -> BOOLEAN]]
  OBVIOUS
<1>3. b = TRUE => Attaches(f, h, t, g)
  BY <1>1, Zenon DEF Attaches
<1>4. b = FALSE => Detaches(f, h, t, g)
  BY <1>1, Zenon DEF Detaches
<1>. QED
  BY <1>2, <1>3, <1>4, Zenon

\* What that does to the sets of guards.
GuardsGrow(f, h, t, g) ==
  /\ AllGuards(h) = AllGuards(f) \cup {<<t, g>>}
  /\ GuardsOf(h, t) = GuardsOf(f, t) \cup {g}
  /\ \A u \in PairOfThreads : u # t => GuardsOf(h, u) = GuardsOf(f, u)
GuardsShrink(f, h, t, g) ==
  /\ AllGuards(h) = AllGuards(f) \ {<<t, g>>}
  /\ GuardsOf(h, t) = GuardsOf(f, t) \ {g}
  /\ \A u \in PairOfThreads : u # t => GuardsOf(h, u) = GuardsOf(f, u)

LEMMA AttachedSets ==
  ASSUME NEW f, NEW h, NEW t \in PairOfThreads, NEW g \in SY!Guards, Attaches(f, h, t, g)
  PROVE  GuardsGrow(f, h, t, g)
<1>1. GuardsOf(h, t) = GuardsOf(f, t) \cup {g}
  BY Zenon DEF GuardsOf, Attaches
<1>2. \A u \in PairOfThreads : u # t => GuardsOf(h, u) = GuardsOf(f, u)
  BY Zenon DEF GuardsOf, Attaches
<1>3. \A z \in PairOfThreads \X SY!Guards : h[z[1]][z[2]] <=> (f[z[1]][z[2]] \/ z = <<t, g>>)
  BY SMT DEF Attaches
<1>4. <<t, g>> \in PairOfThreads \X SY!Guards
  OBVIOUS
<1>5. AllGuards(h) = AllGuards(f) \cup {<<t, g>>}
  BY <1>3, <1>4, Zenon DEF AllGuards
<1>. QED
  BY <1>1, <1>2, <1>5 DEF GuardsGrow

LEMMA DetachedSets ==
  ASSUME NEW f, NEW h, NEW t \in PairOfThreads, NEW g \in SY!Guards, Detaches(f, h, t, g)
  PROVE  GuardsShrink(f, h, t, g)
<1>1. GuardsOf(h, t) = GuardsOf(f, t) \ {g}
  BY Zenon DEF GuardsOf, Detaches
<1>2. \A u \in PairOfThreads : u # t => GuardsOf(h, u) = GuardsOf(f, u)
  BY Zenon DEF GuardsOf, Detaches
<1>3. \A z \in PairOfThreads \X SY!Guards : h[z[1]][z[2]] <=> (f[z[1]][z[2]] /\ z # <<t, g>>)
  BY SMT DEF Detaches
<1>5. AllGuards(h) = AllGuards(f) \ {<<t, g>>}
  BY <1>3, Zenon DEF AllGuards
<1>. QED
  BY <1>1, <1>2, <1>5 DEF GuardsShrink

LEMMA GuardIn ==
  ASSUME NEW f, NEW t \in PairOfThreads, NEW g \in SY!Guards
  PROVE  /\ g \in GuardsOf(f, t) <=> f[t][g]
         /\ <<t, g>> \in AllGuards(f) <=> f[t][g]
<1>1. <<t, g>> \in PairOfThreads \X SY!Guards /\ <<t, g>>[1] = t /\ <<t, g>>[2] = g
  OBVIOUS
<1>. QED
  BY <1>1, Zenon DEF GuardsOf, AllGuards

LEMMA NotGuardIn ==
  ASSUME NEW f, NEW t \in PairOfThreads, NEW g \in SY!Guards, ~ f[t][g]
  PROVE  g \notin GuardsOf(f, t) /\ <<t, g>> \notin AllGuards(f)
<1>1. <<t, g>>[1] = t /\ <<t, g>>[2] = g
  OBVIOUS
<1>2. g \notin GuardsOf(f, t)
  BY Zenon DEF GuardsOf
<1>3. <<t, g>> \notin AllGuards(f)
  BY <1>1, Zenon DEF AllGuards
<1>. QED
  BY <1>2, <1>3, Zenon

\* What a call that returns has done to the primitive.
TakesCount(p, z) == p.count > 0 /\ z.count = p.count - 1 /\ z.max = p.max
GivesCount(p, z) == z.count = p.count + 1 /\ z.max = p.max
TakesOwner(p, z, t) == \/ p.owner = NoThread /\ z.owner = t /\ z.depth = 1
                       \/ p.owner = t /\ z.owner = t /\ z.depth = p.depth + 1
GivesOwner(p, z, t) == z.depth = p.depth - 1 /\ z.owner = IF p.depth = 1 THEN NoThread ELSE t

Takes(p, z, t) == (Counted => TakesCount(p, z)) /\ (~ Counted => TakesOwner(p, z, t))
Gives(p, z, t) == (Counted => GivesCount(p, z)) /\ (~ Counted => GivesOwner(p, z, t))

LEMMA AcquireIs ==
  ASSUME NEW p \in Prims, NEW t \in PairOfThreads, NEW o \in SY!Acquire(p, t)
  PROVE  o.threw = FALSE /\ o.prim \in Prims /\ TakesOwner(p, o.prim, t)
<1>1. CASE p.owner = NoThread
  <2>1. o = SY!Returns([p EXCEPT !.owner = t, !.depth = 1])
    BY <1>1, GuardAssumption, Zenon DEF SY!Acquire
  <2>2. o.threw = FALSE /\ o.prim = [p EXCEPT !.owner = t, !.depth = 1]
    BY <2>1 DEF SY!Returns
  <2>3. t \in PairOfThreads \cup {NoThread} /\ 1 \in Int
    OBVIOUS
  <2>4. o.prim \in Prims /\ o.prim.owner = t /\ o.prim.depth = 1
    <3> DEFINE z == o.prim
    <3>1. z = [p EXCEPT !.owner = t, !.depth = 1]
      BY <2>2, Zenon
    <3>. HIDE DEF z
    <3>2. z \in Prims /\ z.owner = t /\ z.depth = 1
      BY <2>3, <3>1 DEF Prims
    <3>. QED
      BY <3>2, Zenon DEF z
  <2>. QED
    BY <1>1, <2>2, <2>4, Zenon DEF TakesOwner
<1>2. CASE p.owner # NoThread
  <2>1. p.owner = t /\ o = SY!Returns([p EXCEPT !.depth = @ + 1])
    BY <1>2, Zenon DEF SY!Acquire
  <2>2. o.threw = FALSE /\ o.prim = [p EXCEPT !.depth = p.depth + 1]
    BY <2>1 DEF SY!Returns
  <2>. QED
    BY <2>1, <2>2 DEF Prims, TakesOwner
<1>. QED
  BY <1>1, <1>2, Zenon

LEMMA ReleaseOwnerIs ==
  ASSUME NEW p \in Prims, NEW t \in PairOfThreads, p.owner = t, NEW o \in SY!Release(p, t)
  PROVE  o.threw = FALSE /\ o.prim \in Prims /\ GivesOwner(p, o.prim, t)
<1>1. o = SY!Returns([p EXCEPT !.depth = @ - 1, !.owner = IF p.depth = 1 THEN NoThread ELSE t])
  BY Zenon DEF SY!Release
<1>2. o.threw = FALSE /\ o.prim = [p EXCEPT !.depth = p.depth - 1, !.owner = IF p.depth = 1 THEN NoThread ELSE t]
  BY <1>1 DEF SY!Returns
<1> DEFINE a == IF p.depth = 1 THEN NoThread ELSE t
           n == p.depth - 1
<1>3. a \in PairOfThreads \cup {NoThread} /\ n \in Int
  BY DEF Prims
<1>4. o.prim = [p EXCEPT !.depth = n, !.owner = a]
  BY <1>2, Zenon
<1>5. o.prim.depth = n /\ o.prim.owner = a /\ o.prim \in Prims
  <2> DEFINE z == o.prim
  <2>1. z = [p EXCEPT !.depth = n, !.owner = a]
    BY <1>4, Zenon
  <2>. HIDE DEF a, n, z
  <2>2. z \in Prims /\ z.owner = a /\ z.depth = n
    BY <1>3, <2>1 DEF Prims
  <2>. QED
    BY <2>2, Zenon DEF z
<1>. QED
  BY <1>2, <1>5, Zenon DEF GivesOwner

\* A semaphore's lock and unlock, on either system.
LEMMA DownIs ==
  ASSUME NEW p \in Prims, NEW o,
         o \in {SY!Throws(p)} \cup (IF p.count > 0 THEN {SY!Returns([p EXCEPT !.count = @ - 1])} ELSE {})
  PROVE  \/ o.threw = TRUE /\ o.prim = p
         \/ o.threw = FALSE /\ o.prim \in Prims /\ TakesCount(p, o.prim)
<1>1. CASE o = SY!Throws(p)
  BY <1>1 DEF SY!Throws
<1>2. CASE o # SY!Throws(p)
  <2>1. p.count > 0 /\ o = SY!Returns([p EXCEPT !.count = @ - 1])
    BY <1>2, Zenon
  <2>2. o.threw = FALSE /\ o.prim = [p EXCEPT !.count = p.count - 1]
    BY <2>1 DEF SY!Returns
  <2>. QED
    BY <2>1, <2>2 DEF Prims, TakesCount
<1>. QED
  BY <1>1, <1>2, Zenon

LEMMA UpIs ==
  ASSUME NEW p \in Prims, NEW o, o = SY!Returns([p EXCEPT !.count = @ + 1])
  PROVE  o.threw = FALSE /\ o.prim \in Prims /\ GivesCount(p, o.prim)
<1>1. o.threw = FALSE /\ o.prim = [p EXCEPT !.count = p.count + 1]
  BY DEF SY!Returns
<1>. QED
  BY <1>1 DEF Prims, GivesCount

\* lock() throws and changes nothing, or takes the primitive.
LEMMA LockIs ==
  ASSUME GuardTypeInv, backend # "single", NEW t \in PairOfThreads, NEW o \in SY!Lock(t)
  PROVE  \/ o.threw = TRUE /\ o.prim = prim
         \/ o.threw = FALSE /\ o.prim \in Prims /\ Takes(prim, o.prim, t)
<1>0. /\ prim \in Prims /\ kind.class \in {"Mutex", "Semaphore", "FairMutex"}
      /\ backend \in {"pthreads", "win32"}
  BY KindClass DEF GuardTypeInv
<1>1. CASE kind.class = "Mutex"
  <2>1. o \in {SY!Throws(prim)} \cup SY!Acquire(prim, t)
    <3>1. CASE backend = "pthreads"
      BY <1>1, <3>1 DEF SY!Lock, SY!Mutex_lock, SY!Threaded, SY!MutexLock_pthreads
    <3>2. CASE backend = "win32"
      BY <1>1, <3>2 DEF SY!Lock, SY!Mutex_lock, SY!Threaded, SY!MutexLock_win32
    <3>. QED
      BY <1>0, <3>1, <3>2, Zenon
  <2>2. ~ Counted
    BY <1>1 DEF Counted
  <2>3. CASE o = SY!Throws(prim)
    BY <2>3 DEF SY!Throws
  <2>4. CASE o \in SY!Acquire(prim, t)
    BY <1>0, <2>2, <2>4, AcquireIs, Zenon DEF Takes
  <2>. QED
    BY <2>1, <2>3, <2>4, Zenon
<1>2. CASE kind.class = "Semaphore" \/ (kind.class = "FairMutex" /\ backend = "pthreads")
  <2>1. o \in {SY!Throws(prim)} \cup (IF prim.count > 0 THEN {SY!Returns([prim EXCEPT !.count = @ - 1])} ELSE {})
    <3>1. CASE kind.class = "Semaphore" /\ backend = "pthreads"
      BY <3>1, Zenon DEF SY!Lock, SY!Semaphore_lock, SY!Threaded, SY!SemaphoreLock_pthreads
    <3>2. CASE kind.class = "Semaphore" /\ backend = "win32"
      BY <3>2, Zenon DEF SY!Lock, SY!Semaphore_lock, SY!Threaded, SY!SemaphoreLock_win32
    <3>3. CASE kind.class = "FairMutex" /\ backend = "pthreads"
      BY <3>3, Zenon DEF SY!Lock, SY!FairMutex_lock, SY!Threaded, SY!FairMutexLock_pthreads, SY!SemaphoreLock_pthreads
    <3>. QED
      BY <1>0, <1>2, <3>1, <3>2, <3>3, Zenon
  <2>2. Counted
    BY <1>2, Zenon DEF Counted
  <2>. QED
    BY <1>0, <2>1, <2>2, DownIs, Zenon DEF Takes
<1>3. CASE kind.class = "FairMutex" /\ backend = "win32"
  <2>1. o \in {SY!Throws(prim)} \cup SY!Acquire(prim, t)
    BY <1>3, Zenon DEF SY!Lock, SY!FairMutex_lock, SY!Threaded, SY!FairMutexLock_win32
  <2>2. ~ Counted
    BY <1>3 DEF Counted
  <2>3. CASE o = SY!Throws(prim)
    BY <2>3 DEF SY!Throws
  <2>4. CASE o \in SY!Acquire(prim, t)
    BY <1>0, <2>2, <2>4, AcquireIs, Zenon DEF Takes
  <2>. QED
    BY <2>1, <2>3, <2>4, Zenon
<1>. QED
  BY <1>0, <1>1, <1>2, <1>3, Zenon

\* unlock() gives it back, by the owner and below the maximum.
LEMMA UnlockIs ==
  ASSUME GuardTypeInv, backend # "single", NEW t \in PairOfThreads, NEW o \in SY!Unlock(t),
         kind.class = "Semaphore" => prim.count < prim.max, ~ Counted => prim.owner = t
  PROVE  o.threw = FALSE /\ o.prim \in Prims /\ Gives(prim, o.prim, t)
<1>0. /\ prim \in Prims /\ kind.class \in {"Mutex", "Semaphore", "FairMutex"}
      /\ backend \in {"pthreads", "win32"}
  BY KindClass DEF GuardTypeInv
<1>1. CASE kind.class = "Semaphore" \/ (kind.class = "FairMutex" /\ backend = "pthreads")
  <2>1. o = SY!Returns([prim EXCEPT !.count = @ + 1])
    <3>1. CASE kind.class = "Semaphore" /\ backend = "pthreads"
      BY <3>1, Zenon DEF SY!Unlock, SY!Semaphore_unlock, SY!Threaded, SY!SemaphoreUnlock_pthreads
    <3>2. CASE kind.class = "Semaphore" /\ backend = "win32"
      BY <3>2, Zenon DEF SY!Unlock, SY!Semaphore_unlock, SY!Threaded, SY!SemaphoreUnlock_win32
    <3>3. CASE kind.class = "FairMutex" /\ backend = "pthreads"
      BY <3>3, Zenon DEF SY!Unlock, SY!FairMutex_unlock, SY!Threaded, SY!FairMutexUnlock_pthreads, SY!SemaphoreUnlock_pthreads
    <3>. QED
      BY <1>0, <1>1, <3>1, <3>2, <3>3, Zenon
  <2>2. Counted
    BY <1>1, Zenon DEF Counted
  <2>. QED
    BY <1>0, <2>1, <2>2, UpIs, Zenon DEF Gives
<1>2. CASE kind.class = "Mutex" \/ (kind.class = "FairMutex" /\ backend = "win32")
  <2>1. o \in SY!Release(prim, t)
    <3>1. CASE kind.class = "Mutex" /\ backend = "pthreads"
      BY <3>1, Zenon DEF SY!Unlock, SY!Mutex_unlock, SY!Threaded, SY!MutexUnlock_pthreads
    <3>2. CASE kind.class = "Mutex" /\ backend = "win32"
      BY <3>2, Zenon DEF SY!Unlock, SY!Mutex_unlock, SY!Threaded, SY!MutexUnlock_win32
    <3>3. CASE kind.class = "FairMutex" /\ backend = "win32"
      BY <3>3, Zenon DEF SY!Unlock, SY!FairMutex_unlock, SY!Threaded, SY!FairMutexUnlock_win32
    <3>. QED
      BY <1>0, <1>2, <3>1, <3>2, <3>3, Zenon
  <2>2. ~ Counted
    BY <1>2 DEF Counted
  <2>. QED
    BY <1>0, <2>1, <2>2, ReleaseOwnerIs, Zenon DEF Gives
<1>. QED
  BY <1>0, <1>1, <1>2, Zenon

\* A constructor throws, or makes a primitive that nobody holds.
Fresh(z) ==
  /\ Counted => z.count = Limit /\ (kind.class = "Semaphore" => z.max = kind.max)
  /\ ~ Counted => z.owner = NoThread

LEMMA LockableIs ==
  ASSUME NEW b \in BOOLEAN
  PROVE  SY!Lockable(b) \in Prims /\ SY!Lockable(b).owner = NoThread /\ SY!NoPrim \in Prims
<1>1. SY!NoPrim \in Prims /\ SY!NoPrim.owner = NoThread
  BY DEF SY!NoPrim, Prims
<1>2. ASSUME NEW p \in Prims
      PROVE  [p EXCEPT !.recursive = b] \in Prims /\ [p EXCEPT !.recursive = b].owner = p.owner
  BY DEF Prims
<1>. QED
  BY <1>1, <1>2, Zenon DEF SY!Lockable

LEMMA CountingIs ==
  ASSUME NEW c \in Int, NEW x \in Int
  PROVE  SY!Counting(c, x) \in Prims /\ SY!Counting(c, x).count = c /\ SY!Counting(c, x).max = x
<1>1. SY!NoPrim \in Prims
  BY DEF SY!NoPrim, Prims
<1>2. ASSUME NEW p \in Prims
      PROVE  /\ [p EXCEPT !.count = c, !.max = x] \in Prims
             /\ [p EXCEPT !.count = c, !.max = x].count = c
             /\ [p EXCEPT !.count = c, !.max = x].max = x
  BY DEF Prims
<1>. QED
  BY <1>1, <1>2, Zenon DEF SY!Counting

LEMMA ConstructIs ==
  ASSUME GuardTypeInv, backend # "single", NEW o \in SY!Construct(kind)
  PROVE  /\ o.prim \in Prims
         /\ o.threw = TRUE \/ (o.threw = FALSE /\ Fresh(o.prim))
<1>0. /\ kind.class \in {"Mutex", "Semaphore", "FairMutex"} /\ backend \in {"pthreads", "win32"}
  BY KindClass DEF GuardTypeInv
<1>t. ASSUME o = SY!Throws(SY!NoPrim) PROVE o.threw = TRUE /\ o.prim \in Prims
  BY <1>t, LockableIs DEF SY!Throws
<1>1. CASE kind.class = "Semaphore" \/ (kind.class = "FairMutex" /\ backend = "pthreads")
  <2>1. o = SY!Throws(SY!NoPrim) \/ \E x \in Int : o = SY!Returns(SY!Counting(Limit, x)) /\ (kind.class = "Semaphore" => x = kind.max)
    <3>1. CASE kind.class = "Semaphore" /\ backend = "pthreads"
      <4>1. o \in SY!Semaphore_pthreads(kind.max, kind.initial)
        BY <3>1, Zenon DEF SY!Construct, SY!Semaphore, SY!Threaded
      <4>2. kind.max \in 0 .. 2 /\ kind.initial \in 0 .. 2
        BY <3>1, SemaphoreKind DEF GuardTypeInv
      <4>3. o \in {SY!Returns(SY!Counting(IF kind.initial < kind.max THEN kind.initial ELSE kind.max, kind.max)), SY!Throws(SY!NoPrim)}
        BY <4>1, Zenon DEF SY!Semaphore_pthreads
      <4>4. (IF kind.initial < kind.max THEN kind.initial ELSE kind.max) = Limit
        BY <3>1, <4>2 DEF Limit
      <4>5. kind.max \in Int
        BY <4>2
      <4>. QED
        BY <4>3, <4>4, <4>5, Zenon
    <3>2. CASE kind.class = "Semaphore" /\ backend = "win32"
      <4>1. o \in SY!Semaphore_win32(kind.max, kind.initial)
        BY <3>2, Zenon DEF SY!Construct, SY!Semaphore, SY!Threaded
      <4>2. kind.max \in 0 .. 2 /\ kind.initial \in 0 .. 2
        BY <3>2, SemaphoreKind DEF GuardTypeInv
      <4>3. \/ o = SY!Throws(SY!NoPrim)
            \/ kind.initial <= kind.max /\ o = SY!Returns(SY!Counting(kind.initial, kind.max))
        BY <4>1, Zenon DEF SY!Semaphore_win32
      <4>4. kind.initial <= kind.max => kind.initial = Limit
        BY <3>2, <4>2 DEF Limit
      <4>5. kind.max \in Int
        BY <4>2
      <4>. QED
        BY <4>3, <4>4, <4>5, Zenon
    <3>3. CASE kind.class = "FairMutex" /\ backend = "pthreads"
      <4>1. o \in SY!Semaphore_pthreads(1, 1)
        BY <3>3, Zenon DEF SY!Construct, SY!FairMutex, SY!FairMutex_pthreads, SY!Threaded
      <4>2. (IF 1 < 1 THEN 1 ELSE 1) = Limit /\ 1 \in Int /\ kind.class # "Semaphore"
        BY <3>3 DEF Limit
      <4>. QED
        BY <4>1, <4>2, Zenon DEF SY!Semaphore_pthreads
    <3>. QED
      BY <1>0, <1>1, <3>1, <3>2, <3>3, Zenon
  <2>2. ASSUME NEW x \in Int, o = SY!Returns(SY!Counting(Limit, x)), kind.class = "Semaphore" => x = kind.max
        PROVE  o.threw = FALSE /\ o.prim \in Prims /\ o.prim.count = Limit /\ (kind.class = "Semaphore" => o.prim.max = kind.max)
    <3>1. o.threw = FALSE /\ o.prim = SY!Counting(Limit, x)
      BY <2>2 DEF SY!Returns
    <3>2. Limit \in Int
      BY LimitIs
    <3>3. /\ SY!Counting(Limit, x) \in Prims /\ SY!Counting(Limit, x).count = Limit
          /\ SY!Counting(Limit, x).max = x
      BY <3>2, CountingIs
    <3>. QED
      BY <2>2, <3>1, <3>3
  <2>3. Counted
    BY <1>1, Zenon DEF Counted
  <2>. QED
    BY <1>t, <2>1, <2>2, <2>3, Zenon DEF Fresh
<1>2. CASE kind.class = "Mutex" \/ (kind.class = "FairMutex" /\ backend = "win32")
  <2>1. o = SY!Throws(SY!NoPrim) \/ \E b \in BOOLEAN : o = SY!Returns(SY!Lockable(b))
    <3>1. CASE kind.class = "Mutex" /\ backend = "pthreads"
      <4>1. o \in {SY!Returns(SY!Lockable(kind.type = "RECURSIVE")), SY!Throws(SY!NoPrim)}
        BY <3>1, Zenon DEF SY!Construct, SY!Mutex, SY!Threaded, SY!Mutex_pthreads, SY!PthreadMutexAttr
      <4>2. (kind.type = "RECURSIVE") \in BOOLEAN
        BY Zenon
      <4>. QED
        BY <4>1, <4>2, Zenon
    <3>2. CASE kind.class = "Mutex" /\ backend = "win32"
      BY <3>2, Zenon DEF SY!Construct, SY!Mutex, SY!Threaded, SY!Mutex_win32, SY!InitializeCriticalSection_wrap
    <3>3. CASE kind.class = "FairMutex" /\ backend = "win32"
      BY <3>3, Zenon DEF SY!Construct, SY!FairMutex, SY!Threaded, SY!FairMutex_win32
    <3>. QED
      BY <1>0, <1>2, <3>1, <3>2, <3>3, Zenon
  <2>2. ASSUME NEW b \in BOOLEAN, o = SY!Returns(SY!Lockable(b))
        PROVE  o.threw = FALSE /\ o.prim \in Prims /\ o.prim.owner = NoThread
    <3>1. o.threw = FALSE /\ o.prim = SY!Lockable(b)
      BY <2>2 DEF SY!Returns
    <3>. QED
      BY <3>1, LockableIs, Zenon
  <2>3. ~ Counted
    BY <1>2 DEF Counted
  <2>. QED
    BY <1>t, <2>1, <2>2, <2>3, Zenon DEF Fresh
<1>. QED
  BY <1>0, <1>1, <1>2, Zenon

\* In a single-threaded build no call does anything.
LEMMA SingleIs ==
  ASSUME GuardTypeInv, backend = "single", NEW t, NEW o,
         o \in SY!Lock(t) \/ o \in SY!Unlock(t) \/ o \in SY!Construct(kind) \/ o \in SY!Dtor
  PROVE  o.threw = FALSE /\ o.prim \in Prims
<1>1. o = SY!Returns(prim)
  <2>1. ASSUME NEW p, NEW z PROVE SY!Threaded(p, z) = {SY!Returns(prim)}
    BY Zenon DEF SY!Threaded
  <2>2. kind.class \in {"Mutex", "Semaphore", "FairMutex"}
    BY KindClass DEF GuardTypeInv
  <2>3. /\ SY!Lock(t) = {SY!Returns(prim)} /\ SY!Unlock(t) = {SY!Returns(prim)}
        /\ SY!Construct(kind) = {SY!Returns(prim)} /\ SY!Dtor = {SY!Returns(prim)}
    <3>1. CASE kind.class = "Mutex"
      BY <2>1, <3>1, Zenon DEF SY!Lock, SY!Unlock, SY!Construct, SY!Dtor, SY!Mutex, SY!Mutex_lock, SY!Mutex_unlock
    <3>2. CASE kind.class = "Semaphore"
      BY <2>1, <3>2, Zenon DEF SY!Lock, SY!Unlock, SY!Construct, SY!Dtor, SY!Semaphore, SY!Semaphore_lock, SY!Semaphore_unlock
    <3>3. CASE kind.class = "FairMutex"
      BY <2>1, <3>3, Zenon DEF SY!Lock, SY!Unlock, SY!Construct, SY!Dtor, SY!FairMutex, SY!FairMutex_lock, SY!FairMutex_unlock
    <3>. QED
      BY <2>2, <3>1, <3>2, <3>3, Zenon
  <2>. QED
    BY <2>3, Zenon
<1>. QED
  BY <1>1 DEF SY!Returns, GuardTypeInv

LEMMA DtorIs ==
  ASSUME GuardTypeInv, NEW o \in SY!Dtor PROVE o.prim \in Prims
<1>1. CASE backend = "single"
  BY <1>1, SingleIs, Zenon
<1>2. CASE backend # "single"
  <2>1. kind.class \in {"Mutex", "Semaphore", "FairMutex"} /\ backend \in {"pthreads", "win32"}
    BY <1>2, KindClass DEF GuardTypeInv
  <2>2. ASSUME NEW p, NEW z 
        PROVE  \/ backend = "pthreads" /\ SY!Threaded(p, z) = p
               \/ backend = "win32" /\ SY!Threaded(p, z) = z
    <3>1. "pthreads" # "win32"
      OBVIOUS
    <3>. QED
      BY <2>1, <3>1, Zenon DEF SY!Threaded
  <2>3. o = SY!Returns(SY!NoPrim)
    BY <2>1, <2>2 DEF SY!Dtor, SY!MutexDtor_pthreads, SY!SemaphoreDtor_pthreads, SY!SemaphoreDtor_win32, SY!FairMutexDtor_win32
  <2>. QED
    BY <2>3, LockableIs DEF SY!Returns
<1>. QED
  BY <1>1, <1>2, Zenon

\* A guard is attached and the primitive taken.
LEMMA TakeGuardStep ==
  ASSUME GuardInv, NEW t \in PairOfThreads, NEW g \in SY!Guards, life = "live", ~ sp[t][g],
         prim' \in Prims, backend # "single" => Takes(prim, prim', t),
         sp' = [sp EXCEPT ![t][g] = TRUE], held' = [held EXCEPT ![t] = @ + 1],
         UNCHANGED <<backend, kind, life, unlockThrew>>
  PROVE  GuardInv'
<1>1. sp' \in [PairOfThreads -> [SY!Guards -> BOOLEAN]] /\ Attaches(sp, sp', t, g)
  BY AttachIs, Zenon DEF GuardInv, GuardTypeInv
<1>2. /\ held \in [PairOfThreads -> Int] /\ held' \in [PairOfThreads -> Int]
      /\ held'[t] = held[t] + 1 /\ \A u \in PairOfThreads : u # t => held'[u] = held[u]
  BY DEF GuardInv, GuardTypeInv
<1>3. GuardTypeInv'
  BY <1>1, <1>2, Zenon DEF GuardInv, GuardTypeInv
<1>4. ASSUME backend # "single"
      PROVE  /\ IsFiniteSet(AllGuards(sp')) /\ HeldInv' /\ LiveInv' /\ MaxInv' /\ PrimCountInv' /\ PrimOwnerInv'
             /\ unlockThrew' = FALSE
  <2>1. /\ IsFiniteSet(AllGuards(sp)) /\ HeldInv /\ MaxInv /\ PrimCountInv /\ PrimOwnerInv
        /\ unlockThrew = FALSE /\ GuardTypeInv
    BY <1>4, Zenon DEF GuardInv
  <2>2. /\ AllGuards(sp') = AllGuards(sp) \cup {<<t, g>>}
        /\ GuardsOf(sp', t) = GuardsOf(sp, t) \cup {g}
        /\ \A u \in PairOfThreads : u # t => GuardsOf(sp', u) = GuardsOf(sp, u)
    <3>1. GuardsGrow(sp, sp', t, g)
      BY <1>1, AttachedSets, Zenon
    <3>. QED
      BY ONLY <3>1 DEF GuardsGrow
  <2>3. g \notin GuardsOf(sp, t) /\ <<t, g>> \notin AllGuards(sp)
    BY NotGuardIn, Zenon
  <2>4. /\ IsFiniteSet(AllGuards(sp'))
        /\ Cardinality(AllGuards(sp')) = Cardinality(AllGuards(sp)) + 1
        /\ Cardinality(AllGuards(sp)) \in Int
    BY ONLY <2>1, <2>2, <2>3, OneMore, FS_CardinalityType
  <2>5. HeldInv'
    <3>1. ASSUME NEW u \in PairOfThreads
          PROVE  IsFiniteSet(GuardsOf(sp', u)) /\ held'[u] = Cardinality(GuardsOf(sp', u))
      <4>0. IsFiniteSet(GuardsOf(sp, u)) /\ held[u] = Cardinality(GuardsOf(sp, u))
        BY <2>1, Zenon DEF HeldInv
      <4>1. CASE u = t
        BY ONLY <1>2, <2>2, <2>3, <4>0, <4>1, OneMore
      <4>2. CASE u # t
        BY <1>2, <2>2, <4>0, <4>2, Zenon
      <4>. QED
        BY <4>1, <4>2, Zenon
    <3>. QED
      BY <3>1, Zenon DEF HeldInv
  <2>6. Counted => TakesCount(prim, prim')
    BY <1>4, Zenon DEF Takes
  <2>7. PrimCountInv'
    <3>1. prim.count \in Int /\ prim'.count \in Int
      BY <2>1 DEF GuardTypeInv, Prims
    <3>2. Counted => prim'.count + Cardinality(AllGuards(sp')) = Limit
      <4>1. Counted => prim.count + Cardinality(AllGuards(sp)) = Limit /\ prim'.count = prim.count - 1
        BY <2>1, <2>6, Zenon DEF PrimCountInv, TakesCount
      <4>. HIDE DEF Counted, Limit
      <4>. QED
        BY <2>4, <3>1, <4>1
    <3>3. (Counted' <=> Counted) /\ Limit' = Limit
      BY Zenon DEF Counted, Limit
    <3>. QED
      BY <3>2, <3>3, Zenon DEF PrimCountInv
  <2>8. MaxInv'
    BY <2>1, <2>6, Zenon DEF MaxInv, TakesCount, Counted
  <2>9. PrimOwnerInv'
    <3>1. ASSUME ~ Counted, NEW u \in PairOfThreads
          PROVE  held'[u] = IF prim'.owner = u THEN prim'.depth ELSE 0
      <4>1. TakesOwner(prim, prim', t) /\ \A v \in PairOfThreads : held[v] = IF prim.owner = v THEN prim.depth ELSE 0
        BY <1>4, <2>1, <3>1, Zenon DEF Takes, PrimOwnerInv
      <4>2. t # NoThread /\ u # NoThread
        BY GuardAssumption
      <4>3. prim'.owner = t
        BY <4>1, Zenon DEF TakesOwner
      <4>4. CASE u # t
        <5>1. held[u] = 0
          BY <4>1, <4>2, <4>4 DEF TakesOwner
        <5>. QED
          BY <1>2, <4>3, <4>4, <5>1, Zenon
      <4>5. CASE u = t
        <5>1. prim'.depth = held[t] + 1
          BY <1>2, <4>1, <4>2 DEF TakesOwner
        <5>. QED
          BY <1>2, <4>3, <4>5, <5>1, Zenon
      <4>. QED
        BY <4>4, <4>5, Zenon
    <3>2. Counted' <=> Counted
      BY Zenon DEF Counted
    <3>. QED
      BY <3>1, <3>2, Zenon DEF PrimOwnerInv
  <2>10. LiveInv'
    BY Zenon DEF LiveInv
  <2>. QED
    BY <2>1, <2>4, <2>5, <2>7, <2>8, <2>9, <2>10, Zenon
<1>. QED
  BY <1>3, <1>4, Zenon DEF GuardInv

\* lock() threw: there is no guard, and nothing is taken.
LEMMA NoTakeStep ==
  ASSUME GuardInv, NEW t \in PairOfThreads, NEW g \in SY!Guards, ~ sp[t][g],
         sp' = [sp EXCEPT ![t][g] = FALSE], held' = [held EXCEPT ![t] = @],
         UNCHANGED <<backend, kind, life, prim, unlockThrew>>
  PROVE  GuardInv'
<1>1. sp' \in [PairOfThreads -> [SY!Guards -> BOOLEAN]] /\ Detaches(sp, sp', t, g)
  BY AttachIs, Zenon DEF GuardInv, GuardTypeInv
<1>2. held' = held
  BY DEF GuardInv, GuardTypeInv
<1>3. \A u \in PairOfThreads, x \in SY!Guards : sp'[u][x] <=> sp[u][x]
  BY <1>1, Zenon DEF Detaches
<1>4. sp' = sp
  <2>1. sp \in [PairOfThreads -> [SY!Guards -> BOOLEAN]]
    BY DEF GuardInv, GuardTypeInv
  <2>. QED
    BY ONLY <1>1, <1>3, <2>1
<1>. QED
  BY <1>2, <1>4, Zenon DEF GuardInv, GuardTypeInv, HeldInv, LiveInv, MaxInv, PrimCountInv, PrimOwnerInv, Counted, Limit

\* Whoever has a guard may unlock.
LEMMA MayUnlock ==
  ASSUME GuardInv, backend # "single", NEW t \in PairOfThreads, NEW g \in SY!Guards, sp[t][g]
  PROVE  /\ life = "live"
         /\ kind.class = "Semaphore" => prim.count < prim.max
         /\ ~ Counted => prim.owner = t
<1>1. /\ IsFiniteSet(AllGuards(sp)) /\ HeldInv /\ LiveInv /\ MaxInv /\ PrimCountInv /\ PrimOwnerInv /\ GuardTypeInv
  BY Zenon DEF GuardInv
<1>2. life = "live"
  BY <1>1, Zenon DEF LiveInv
<1>3. g \in GuardsOf(sp, t) /\ <<t, g>> \in AllGuards(sp)
  BY GuardIn, Zenon
<1>4. Cardinality(AllGuards(sp)) \in Nat /\ Cardinality(AllGuards(sp)) # 0
  BY <1>1, <1>3, FS_EmptySet, FS_CardinalityType
<1>5. Cardinality(GuardsOf(sp, t)) # 0
  BY <1>1, <1>3, FS_EmptySet DEF HeldInv
<1>6. kind.class = "Semaphore" => prim.count < prim.max
  <2>1. kind.class = "Semaphore" =>
          /\ prim.count + Cardinality(AllGuards(sp)) = Limit /\ Limit <= kind.max
          /\ prim.max = kind.max
    BY <1>1, <1>2, LimitIs, Zenon DEF PrimCountInv, Counted, MaxInv
  <2>2. prim.count \in Int /\ prim.max \in Int /\ Limit \in Nat
    BY <1>1, LimitIs DEF GuardTypeInv, Prims
  <2>. QED
    BY <1>4, <2>1, <2>2
<1>7. ~ Counted => prim.owner = t
  BY <1>1, <1>2, <1>5, Zenon DEF HeldInv, PrimOwnerInv
<1>. QED
  BY <1>2, <1>6, <1>7, Zenon

\* The primitive is given back and the guard let go.
LEMMA GiveStep ==
  ASSUME GuardInv, NEW t \in PairOfThreads, NEW g \in SY!Guards, sp[t][g],
         prim' \in Prims, backend # "single" => Gives(prim, prim', t),
         sp' = [sp EXCEPT ![t][g] = FALSE], held' = [held EXCEPT ![t] = @ - 1],
         UNCHANGED <<backend, kind, life>>, unlockThrew' = (unlockThrew \/ FALSE)
  PROVE  GuardInv'
<1>1. sp' \in [PairOfThreads -> [SY!Guards -> BOOLEAN]] /\ Detaches(sp, sp', t, g)
  BY AttachIs, Zenon DEF GuardInv, GuardTypeInv
<1>2. /\ held \in [PairOfThreads -> Int] /\ held' \in [PairOfThreads -> Int]
      /\ held'[t] = held[t] - 1 /\ \A u \in PairOfThreads : u # t => held'[u] = held[u]
  BY DEF GuardInv, GuardTypeInv
<1>3. GuardTypeInv'
  BY <1>1, <1>2, Zenon DEF GuardInv, GuardTypeInv
<1>4. ASSUME backend # "single"
      PROVE  /\ IsFiniteSet(AllGuards(sp')) /\ HeldInv' /\ LiveInv' /\ MaxInv' /\ PrimCountInv' /\ PrimOwnerInv'
             /\ unlockThrew' = FALSE
  <2>1. /\ IsFiniteSet(AllGuards(sp)) /\ HeldInv /\ MaxInv /\ PrimCountInv /\ PrimOwnerInv
        /\ unlockThrew = FALSE /\ GuardTypeInv
    BY <1>4, Zenon DEF GuardInv
  <2>l. life = "live" /\ (~ Counted => prim.owner = t)
    BY <1>4, MayUnlock, Zenon
  <2>2. /\ AllGuards(sp') = AllGuards(sp) \ {<<t, g>>}
        /\ GuardsOf(sp', t) = GuardsOf(sp, t) \ {g}
        /\ \A u \in PairOfThreads : u # t => GuardsOf(sp', u) = GuardsOf(sp, u)
    <3>1. GuardsShrink(sp, sp', t, g)
      BY <1>1, DetachedSets, Zenon
    <3>. QED
      BY ONLY <3>1 DEF GuardsShrink
  <2>3. g \in GuardsOf(sp, t) /\ <<t, g>> \in AllGuards(sp)
    BY GuardIn, Zenon
  <2>4. /\ IsFiniteSet(AllGuards(sp'))
        /\ Cardinality(AllGuards(sp')) = Cardinality(AllGuards(sp)) - 1
        /\ Cardinality(AllGuards(sp)) \in Int
    BY ONLY <2>1, <2>2, <2>3, OneLess, FS_CardinalityType
  <2>5. HeldInv'
    <3>1. ASSUME NEW u \in PairOfThreads
          PROVE  IsFiniteSet(GuardsOf(sp', u)) /\ held'[u] = Cardinality(GuardsOf(sp', u))
      <4>0. IsFiniteSet(GuardsOf(sp, u)) /\ held[u] = Cardinality(GuardsOf(sp, u))
        BY <2>1, Zenon DEF HeldInv
      <4>1. CASE u = t
        BY ONLY <1>2, <2>2, <2>3, <4>0, <4>1, OneLess
      <4>2. CASE u # t
        BY <1>2, <2>2, <4>0, <4>2, Zenon
      <4>. QED
        BY <4>1, <4>2, Zenon
    <3>. QED
      BY <3>1, Zenon DEF HeldInv
  <2>6. Counted => GivesCount(prim, prim')
    BY <1>4, Zenon DEF Gives
  <2>7. PrimCountInv'
    <3>1. prim.count \in Int /\ prim'.count \in Int
      BY <2>1 DEF GuardTypeInv, Prims
    <3>2. Counted => prim'.count + Cardinality(AllGuards(sp')) = Limit
      <4>1. Counted => prim.count + Cardinality(AllGuards(sp)) = Limit /\ prim'.count = prim.count + 1
        BY <2>1, <2>6, <2>l, Zenon DEF PrimCountInv, GivesCount
      <4>. QED
        BY ONLY <2>4, <3>1, <4>1
    <3>3. (Counted' <=> Counted) /\ Limit' = Limit
      BY Zenon DEF Counted, Limit
    <3>. QED
      BY <3>2, <3>3, Zenon DEF PrimCountInv
  <2>8. MaxInv'
    BY <2>1, <2>6, <2>l, Zenon DEF MaxInv, GivesCount, Counted
  <2>9. PrimOwnerInv'
    <3>1. ASSUME ~ Counted, NEW u \in PairOfThreads
          PROVE  held'[u] = IF prim'.owner = u THEN prim'.depth ELSE 0
      <4>1. /\ GivesOwner(prim, prim', t) /\ prim.owner = t
            /\ \A v \in PairOfThreads : held[v] = IF prim.owner = v THEN prim.depth ELSE 0
        BY <1>4, <2>1, <2>l, <3>1, Zenon DEF Gives, PrimOwnerInv
      <4>2. t # NoThread /\ u # NoThread
        BY GuardAssumption
      <4>3. held[t] = prim.depth /\ prim.depth \in Int
        BY <1>2, <4>1
      <4>4. CASE u # t
        <5>1. held[u] = 0 /\ prim'.owner # u
          BY <4>1, <4>2, <4>4, Zenon DEF GivesOwner
        <5>. QED
          BY <1>2, <4>4, <5>1, Zenon
      <4>5. CASE u = t
        <5>1. prim'.owner = (IF prim.depth = 1 THEN NoThread ELSE t) /\ prim'.depth = prim.depth - 1
          BY <4>1, Zenon DEF GivesOwner
        <5>. QED
          BY ONLY <1>2, <4>2, <4>3, <4>5, <5>1
      <4>. QED
        BY <4>4, <4>5, Zenon
    <3>2. Counted' <=> Counted
      BY Zenon DEF Counted
    <3>. QED
      BY <3>1, <3>2, Zenon DEF PrimOwnerInv
  <2>10. LiveInv'
    BY <2>l, Zenon DEF LiveInv
  <2>. QED
    BY <2>1, <2>4, <2>5, <2>7, <2>8, <2>9, <2>10, Zenon
<1>. QED
  BY <1>3, <1>4, Zenon DEF GuardInv

\* SyncGuard's constructor, and attach_and_lock.
LEMMA LockStep ==
  ASSUME GuardInv, NEW t \in PairOfThreads, NEW g \in SY!Guards,
         SY!SyncGuard(t, g) \/ SY!attach_and_lock(t, g)
  PROVE  GuardInv'
<1>1. /\ life = "live" /\ ~ sp[t][g] /\ UNCHANGED <<backend, kind, life, unlockThrew>>
      /\ \E o \in SY!Lock(t) :
           /\ prim' = o.prim
           /\ \/ sp' = [sp EXCEPT ![t][g] = ~ o.threw]
              \/ sp' = [sp EXCEPT ![t][g] = IF o.threw THEN FALSE ELSE TRUE]
           /\ held' = [held EXCEPT ![t] = IF o.threw THEN @ ELSE @ + 1]
  BY Zenon DEF SY!SyncGuard, SY!attach_and_lock, SY!Attach, SY!OnLockFailure
<1>2. PICK o \in SY!Lock(t) :
           /\ prim' = o.prim
           /\ \/ sp' = [sp EXCEPT ![t][g] = ~ o.threw]
              \/ sp' = [sp EXCEPT ![t][g] = IF o.threw THEN FALSE ELSE TRUE]
           /\ held' = [held EXCEPT ![t] = IF o.threw THEN @ ELSE @ + 1]
  BY <1>1, Zenon
<1>3. GuardTypeInv
  BY DEF GuardInv
<1>4. CASE o.threw = TRUE
  <2>1. o.prim = prim
    <3>1. backend # "single"
      BY <1>3, <1>4, SingleIs
    <3>. QED
      BY <1>3, <1>4, <3>1, LockIs
  <2>2. sp' = [sp EXCEPT ![t][g] = FALSE] /\ held' = [held EXCEPT ![t] = @]
    BY <1>2, <1>4
  <2>. QED
    BY <1>1, <1>2, <2>1, <2>2, NoTakeStep, Zenon
<1>5. CASE o.threw = FALSE
  <2>1. o.prim \in Prims /\ (backend # "single" => Takes(prim, o.prim, t))
    <3>1. CASE backend = "single"
      BY <1>3, <3>1, SingleIs, Zenon
    <3>2. CASE backend # "single"
      BY <1>3, <1>5, <3>2, LockIs
    <3>. QED
      BY <3>1, <3>2, Zenon
  <2>2. sp' = [sp EXCEPT ![t][g] = TRUE] /\ held' = [held EXCEPT ![t] = @ + 1]
    BY <1>2, <1>5
  <2>. QED
    BY <1>1, <1>2, <2>1, <2>2, TakeGuardStep, Zenon
<1>6. o.threw = TRUE \/ o.threw = FALSE
  BY <1>3, SingleIs, LockIs
<1>. QED
  BY <1>4, <1>5, <1>6, Zenon

\* The guard's unlock and its destructor.
LEMMA UnlockStep ==
  ASSUME GuardInv, NEW t \in PairOfThreads, NEW g \in SY!Guards, SY!UnlockWith(t, g)
  PROVE  GuardInv'
<1>1. /\ sp[t][g] /\ UNCHANGED <<backend, kind, life>>
      /\ sp' = [sp EXCEPT ![t][g] = FALSE]
      /\ \E o \in SY!Unlock(t) :
           /\ prim' = o.prim
           /\ held' = [held EXCEPT ![t] = IF o.threw THEN @ ELSE @ - 1]
           /\ unlockThrew' = (unlockThrew \/ o.threw)
  BY Zenon DEF SY!UnlockWith, SY!Attach
<1>2. PICK o \in SY!Unlock(t) :
           /\ prim' = o.prim
           /\ held' = [held EXCEPT ![t] = IF o.threw THEN @ ELSE @ - 1]
           /\ unlockThrew' = (unlockThrew \/ o.threw)
  BY <1>1, Zenon
<1>3. GuardTypeInv
  BY DEF GuardInv
<1>4. o.threw = FALSE /\ o.prim \in Prims /\ (backend # "single" => Gives(prim, o.prim, t))
  <2>1. CASE backend = "single"
    BY <1>3, <2>1, SingleIs, Zenon
  <2>2. CASE backend # "single"
    <3>1. (kind.class = "Semaphore" => prim.count < prim.max) /\ (~ Counted => prim.owner = t)
      BY <1>1, <2>2, MayUnlock, Zenon
    <3>. QED
      BY <1>3, <2>2, <3>1, UnlockIs, Zenon
  <2>. QED
    BY <2>1, <2>2, Zenon
<1>5. held' = [held EXCEPT ![t] = @ - 1] /\ unlockThrew' = (unlockThrew \/ FALSE)
  BY <1>2, <1>4
<1>. QED
  BY <1>1, <1>2, <1>4, <1>5, GiveStep, Zenon

\* The primitive's constructor and destructor.
LEMMA CreateStep ==
  ASSUME GuardInv, SY!Create PROVE GuardInv'
<1>1. life = "new" /\ UNCHANGED <<backend, kind, sp, held, unlockThrew>>
  BY DEF SY!Create
<1>2. PICK o \in SY!Construct(kind) : prim' = o.prim /\ life' = IF o.threw THEN "dead" ELSE "live"
  BY Zenon DEF SY!Create
<1>3. GuardTypeInv
  BY DEF GuardInv
<1>4. /\ o.prim \in Prims
      /\ o.threw = TRUE \/ (o.threw = FALSE /\ (backend # "single" => Fresh(o.prim)))
  BY <1>3, SingleIs, ConstructIs, Zenon
<1>5. life' \in {"dead", "live"} /\ (life' = "live" => o.threw = FALSE)
  BY <1>2, <1>4
<1>6. GuardTypeInv'
  BY <1>1, <1>2, <1>3, <1>4, <1>5 DEF GuardTypeInv
<1>7. ASSUME backend # "single"
      PROVE  /\ IsFiniteSet(AllGuards(sp')) /\ HeldInv' /\ LiveInv' /\ MaxInv' /\ PrimCountInv' /\ PrimOwnerInv'
             /\ unlockThrew' = FALSE
  <2>1. /\ IsFiniteSet(AllGuards(sp)) /\ HeldInv /\ LiveInv /\ unlockThrew = FALSE
    BY <1>7, Zenon DEF GuardInv
  <2>2. \A t \in PairOfThreads, g \in SY!Guards : ~ sp[t][g]
    BY <1>1, <2>1 DEF LiveInv
  <2>3. AllGuards(sp) = {} /\ \A t \in PairOfThreads : GuardsOf(sp, t) = {}
    <3>1. \A z \in PairOfThreads \X SY!Guards : z[1] \in PairOfThreads /\ z[2] \in SY!Guards
      OBVIOUS
    <3>. QED
      BY <2>2, <3>1, Zenon DEF AllGuards, GuardsOf
  <2>4. (Counted' <=> Counted) /\ Limit' = Limit
    BY <1>1, Zenon DEF Counted, Limit
  <2>5. life' = "live" => Fresh(prim')
    BY <1>2, <1>4, <1>5, <1>7, Zenon
  <2>6. PrimCountInv'
    <3>1. Cardinality(AllGuards(sp')) = 0
      BY <1>1, <2>3, FS_EmptySet
    <3>2. prim'.count \in Int
      BY <1>6 DEF GuardTypeInv, Prims
    <3>3. life' = "live" /\ Counted => prim'.count = Limit
      BY <2>5, Zenon DEF Fresh
    <3>4. life' = "live" /\ Counted => prim'.count + Cardinality(AllGuards(sp')) = Limit
      BY ONLY <3>1, <3>2, <3>3
    <3>. QED
      BY <2>4, <3>4, Zenon DEF PrimCountInv
  <2>7. MaxInv'
    BY <1>1, <2>5, Zenon DEF Fresh, MaxInv, Counted
  <2>8. PrimOwnerInv'
    <3>1. ASSUME NEW t \in PairOfThreads PROVE held[t] = 0 /\ t # NoThread
      BY <2>1, <2>3, FS_EmptySet, GuardAssumption DEF HeldInv
    <3>2. life' = "live" /\ ~ Counted => prim'.owner = NoThread
      BY <2>5, Zenon DEF Fresh
    <3>. QED
      BY <1>1, <2>4, <3>1, <3>2, Zenon DEF PrimOwnerInv
  <2>9. HeldInv' /\ LiveInv'
    BY <1>1, <2>1, <2>2, Zenon DEF HeldInv, LiveInv
  <2>. QED
    BY <1>1, <2>1, <2>6, <2>7, <2>8, <2>9, Zenon
<1>. QED
  BY <1>1, <1>6, <1>7, Zenon DEF GuardInv

LEMMA DestroyPrimStep ==
  ASSUME GuardInv, SY!Destroy PROVE GuardInv'
<1>1. /\ UNCHANGED <<backend, kind, sp, held, unlockThrew>> /\ life' = "dead"
      /\ \A t \in PairOfThreads, g \in SY!Guards : ~ sp[t][g]
  BY DEF SY!Destroy
<1>2. prim' \in Prims
  BY DtorIs, Zenon DEF SY!Destroy, GuardInv
<1>3. GuardTypeInv'
  BY <1>1, <1>2 DEF GuardInv, GuardTypeInv
<1>4. life' # "live"
  BY <1>1
<1>. QED
  BY <1>1, <1>3, <1>4, Zenon DEF GuardInv, HeldInv, LiveInv, MaxInv, PrimCountInv, PrimOwnerInv

\* SyncGuard: for any threads and any nesting of guards, on every back end and
\* whatever lock() throws, a primitive is held exactly as often as guards hold it,
\* a mutex by its owner only, and no unlock() throws.
THEOREM GuardsAreBalanced ==
  SY!Spec => []GuardsBalance
<1>1. SY!Init => GuardInv
  <2> SUFFICES ASSUME SY!Init PROVE GuardInv
    OBVIOUS
  <2>1. /\ prim \in Prims /\ life = "new" /\ unlockThrew = FALSE
        /\ sp = [t \in PairOfThreads |-> [g \in SY!Guards |-> FALSE]]
        /\ held = [t \in PairOfThreads |-> 0]
    BY LockableIs, Zenon DEF SY!Init
  <2>2. GuardTypeInv
    <3>1. backend \in {"pthreads", "win32", "single"} /\ kind \in SY!Kinds /\ unlockThrew \in BOOLEAN
      BY Zenon DEF SY!Init
    <3>2. sp \in [PairOfThreads -> [SY!Guards -> BOOLEAN]]
      BY ONLY <2>1, Zenon
    <3>3. held \in [PairOfThreads -> Int] /\ life \in {"new", "live", "dead"}
      BY ONLY <2>1
    <3>. QED
      BY <2>1, <3>1, <3>2, <3>3, Zenon DEF GuardTypeInv
  <2>3. \A t \in PairOfThreads, g \in SY!Guards : sp[t][g] = FALSE
    BY <2>1
  <2>4. AllGuards(sp) = {} /\ \A t \in PairOfThreads : GuardsOf(sp, t) = {}
    <3>1. \A z \in PairOfThreads \X SY!Guards : z[1] \in PairOfThreads /\ z[2] \in SY!Guards
      OBVIOUS
    <3>. QED
      BY <2>3, <3>1, Zenon DEF AllGuards, GuardsOf
  <2>5. IsFiniteSet(AllGuards(sp)) /\ HeldInv
    BY <2>1, <2>4, FS_EmptySet DEF HeldInv
  <2>6. LiveInv
    BY <2>3, Zenon DEF LiveInv
  <2>7. life # "live"
    BY <2>1
  <2>8. MaxInv /\ PrimCountInv /\ PrimOwnerInv
    BY <2>7, Zenon DEF MaxInv, PrimCountInv, PrimOwnerInv
  <2>. QED
    BY <2>1, <2>2, <2>5, <2>6, <2>8, Zenon DEF GuardInv
<1>2. GuardInv /\ [SY!Next]_(SY!vars) => GuardInv'
  <2>1. CASE UNCHANGED SY!vars
    BY <2>1, Zenon DEF SY!vars, GuardInv, GuardTypeInv, HeldInv, LiveInv, MaxInv, PrimCountInv, PrimOwnerInv, Counted, Limit
  <2>. QED
    BY <2>1, CreateStep, DestroyPrimStep, LockStep, UnlockStep, Zenon
       DEF SY!Next, SY!UnlockAndDetach, SY!SyncGuardDtor
<1>. QED
  BY <1>1, <1>2, GuardsBalanceIs, PTL DEF SY!Spec

-----------------------------------------------------------------------------
(* Logging statements.                                                     *)

Texts == Seq(Nat \X Nat)
Ptds == [oss : Texts, there : BOOLEAN]
Stmts == [kind : {"BODY", "STR", "TRACE"}, ll : LogLevels \cup {0}, id : Nat, own : Texts,
          pieces : 0 .. 2, nested : BOOLEAN]
Events == [id : Nat, by : PairOfThreads, text : Texts, nested : BOOLEAN, thread : PairOfThreads,
           threadCached : BOOLEAN]
Records == [id : Nat, by : PairOfThreads \cup {Consumer}, text : Texts,
            thread : PairOfThreads \cup {Consumer}, nested : BOOLEAN]

\* What a statement has streamed after n of its two pieces.
Streamed(id, n) ==
  IF n = 0 THEN << >> ELSE IF n = 1 THEN <<<<id, 1>>>> ELSE <<<<id, 1>>, <<id, 2>>>>

\* The stream a statement writes to holds its pieces, unless another one ran inside.
Okay(s, d, tls) ==
  s.kind = "BODY" =>
    /\ tls = TRUE => d.there = TRUE
    /\ tls = TRUE /\ s.nested = FALSE => d.oss = Streamed(s.id, s.pieces)
    /\ tls = FALSE => s.own = Streamed(s.id, s.pieces)

\* Of the statements that share the thread's stream only the innermost is whole.
StackOkay(q, d, tls) ==
  /\ q \in Seq(Stmts)
  /\ \A n \in 1 .. Len(q) : Okay(q[n], d, tls)
  /\ \A n, k \in 1 .. Len(q) :
       tls = TRUE /\ n < k /\ q[n].kind = "BODY" /\ q[k].kind = "BODY" => q[n].nested = TRUE

\* A stream that is not there yet is empty.
PtdOkay(p) == p \in Ptds /\ (p.there = FALSE => p.oss = << >>)

ThreadsInv ==
  /\ build.tls \in BOOLEAN
  /\ ptd \in [PairOfThreads -> Ptds] /\ stack \in [PairOfThreads -> Seq(Stmts)]
  /\ \A t \in PairOfThreads : StackOkay(stack[t], ptd[t], build.tls) /\ PtdOkay(ptd[t])

\* An event as it is made on its thread, as it is queued, and a record.
Whole(ev) == ev.nested = FALSE => ev.text = LG!WholeText(ev.id)
MadeEvents(t) == {ev \in Events : ev.by = t /\ ev.thread = t /\ ev.threadCached = FALSE /\ Whole(ev)}
QueuedEvents == {ev \in Events : ev.thread = ev.by /\ ev.threadCached = TRUE /\ Whole(ev)}
WholeRecords == {ev \in Records : ev.thread = ev.by /\ (ev.id # 0 => Whole(ev))}

RecordsInv == queue \in Seq(QueuedEvents) /\ last \in WholeRecords

LogInv == ThreadsInv /\ RecordsInv /\ statements \in Nat

LEMMA AppendSecond ==
  ASSUME NEW a, NEW b PROVE Append(<<a>>, b) = <<a, b>>
<1> DEFINE S == {a, b}
           p == Append(<<a>>, b)
           q == <<a, b>>
<1>1. <<a>> \in Seq(S) /\ b \in S /\ Len(<<a>>) = 1 /\ <<a>>[1] = a
  OBVIOUS
<1>2. p \in Seq(S) /\ Len(p) = 2 /\ p[1] = a /\ p[2] = b
  BY <1>1, AppendProperties
<1>3. q \in Seq(S) /\ Len(q) = 2 /\ q[1] = a /\ q[2] = b
  OBVIOUS
<1>. HIDE DEF S, p, q
<1>4. \A n \in 1 .. Len(p) : p[n] = q[n]
  BY <1>2, <1>3
<1>5. p = q
  BY <1>2, <1>3, <1>4, SeqEqual
<1>. QED
  BY <1>5, Zenon DEF p, q

LEMMA NextPiece ==
  ASSUME NEW id \in Nat, NEW n \in 0 .. 1
  PROVE  Append(Streamed(id, n), <<id, n + 1>>) = Streamed(id, n + 1)
<1>1. CASE n = 0
  BY <1>1 DEF Streamed
<1>2. CASE n = 1
  <2>1. Streamed(id, n) = <<<<id, 1>>>> /\ n + 1 = 2 /\ Streamed(id, 2) = <<<<id, 1>>, <<id, 2>>>>
    BY <1>2 DEF Streamed
  <2>. QED
    BY <2>1, AppendSecond, Zenon
<1>. QED
  BY <1>1, <1>2

LEMMA StreamedWhole ==
  ASSUME NEW id PROVE Streamed(id, 2) = LG!WholeText(id)
  BY DEF Streamed, LG!WholeText

LEMMA StackPop ==
  ASSUME NEW q, NEW d, NEW tls, StackOkay(q, d, tls), q # << >>
  PROVE  StackOkay(SubSeq(q, 1, Len(q) - 1), d, tls)
<1> DEFINE p == SubSeq(q, 1, Len(q) - 1)
<1>1. q \in Seq(Stmts) /\ Len(q) \in Nat \ {0}
  BY DEF StackOkay
<1>2. p \in Seq(Stmts) /\ Len(p) = Len(q) - 1 /\ \A n \in 1 .. Len(p) : p[n] = q[n] /\ n \in 1 .. Len(q)
  <2> DEFINE m1 == Len(q) - 1
  <2>1. m1 \in Nat /\ m1 <= Len(q)
    BY <1>1
  <2>2. p = SubSeq(q, 1, m1)
    BY Zenon
  <2>3. \A n \in 1 .. m1 : n \in 1 .. Len(q)
    BY <1>1
  <2>4. p \in Seq(Stmts) /\ Len(p) = m1 /\ \A n \in 1 .. m1 : p[n] = q[n]
    <3>. HIDE DEF m1, p
    <3>. QED
      BY <1>1, <2>1, <2>2, SubSeqProperties
  <2>. QED
    BY <2>3, <2>4, Zenon
<1>. HIDE DEF p
<1>3. /\ \A n \in 1 .. Len(p) : Okay(p[n], d, tls)
      /\ \A n, k \in 1 .. Len(p) :
           tls = TRUE /\ n < k /\ p[n].kind = "BODY" /\ p[k].kind = "BODY" => p[n].nested = TRUE
  BY <1>2, Zenon DEF StackOkay
<1>. QED
  BY <1>2, <1>3, Zenon DEF StackOkay, p

LEMMA StackTop ==
  ASSUME NEW q, NEW d, NEW tls, StackOkay(q, d, tls), q # << >>
  PROVE  q[Len(q)] \in Stmts /\ Okay(q[Len(q)], d, tls) /\ Len(q) \in 1 .. Len(q)
<1>1. Len(q) \in 1 .. Len(q) /\ q[Len(q)] \in Stmts
  BY DEF StackOkay
<1>. QED
  BY <1>1, Zenon DEF StackOkay

\* A statement with a text of its own, around or inside others.
LEMMA StackPush ==
  ASSUME NEW q, NEW d, NEW tls, StackOkay(q, d, tls), NEW s \in Stmts, s.kind # "BODY"
  PROVE  StackOkay(Append(q, s), d, tls)
<1> DEFINE p == Append(q, s)
<1>1. q \in Seq(Stmts) /\ Len(q) \in Nat
  BY DEF StackOkay
<1>2. p \in Seq(Stmts) /\ \A n \in 1 .. Len(p) : (n \in 1 .. Len(q) /\ p[n] = q[n]) \/ p[n] = s
  BY <1>1
<1>. HIDE DEF p
<1>3. /\ \A n \in 1 .. Len(p) : Okay(p[n], d, tls)
      /\ \A n, k \in 1 .. Len(p) :
           tls = TRUE /\ n < k /\ p[n].kind = "BODY" /\ p[k].kind = "BODY" => p[n].nested = TRUE
  BY <1>2, Zenon DEF StackOkay, Okay
<1>. QED
  BY <1>2, <1>3, Zenon DEF StackOkay, p

\* A statement that starts on the thread's stream marks those around it.
LEMMA StackBody ==
  ASSUME NEW q, NEW d, NEW tls, StackOkay(q, d, tls), NEW s \in Stmts, NEW h, NEW new,
         s.kind = "BODY" /\ s.pieces = 0 /\ s.own = << >>,
         tls = TRUE => new.there = TRUE, tls = TRUE => new.oss = << >>, tls = FALSE => new = d, tls \in BOOLEAN,
         h \in Seq(Stmts), Len(h) = Len(q),
         \A n \in 1 .. Len(q) : /\ h[n].kind = q[n].kind /\ h[n].id = q[n].id /\ h[n].own = q[n].own
                                /\ h[n].pieces = q[n].pieces
                                /\ tls = TRUE => h[n].nested = TRUE
  PROVE  StackOkay(Append(h, s), new, tls)
<1> DEFINE p == Append(h, s)
<1>1. Len(q) \in Nat /\ Len(h) \in Nat
  BY DEF StackOkay
<1>2. /\ p \in Seq(Stmts) /\ Len(p) = Len(q) + 1
      /\ \A n \in 1 .. Len(p) : (n \in 1 .. Len(q) /\ p[n] = h[n]) \/ (n = Len(p) /\ p[n] = s)
  BY <1>1
<1>. HIDE DEF p
<1>3. ASSUME NEW n \in 1 .. Len(p) PROVE Okay(p[n], new, tls)
  <2>1. CASE n \in 1 .. Len(q) /\ p[n] = h[n]
    <3>1. Okay(q[n], d, tls)
      BY <2>1, Zenon DEF StackOkay
    <3>. QED
      BY <2>1, <3>1, Zenon DEF Okay
  <2>2. CASE p[n] = s
    <3>1. Streamed(s.id, s.pieces) = << >>
      BY DEF Streamed
    <3>. QED
      BY <2>2, <3>1, Zenon DEF Okay
  <2>. QED
    BY <1>2, <2>1, <2>2, Zenon
<1>4. ASSUME NEW n \in 1 .. Len(p), NEW k \in 1 .. Len(p), tls = TRUE, n < k
      PROVE  p[n].nested = TRUE
  <2>1. n # Len(p)
    BY <1>1, <1>2, <1>4
  <2>. QED
    BY <1>2, <1>4, <2>1, Zenon
<1>. QED
  BY <1>2, <1>3, <1>4, Zenon DEF StackOkay, p

\* The innermost statement streams a piece.
LEMMA StackStream ==
  ASSUME NEW q, NEW d, NEW tls \in BOOLEAN, StackOkay(q, d, tls), q # << >>,
         NEW s \in Stmts, NEW new,
         q[Len(q)].kind = "BODY" /\ s.kind = "BODY" /\ s.nested = q[Len(q)].nested,
         Okay(s, new, tls), tls = FALSE => new = d, new.there = d.there
  PROVE  StackOkay([q EXCEPT ![Len(q)] = s], new, tls)
<1> DEFINE p == [q EXCEPT ![Len(q)] = s]
<1>1. q \in Seq(Stmts) /\ Len(q) \in Nat \ {0}
  BY DEF StackOkay
<1>2. /\ p \in Seq(Stmts) /\ Len(p) = Len(q)
      /\ \A n \in 1 .. Len(q) : p[n] = IF n = Len(q) THEN s ELSE q[n]
  BY <1>1
<1>. HIDE DEF p
<1>3. ASSUME NEW n \in 1 .. Len(q) PROVE Okay(p[n], new, tls)
  <2>1. CASE n = Len(q)
    BY <1>2, <2>1, Zenon
  <2>2. CASE n # Len(q)
    <3>1. p[n] = q[n] /\ n < Len(q) /\ Len(q) \in 1 .. Len(q)
      BY <1>1, <1>2, <2>2
    <3>2. Okay(q[n], d, tls) /\ (tls = TRUE /\ q[n].kind = "BODY" => q[n].nested = TRUE)
      BY <3>1, Zenon DEF StackOkay
    <3>3. TRUE # FALSE
      OBVIOUS
    <3>. QED
      BY <3>1, <3>2, <3>3, Zenon DEF Okay
  <2>. QED
    BY <2>1, <2>2, Zenon
<1>4. \A n \in 1 .. Len(q) : p[n].kind = q[n].kind /\ p[n].nested = q[n].nested
  BY <1>1, <1>2
<1>5. \A n, k \in 1 .. Len(q) :
        tls = TRUE /\ n < k /\ p[n].kind = "BODY" /\ p[k].kind = "BODY" => p[n].nested = TRUE
  BY <1>4, Zenon DEF StackOkay
<1>. QED
  BY <1>2, <1>3, <1>5, Zenon DEF StackOkay, p

\* The stream is made, and is as it was.
LEMMA StackSame ==
  ASSUME NEW q, NEW d, NEW tls, StackOkay(q, d, tls), NEW new, new.oss = d.oss, new.there = TRUE
  PROVE  StackOkay(q, new, tls)
  BY Zenon DEF StackOkay, Okay

\* A step of one thread changes its stack and its stream.
LEMMA ThreadStep ==
  ASSUME ThreadsInv, NEW t \in PairOfThreads, NEW q, NEW p,
         stack' = [stack EXCEPT ![t] = q], ptd' = [ptd EXCEPT ![t] = p], UNCHANGED build,
         StackOkay(q, p, build.tls), PtdOkay(p)
  PROVE  ThreadsInv'
<1>1. q \in Seq(Stmts) /\ p \in Ptds
  BY Zenon DEF StackOkay, PtdOkay
<1>2. /\ ptd' \in [PairOfThreads -> Ptds] /\ stack' \in [PairOfThreads -> Seq(Stmts)]
      /\ stack'[t] = q /\ ptd'[t] = p
      /\ \A u \in PairOfThreads : u # t => stack'[u] = stack[u] /\ ptd'[u] = ptd[u]
  BY <1>1 DEF ThreadsInv
<1>3. ASSUME NEW u \in PairOfThreads
      PROVE  StackOkay(stack'[u], ptd'[u], build.tls) /\ PtdOkay(ptd'[u])
  BY <1>2, Zenon DEF ThreadsInv
<1>. QED
  BY <1>2, <1>3, Zenon DEF ThreadsInv

\* The same where the stream stays as it is.
LEMMA StackStep ==
  ASSUME ThreadsInv, NEW t \in PairOfThreads, NEW q,
         stack' = [stack EXCEPT ![t] = q], UNCHANGED <<ptd, build>>,
         StackOkay(q, ptd[t], build.tls)
  PROVE  ThreadsInv'
<1>1. ptd' = [ptd EXCEPT ![t] = ptd[t]]
  BY DEF ThreadsInv
<1>2. PtdOkay(ptd[t])
  BY Zenon DEF ThreadsInv
<1>. QED
  BY <1>1, <1>2, ThreadStep, Zenon

LEMMA PopStep ==
  ASSUME ThreadsInv, NEW t \in PairOfThreads, stack[t] # << >>, LG!Pop(t), UNCHANGED <<ptd, build>>
  PROVE  ThreadsInv'
<1>1. StackOkay(SubSeq(stack[t], 1, Len(stack[t]) - 1), ptd[t], build.tls)
  BY StackPop, Zenon DEF ThreadsInv
<1>2. stack' = [stack EXCEPT ![t] = SubSeq(stack[t], 1, Len(stack[t]) - 1)]
  BY DEF LG!Pop
<1>. QED
  BY <1>1, <1>2, StackStep, Zenon

LEMMA PushStep ==
  ASSUME ThreadsInv, NEW t \in PairOfThreads, NEW s \in Stmts, s.kind # "BODY",
         stack' = [stack EXCEPT ![t] = Append(stack[t], s)], UNCHANGED <<ptd, build>>
  PROVE  ThreadsInv'
<1>1. StackOkay(Append(stack[t], s), ptd[t], build.tls)
  BY StackPush, Zenon DEF ThreadsInv
<1>. QED
  BY <1>1, StackStep, Zenon

LEMMA StatementIs ==
  ASSUME LogInv, NEW k \in {"BODY", "STR", "TRACE"}, NEW ll \in LogLevels \cup {0}
  PROVE  /\ LG!Statement(k, ll) \in Stmts /\ LG!Statement(k, ll).kind = k
         /\ LG!Statement(k, ll).pieces = 0 /\ LG!Statement(k, ll).own = << >>
         /\ LG!Statement(k, ll).nested = FALSE
<1>1. << >> \in Texts
  BY DEF Texts
<1>2. statements + 1 \in Nat
  BY DEF LogInv
<1>. QED
  BY <1>1, <1>2 DEF LG!Statement, Stmts

LEMMA TopIs ==
  ASSUME ThreadsInv, NEW t \in PairOfThreads, stack[t] # << >>
  PROVE  LG!Top(t) \in Stmts /\ Okay(LG!Top(t), ptd[t], build.tls)
  BY StackTop, Zenon DEF ThreadsInv, LG!Top

LEMMA WholeTextIs ==
  ASSUME NEW id \in Nat PROVE LG!WholeText(id) \in Texts
<1>1. <<id, 1>> \in Nat \X Nat /\ <<id, 2>> \in Nat \X Nat
  OBVIOUS
<1>2. ASSUME NEW S, NEW a \in S, NEW b \in S PROVE <<a, b>> \in Seq(S)
  OBVIOUS
<1>. QED
  BY <1>1, <1>2, Zenon DEF LG!WholeText, Texts

\* An event is made on the thread of its statement.
LEMMA EventIs ==
  ASSUME NEW t \in PairOfThreads, NEW s \in Stmts, NEW text \in Texts,
         s.nested = FALSE => text = LG!WholeText(s.id)
  PROVE  LG!Event(t, s, text) \in MadeEvents(t)
<1>1. /\ LG!Event(t, s, text) \in Events
      /\ LG!Event(t, s, text).by = t /\ LG!Event(t, s, text).thread = t
      /\ LG!Event(t, s, text).threadCached = FALSE
      /\ LG!Event(t, s, text).nested = s.nested /\ LG!Event(t, s, text).id = s.id
      /\ LG!Event(t, s, text).text = text
  BY DEF LG!Event, Events, Stmts
<1>. QED
  BY <1>1, Zenon DEF MadeEvents, Whole

LEMMA GatheredIs ==
  ASSUME NEW t \in PairOfThreads, NEW ev \in MadeEvents(t)
  PROVE  LG!Gathered(ev, t) \in QueuedEvents
<1>1. ev \in Events /\ ev.by = t /\ ev.thread = t /\ ev.threadCached = FALSE /\ Whole(ev)
  BY Zenon DEF MadeEvents
<1>2. LG!getThread(ev, t) = t
  BY <1>1 DEF LG!getThread
<1> DEFINE z == LG!Gathered(ev, t)
<1>3. z = [ev EXCEPT !.thread = t, !.threadCached = TRUE]
  BY <1>2, Zenon DEF LG!Gathered
<1>. HIDE DEF z
<1>4. /\ z \in Events /\ z.by = t /\ z.thread = t /\ z.threadCached = TRUE
      /\ z.nested = ev.nested /\ z.text = ev.text /\ z.id = ev.id
  <2>1. ev \in Events
    BY <1>1
  <2>. QED
    BY ONLY <1>1, <1>3, <2>1, t \in PairOfThreads DEF Events
<1>. QED
  BY <1>1, <1>4, Zenon DEF QueuedEvents, Whole, z

\* What is written of an event, on its own thread or on the consumer's.
LEMMA RecordIs ==
  ASSUME NEW u, NEW t, NEW ev,
         \/ ev \in MadeEvents(t) /\ u = t
         \/ ev \in QueuedEvents
  PROVE  [id |-> ev.id, by |-> ev.by, text |-> ev.text, nested |-> ev.nested,
          thread |-> LG!getThread(ev, u)] \in WholeRecords
<1>1. ev \in Events /\ Whole(ev)
  BY Zenon DEF MadeEvents, QueuedEvents
<1>2. LG!getThread(ev, u) = ev.by
  <2>1. CASE ev \in MadeEvents(t) /\ u = t
    BY <2>1 DEF MadeEvents, LG!getThread
  <2>2. CASE ev \in QueuedEvents
    BY <2>2 DEF QueuedEvents, LG!getThread
  <2>. QED
    BY <2>1, <2>2, Zenon
<1> DEFINE z == [id |-> ev.id, by |-> ev.by, text |-> ev.text, nested |-> ev.nested, thread |-> ev.by]
<1>3. /\ z \in Records /\ z.thread = z.by
      /\ z.nested = ev.nested /\ z.text = ev.text /\ z.id = ev.id
  BY <1>1 DEF Events, Records
<1>. HIDE DEF z
<1>4. z \in WholeRecords
  BY <1>1, <1>3, Zenon DEF WholeRecords, Whole
<1>. QED
  BY <1>2, <1>4, Zenon DEF z

\* An event is written or queued.
LEMMA ForcedStep ==
  ASSUME RecordsInv, NEW t \in PairOfThreads, NEW ev \in MadeEvents(t), LG!forcedLog(t, ev)
  PROVE  RecordsInv'
<1>1. CASE LG!append(ev, t) /\ UNCHANGED queue
  <2>1. [id |-> ev.id, by |-> ev.by, text |-> ev.text, nested |-> ev.nested,
         thread |-> LG!getThread(ev, t)] \in WholeRecords
    BY RecordIs, Zenon
  <2>2. last' \in WholeRecords
    BY <1>1, <2>1, Zenon DEF LG!append, RecordsInv
  <2>. QED
    BY <1>1, <2>2, Zenon DEF RecordsInv
<1>2. CASE queue' = Append(queue, LG!Gathered(ev, t)) /\ UNCHANGED last
  <2>1. LG!Gathered(ev, t) \in QueuedEvents
    BY GatheredIs, Zenon
  <2>2. queue' \in Seq(QueuedEvents)
    <3>. HIDE DEF RecordsInv
    <3>1. queue \in Seq(QueuedEvents)
      BY DEF RecordsInv
    <3>. QED
      BY <1>2, <2>1, <3>1, AppendProperties
  <2>. QED
    BY <1>2, <2>2, Zenon DEF RecordsInv
<1>. QED
  BY <1>1, <1>2, Zenon DEF LG!forcedLog

LEMMA ConsumeStep ==
  ASSUME LogInv, LG!Consume PROVE LogInv'
<1> DEFINE ev == Head(queue)
<1>1. queue \in Seq(QueuedEvents) /\ queue # << >> /\ queue' = Tail(queue)
      /\ UNCHANGED <<build, threshold, ptd, stack, device, statements>>
  BY DEF LogInv, RecordsInv, LG!Consume
<1>2. ev \in QueuedEvents /\ queue' \in Seq(QueuedEvents)
  BY <1>1
<1>3. [id |-> ev.id, by |-> ev.by, text |-> ev.text, nested |-> ev.nested,
         thread |-> LG!getThread(ev, Consumer)] \in WholeRecords
  <2>. HIDE DEF ev
  <2>. QED
    BY <1>2, RecordIs, Zenon
<1>4. last' \in WholeRecords
  BY <1>3, Zenon DEF LG!Consume, LG!append, LogInv, RecordsInv
<1>. QED
  BY <1>1, <1>2, <1>4, Zenon DEF LogInv, ThreadsInv, RecordsInv

\* The ends of statements, and the trace statements.
LEMMA EndMacroBodyStep ==
  ASSUME LogInv, NEW t \in PairOfThreads, LG!EndMacroBody(t) PROVE LogInv'
<1> DEFINE s == LG!Top(t)
           text == IF build.tls THEN ptd[t].oss ELSE s.own
<1>1. /\ stack[t] # << >> /\ s.kind = "BODY" /\ s.pieces = 2
      /\ LG!forcedLog(t, LG!Event(t, s, text)) /\ LG!Pop(t)
      /\ UNCHANGED <<build, threshold, ptd, device, statements>>
  BY Zenon DEF LG!EndMacroBody
<1>2. ThreadsInv /\ RecordsInv /\ statements \in Nat
  BY DEF LogInv
<1>3. s \in Stmts /\ Okay(s, ptd[t], build.tls)
  BY <1>1, <1>2, TopIs, Zenon
<1>4. text \in Texts
  BY <1>2, <1>3 DEF ThreadsInv, Ptds, Stmts
<1>5. s.nested = FALSE => text = LG!WholeText(s.id)
  <2>1. build.tls = TRUE \/ build.tls = FALSE
    BY <1>2 DEF ThreadsInv
  <2>2. CASE build.tls = TRUE
    BY <1>1, <1>3, <2>2, StreamedWhole, Zenon DEF Okay
  <2>3. CASE build.tls = FALSE
    BY <1>1, <1>3, <2>3, StreamedWhole, Zenon DEF Okay
  <2>. QED
    BY <2>1, <2>2, <2>3, Zenon
<1>. HIDE DEF s, text
<1>6. LG!Event(t, s, text) \in MadeEvents(t)
  BY <1>3, <1>4, <1>5, EventIs, Zenon
<1>7. RecordsInv'
  BY <1>1, <1>2, <1>6, ForcedStep, Zenon
<1>8. ThreadsInv'
  BY <1>1, <1>2, PopStep, Zenon
<1>. QED
  BY <1>1, <1>2, <1>7, <1>8, Zenon DEF LogInv

LEMMA EndMacroStrBodyStep ==
  ASSUME LogInv, NEW t \in PairOfThreads, LG!EndMacroStrBody(t) PROVE LogInv'
<1> DEFINE s == LG!Top(t)
<1>1. /\ stack[t] # << >> /\ LG!forcedLog(t, LG!Event(t, s, LG!WholeText(s.id))) /\ LG!Pop(t)
      /\ UNCHANGED <<build, threshold, ptd, device, statements>>
  BY Zenon DEF LG!EndMacroStrBody
<1>2. ThreadsInv /\ RecordsInv /\ statements \in Nat
  BY DEF LogInv
<1>3. s \in Stmts
  BY <1>1, <1>2, TopIs, Zenon
<1>. HIDE DEF s
<1>4. LG!WholeText(s.id) \in Texts
  <2>1. s.id \in Nat
    BY <1>3 DEF Stmts
  <2>. QED
    BY <2>1, WholeTextIs, Zenon
<1>6. LG!Event(t, s, LG!WholeText(s.id)) \in MadeEvents(t)
  BY <1>3, <1>4, EventIs, Zenon
<1>7. RecordsInv'
  BY <1>1, <1>2, <1>6, ForcedStep, Zenon
<1>8. ThreadsInv'
  BY <1>1, <1>2, PopStep, Zenon
<1>. QED
  BY <1>1, <1>2, <1>7, <1>8, Zenon DEF LogInv

\* A trace statement logs, if it does, a text of its own.
LEMMA TraceIfStep ==
  ASSUME RecordsInv, NEW t \in PairOfThreads, NEW s \in Stmts, LG!TraceIf(t, s) PROVE RecordsInv'
<1>1. LG!WholeText(s.id) \in Texts
  <2>1. s.id \in Nat
    BY DEF Stmts
  <2>. QED
    BY <2>1, WholeTextIs, Zenon
<1>2. LG!Event(t, s, LG!WholeText(s.id)) \in MadeEvents(t)
  BY <1>1, EventIs, Zenon
<1>3. CASE LG!forcedLog(t, LG!Event(t, s, LG!WholeText(s.id)))
  BY <1>2, <1>3, ForcedStep, Zenon
<1>4. CASE UNCHANGED <<queue, last>>
  BY <1>4, Zenon DEF RecordsInv
<1>. QED
  BY <1>3, <1>4, Zenon DEF LG!TraceIf

LEMMA TraceLoggerStep ==
  ASSUME LogInv, NEW t \in PairOfThreads, LG!TraceLogger(t) PROVE LogInv'
<1> DEFINE s == LG!Statement("TRACE", 0)
<1>1. /\ LG!TraceIf(t, s) /\ stack' = [stack EXCEPT ![t] = Append(stack[t], s)]
      /\ UNCHANGED <<build, threshold, ptd, device>> /\ statements' = statements + 1
  BY DEF LG!TraceLogger, LG!CanStart
<1>2. ThreadsInv /\ RecordsInv /\ statements \in Nat
  BY DEF LogInv
<1>3. s \in Stmts /\ s.kind # "BODY"
  <2>1. 0 \in LogLevels \cup {0} /\ "TRACE" # "BODY"
    OBVIOUS
  <2>. QED
    BY <2>1, StatementIs, Zenon
<1>. HIDE DEF s
<1>4. RecordsInv'
  BY <1>1, <1>2, <1>3, TraceIfStep, Zenon
<1>5. ThreadsInv'
  BY <1>1, <1>2, <1>3, PushStep, Zenon
<1>6. statements' \in Nat
  BY <1>1, <1>2
<1>. QED
  BY <1>4, <1>5, <1>6, Zenon DEF LogInv

LEMMA TraceLoggerDtorStep ==
  ASSUME LogInv, NEW t \in PairOfThreads, LG!TraceLoggerDtor(t) PROVE LogInv'
<1> DEFINE s == LG!Top(t)
<1>1. /\ stack[t] # << >> /\ LG!TraceIf(t, s) /\ LG!Pop(t)
      /\ UNCHANGED <<build, threshold, ptd, device, statements>>
  BY Zenon DEF LG!TraceLoggerDtor
<1>2. ThreadsInv /\ RecordsInv /\ statements \in Nat
  BY DEF LogInv
<1>3. s \in Stmts
  BY <1>1, <1>2, TopIs, Zenon
<1>. HIDE DEF s
<1>4. RecordsInv'
  BY <1>1, <1>2, <1>3, TraceIfStep, Zenon
<1>5. ThreadsInv'
  BY <1>1, <1>2, PopStep, Zenon
<1>. QED
  BY <1>1, <1>2, <1>4, <1>5, Zenon DEF LogInv

\* The starts of statements.
LEMMA MacroStrBodyStep ==
  ASSUME LogInv, NEW t \in PairOfThreads, NEW ll \in LogLevels, LG!MacroStrBody(t, ll) PROVE LogInv'
<1> DEFINE s == LG!Statement("STR", ll)
<1>1. /\ stack' = [stack EXCEPT ![t] = Append(stack[t], s)]
      /\ UNCHANGED <<build, threshold, ptd, queue, device, last>> /\ statements' = statements + 1
  BY DEF LG!MacroStrBody, LG!CanStart
<1>2. ThreadsInv /\ RecordsInv /\ statements \in Nat
  BY DEF LogInv
<1>3. s \in Stmts /\ s.kind # "BODY"
  <2>1. ll \in LogLevels \cup {0} /\ "STR" # "BODY"
    OBVIOUS
  <2>. QED
    BY <2>1, StatementIs, Zenon
<1>. HIDE DEF s
<1>5. ThreadsInv'
  BY <1>1, <1>2, <1>3, PushStep, Zenon
<1>6. statements' \in Nat
  BY <1>1, <1>2
<1>. QED
  BY <1>1, <1>2, <1>5, <1>6, Zenon DEF LogInv, RecordsInv

\* get_ptd changes nothing in the stream.
LEMMA GetPtdIs ==
  ASSUME ThreadsInv, NEW t \in PairOfThreads
  PROVE  PtdOkay(LG!get_ptd(t)) /\ LG!get_ptd(t).oss = ptd[t].oss /\ LG!get_ptd(t).there = TRUE
<1>1. PtdOkay(ptd[t]) /\ ptd[t].there \in BOOLEAN
  BY DEF ThreadsInv, Ptds
<1>2. CASE ptd[t].there = TRUE
  BY <1>1, <1>2, Zenon DEF LG!get_ptd, LG!tls_get_value
<1>3. CASE ptd[t].there = FALSE
  <2>1. LG!get_ptd(t) = LG!NewPtd /\ ptd[t].oss = << >>
    BY <1>1, <1>3, Zenon DEF LG!get_ptd, LG!tls_get_value, PtdOkay
  <2>2. LG!NewPtd.oss = << >> /\ LG!NewPtd.there = TRUE /\ PtdOkay(LG!NewPtd)
    BY DEF LG!NewPtd, PtdOkay, Ptds, Texts
  <2>. QED
    BY <2>1, <2>2, Zenon
<1>. QED
  BY <1>1, <1>2, <1>3, Zenon

LEMMA MacroFmtBodyStep ==
  ASSUME LogInv, NEW t \in PairOfThreads, NEW ll \in LogLevels, LG!MacroFmtBody(t, ll) PROVE LogInv'
<1> DEFINE s == LG!Statement("STR", ll)
           p == LG!get_ptd(t)
<1>1. /\ stack' = [stack EXCEPT ![t] = Append(stack[t], s)] /\ ptd' = [ptd EXCEPT ![t] = p]
      /\ UNCHANGED <<build, threshold, queue, device, last>> /\ statements' = statements + 1
  BY DEF LG!MacroFmtBody, LG!CanStart, LG!set_ptd, LG!tls_set_value
<1>2. ThreadsInv /\ RecordsInv /\ statements \in Nat
  BY DEF LogInv
<1>3. s \in Stmts /\ s.kind # "BODY"
  <2>1. ll \in LogLevels \cup {0} /\ "STR" # "BODY"
    OBVIOUS
  <2>. QED
    BY <2>1, StatementIs, Zenon
<1>4. PtdOkay(p) /\ p.oss = ptd[t].oss /\ p.there = TRUE
  BY <1>2, GetPtdIs, Zenon
<1>. HIDE DEF s, p
<1>5. StackOkay(Append(stack[t], s), p, build.tls)
  <2>1. StackOkay(stack[t], p, build.tls)
    BY <1>2, <1>4, StackSame, Zenon DEF ThreadsInv
  <2>. QED
    BY <1>3, <2>1, StackPush, Zenon
<1>6. ThreadsInv'
  BY <1>1, <1>2, <1>4, <1>5, ThreadStep, Zenon
<1>7. statements' \in Nat
  BY <1>1, <1>2
<1>. QED
  BY <1>1, <1>2, <1>6, <1>7, Zenon DEF LogInv, RecordsInv

\* The statements around one that starts on the thread's stream.
LEMMA InterruptedIs ==
  ASSUME ThreadsInv, NEW t \in PairOfThreads, NEW h, h = LG!Interrupted(t, "BODY")
  PROVE  /\ h \in Seq(Stmts) /\ Len(h) = Len(stack[t])
         /\ \A n \in 1 .. Len(stack[t]) :
              /\ h[n].kind = stack[t][n].kind /\ h[n].id = stack[t][n].id
              /\ h[n].own = stack[t][n].own /\ h[n].pieces = stack[t][n].pieces
              /\ build.tls = TRUE => h[n].nested = TRUE
<1> DEFINE q == stack[t]
           b == build.tls
<1>1. q \in Seq(Stmts) /\ Len(q) \in Nat /\ b \in BOOLEAN
  BY DEF ThreadsInv
<1>2. h = [n \in 1 .. Len(q) |-> [q[n] EXCEPT !.nested = @ \/ b]]
  BY DEF LG!Interrupted
<1>. HIDE DEF q, b
<1>3. \A n \in 1 .. Len(q) : q[n] \in Stmts
  BY <1>1
<1>4. \A n \in 1 .. Len(q) : h[n] = [q[n] EXCEPT !.nested = q[n].nested \/ b]
  BY <1>2, <1>3, Zenon
<1>5. ASSUME NEW n \in 1 .. Len(q)
      PROVE  /\ h[n] \in Stmts /\ h[n].kind = q[n].kind /\ h[n].id = q[n].id
             /\ h[n].own = q[n].own /\ h[n].pieces = q[n].pieces
             /\ b = TRUE => h[n].nested = TRUE
  <2> DEFINE z == q[n]
             y == h[n]
             c == z.nested \/ b
  <2>1. c \in BOOLEAN /\ (b = TRUE => c = TRUE)
    BY <1>1, Zenon
  <2>2. z \in Stmts /\ y = [z EXCEPT !.nested = c]
    BY <1>3, <1>4, Zenon
  <2>. HIDE DEF z, y, c
  <2>3. y \in Stmts /\ y.kind = z.kind /\ y.id = z.id /\ y.own = z.own /\ y.pieces = z.pieces /\ y.nested = c
    BY ONLY <2>1, <2>2 DEF Stmts
  <2>. QED
    BY <2>1, <2>3, Zenon DEF z, y
<1>6. h \in Seq(Stmts) /\ Len(h) = Len(q)
  <2>1. DOMAIN h = 1 .. Len(q)
    BY <1>2, Zenon
  <2>2. h \in [1 .. Len(q) -> Stmts]
    BY <1>2, <1>5, <2>1, Zenon
  <2>. QED
    BY <1>1, <2>2
<1>. QED
  BY <1>5, <1>6, Zenon DEF q, b

LEMMA MacroBodyStep ==
  ASSUME LogInv, NEW t \in PairOfThreads, NEW ll \in LogLevels, LG!MacroBody(t, ll) PROVE LogInv'
<1> DEFINE s == LG!Statement("BODY", ll)
           g == LG!get_ptd(t)
           h == LG!Interrupted(t, "BODY")
<1>1. /\ stack' = [stack EXCEPT ![t] = Append(h, s)]
      /\ build.tls = TRUE => ptd' = [ptd EXCEPT ![t] = [g EXCEPT !.oss = << >>]]
      /\ build.tls = FALSE => ptd' = ptd
      /\ UNCHANGED <<build, threshold, queue, device, last>> /\ statements' = statements + 1
  BY Zenon DEF LG!MacroBody, LG!CanStart, LG!set_ptd, LG!tls_set_value, LG!EmptiedOss
<1>2. ThreadsInv /\ RecordsInv /\ statements \in Nat
  BY DEF LogInv
<1>3. s \in Stmts /\ s.kind = "BODY" /\ s.pieces = 0 /\ s.own = << >>
  <2>1. ll \in LogLevels \cup {0}
    OBVIOUS
  <2>. QED
    BY <2>1, StatementIs, Zenon
<1>4. PtdOkay(g) /\ g.there = TRUE
  BY <1>2, GetPtdIs, Zenon
<1>5. /\ h \in Seq(Stmts) /\ Len(h) = Len(stack[t])
      /\ \A n \in 1 .. Len(stack[t]) :
              /\ h[n].kind = stack[t][n].kind /\ h[n].id = stack[t][n].id
              /\ h[n].own = stack[t][n].own /\ h[n].pieces = stack[t][n].pieces
              /\ build.tls = TRUE => h[n].nested = TRUE
  BY <1>2, InterruptedIs, Zenon
<1>6. build.tls \in BOOLEAN /\ StackOkay(stack[t], ptd[t], build.tls) /\ PtdOkay(ptd[t])
  BY <1>2, Zenon DEF ThreadsInv
<1>. HIDE DEF s, g, h
<1>7. ASSUME build.tls = TRUE PROVE ThreadsInv'
  <2> DEFINE p == [g EXCEPT !.oss = << >>]
  <2>1. PtdOkay(p) /\ p.oss = << >> /\ p.there = TRUE
    <3>1. g \in Ptds /\ g.there = TRUE /\ << >> \in Texts
      BY <1>4 DEF PtdOkay, Texts
    <3>. QED
      BY ONLY <3>1 DEF PtdOkay, Ptds
  <2>2. ptd' = [ptd EXCEPT ![t] = p]
    BY <1>1, <1>7, Zenon
  <2>. HIDE DEF p
  <2>3. build.tls = FALSE => p = ptd[t]
    BY <1>7
  <2>4. StackOkay(Append(h, s), p, build.tls)
    BY <1>3, <1>5, <1>6, <2>1, <2>3, StackBody, Zenon
  <2>. QED
    BY <1>1, <1>2, <2>1, <2>2, <2>4, ThreadStep, Zenon
<1>8. ASSUME build.tls = FALSE PROVE ThreadsInv'
  <2>1. build.tls # TRUE
    BY <1>8
  <2>2. StackOkay(Append(h, s), ptd[t], build.tls)
    BY <1>3, <1>5, <1>6, <2>1, StackBody, Zenon
  <2>. QED
    BY <1>1, <1>2, <1>8, <2>2, StackStep, Zenon
<1>9. ThreadsInv'
  BY <1>6, <1>7, <1>8, Zenon
<1>10. statements' \in Nat
  BY <1>1, <1>2
<1>. QED
  BY <1>1, <1>2, <1>9, <1>10, Zenon DEF LogInv, RecordsInv

\* The innermost statement streams a piece, into the thread's stream or its own.
LEMMA StreamStep ==
  ASSUME LogInv, NEW t \in PairOfThreads, LG!Stream(t) PROVE LogInv'
<1> DEFINE s == LG!Top(t)
           q == stack[t]
           b == build.tls
           d == ptd[t]
           oss == d.oss
           piece == <<s.id, s.pieces + 1>>
<1>1. /\ q # << >> /\ s.kind = "BODY" /\ s.pieces < 2
      /\ UNCHANGED <<build, threshold, queue, device, last, statements>>
  BY DEF LG!Stream
<1>2. ThreadsInv /\ RecordsInv /\ statements \in Nat
  BY DEF LogInv
<1>3. /\ s \in Stmts /\ Okay(s, d, b) /\ b \in BOOLEAN /\ StackOkay(q, d, b) /\ s = q[Len(q)]
      /\ d \in Ptds /\ oss = d.oss /\ oss \in Texts
  BY <1>1, <1>2, TopIs DEF ThreadsInv, LG!Top, Ptds
<1>4. s.pieces \in 0 .. 1 /\ s.id \in Nat /\ s.own \in Texts
  BY <1>1, <1>3 DEF Stmts
<1>5. Append(Streamed(s.id, s.pieces), piece) = Streamed(s.id, s.pieces + 1)
  BY <1>4, NextPiece, Zenon
<1>6. piece \in Nat \X Nat /\ s.pieces + 1 \in 0 .. 2
  BY <1>4
<1>7. /\ b = TRUE => /\ ptd' = [ptd EXCEPT ![t] = [d EXCEPT !.oss = Append(oss, piece)]]
                     /\ stack' = [stack EXCEPT ![t] = [q EXCEPT ![Len(q)] = [s EXCEPT !.pieces = s.pieces + 1]]]
      /\ b = FALSE => /\ UNCHANGED ptd
                      /\ stack' = [stack EXCEPT ![t] = [q EXCEPT ![Len(q)] =
                                      [s EXCEPT !.pieces = s.pieces + 1, !.own = Append(s.own, piece)]]]
  BY DEF LG!Stream, LG!SetTop, LG!set_ptd, LG!tls_set_value
<1>. HIDE DEF s, q, b, d, oss, piece
<1>8. ASSUME b = TRUE PROVE ThreadsInv'
  <2> DEFINE p == [d EXCEPT !.oss = Append(oss, piece)]
             y == [s EXCEPT !.pieces = s.pieces + 1]
  <2>1. Append(oss, piece) \in Texts
    BY <1>3, <1>6, AppendProperties DEF Texts
  <2>2. y \in Stmts /\ y.kind = s.kind /\ y.nested = s.nested /\ y.id = s.id /\ y.pieces = s.pieces + 1
    BY ONLY <1>3, <1>6 DEF Stmts
  <2>3. p \in Ptds /\ p.oss = Append(oss, piece) /\ p.there = d.there
    BY ONLY <1>3, <2>1 DEF Ptds
  <2>4. ptd' = [ptd EXCEPT ![t] = p] /\ stack' = [stack EXCEPT ![t] = [q EXCEPT ![Len(q)] = y]]
    BY <1>7, <1>8, Zenon
  <2>. HIDE DEF p, y
  <2>5. TRUE # FALSE
    OBVIOUS
  <2>6. Okay(y, p, b)
    BY <1>1, <1>3, <1>5, <1>8, <2>2, <2>3, <2>5, Zenon DEF Okay
  <2>7. StackOkay([q EXCEPT ![Len(q)] = y], p, b)
    <3>1. /\ q[Len(q)].kind = "BODY" /\ y.kind = "BODY" /\ y.nested = q[Len(q)].nested
          /\ (b = FALSE => p = d)
      BY <1>1, <1>3, <1>8, <2>2, <2>5, Zenon
    <3>. QED
      BY <1>1, <1>3, <2>2, <2>3, <2>6, <3>1, StackStream, Zenon
  <2>8. PtdOkay(p)
    BY <1>1, <1>3, <1>8, <2>3, <2>5, Zenon DEF PtdOkay, Okay
  <2>. QED
    BY <1>1, <1>2, <2>4, <2>7, <2>8, ThreadStep, Zenon DEF b
<1>9. ASSUME b = FALSE PROVE ThreadsInv'
  <2> DEFINE y == [s EXCEPT !.pieces = s.pieces + 1, !.own = Append(s.own, piece)]
  <2>1. Append(s.own, piece) \in Texts
    BY <1>4, <1>6, AppendProperties DEF Texts
  <2>2. /\ y \in Stmts /\ y.kind = s.kind /\ y.nested = s.nested /\ y.id = s.id /\ y.pieces = s.pieces + 1
        /\ y.own = Append(s.own, piece)
    BY ONLY <1>3, <1>6, <2>1 DEF Stmts
  <2>4. UNCHANGED ptd /\ stack' = [stack EXCEPT ![t] = [q EXCEPT ![Len(q)] = y]]
    BY <1>7, <1>9, Zenon
  <2>. HIDE DEF y
  <2>5. TRUE # FALSE
    OBVIOUS
  <2>6. Okay(y, d, b)
    BY <1>1, <1>3, <1>5, <1>9, <2>2, <2>5, Zenon DEF Okay
  <2>7. StackOkay([q EXCEPT ![Len(q)] = y], d, b)
    <3>1. q[Len(q)].kind = "BODY" /\ y.kind = "BODY" /\ y.nested = q[Len(q)].nested
      BY <1>1, <1>3, <2>2, Zenon
    <3>. QED
      BY <1>1, <1>3, <2>2, <2>6, <3>1, StackStream, Zenon
  <2>. QED
    BY <1>1, <1>2, <2>4, <2>7, StackStep, Zenon DEF b, d
<1>. QED
  BY <1>1, <1>2, <1>3, <1>8, <1>9, Zenon DEF LogInv, RecordsInv

\* Logging: for any threads, however statements nest and interleave and from
\* whichever thread a record is written, it is the whole text of one statement
\* under the name of the thread that executed it; the text only unless operands of
\* the statement logged through the same stream.
THEOREM RecordsAreWholeAlways ==
  LG!Spec => []RecordsAreWhole
<1>1. LG!Init => LogInv
  <2> SUFFICES ASSUME LG!Init PROVE LogInv
    OBVIOUS
  <2>1. build.tls \in BOOLEAN /\ statements \in Nat
    BY DEF LG!Init, LG!Builds
  <2>2. PtdOkay(LG!NoPtd)
    BY DEF LG!NoPtd, PtdOkay, Ptds, Texts
  <2>3. << >> \in Seq(Stmts) /\ Len(<< >>) = 0 /\ << >> \in Seq(QueuedEvents) /\ << >> \in Texts
    BY DEF Texts
  <2>4. ASSUME NEW d, NEW tls PROVE StackOkay(<< >>, d, tls)
    BY <2>3 DEF StackOkay
  <2>5. ThreadsInv
    <3>1. ptd = [t \in PairOfThreads |-> LG!NoPtd] /\ stack = [t \in PairOfThreads |-> << >>]
      BY Zenon DEF LG!Init
    <3>2. /\ ptd \in [PairOfThreads -> Ptds] /\ stack \in [PairOfThreads -> Seq(Stmts)]
          /\ \A t \in PairOfThreads : stack[t] = << >> /\ ptd[t] = LG!NoPtd
      BY <2>2, <2>3, <3>1, Zenon DEF PtdOkay
    <3>. QED
      BY <2>1, <2>2, <2>4, <3>2, Zenon DEF ThreadsInv
  <2>6. RecordsInv
    <3>1. queue = << >> /\ last = LG!NoRecord
      BY Zenon DEF LG!Init
    <3>2. LG!NoRecord \in Records /\ LG!NoRecord.id = 0 /\ LG!NoRecord.thread = LG!NoRecord.by
      BY <2>3 DEF LG!NoRecord, Records
    <3>. QED
      BY <2>3, <3>1, <3>2, Zenon DEF RecordsInv, WholeRecords
  <2>. QED
    BY <2>1, <2>5, <2>6, Zenon DEF LogInv
<1>2. LogInv /\ [LG!Next]_(LG!vars) => LogInv'
  <2> SUFFICES ASSUME LogInv, [LG!Next]_(LG!vars) PROVE LogInv'
    OBVIOUS
  <2>1. CASE UNCHANGED LG!vars
    BY <2>1, Zenon DEF LG!vars, LogInv, ThreadsInv, RecordsInv
  <2>2. CASE LG!close
    BY <2>2, Zenon DEF LG!close, LogInv, ThreadsInv, RecordsInv
  <2>3. ASSUME NEW ll \in LogLevels, LG!setLogLevel(ll) PROVE LogInv'
    BY <2>3, Zenon DEF LG!setLogLevel, LogInv, ThreadsInv, RecordsInv
  <2>4. ASSUME NEW t \in PairOfThreads, NEW ll \in LogLevels, LG!Skip(t, ll) PROVE LogInv'
    <3>1. UNCHANGED <<build, ptd, stack, queue, last>> /\ statements' = statements + 1 /\ statements \in Nat
      BY <2>4 DEF LG!Skip, LG!CanStart, LogInv
    <3>2. statements' \in Nat
      BY <3>1
    <3>. QED
      BY <3>1, <3>2, Zenon DEF LogInv, ThreadsInv, RecordsInv
  <2>5. ASSUME NEW t \in PairOfThreads, LG!ThreadEnds(t) PROVE LogInv'
    <3> DEFINE p == LG!NoPtd
    <3>1. /\ stack[t] = << >> /\ ptd' = [ptd EXCEPT ![t] = p]
          /\ UNCHANGED <<build, threshold, stack, queue, device, last, statements>>
      BY <2>5 DEF LG!ThreadEnds, LG!set_ptd, LG!tls_set_value
    <3>2. PtdOkay(p)
      BY DEF LG!NoPtd, PtdOkay, Ptds, Texts
    <3>3. StackOkay(<< >>, p, build.tls)
      <4>1. << >> \in Seq(Stmts) /\ Len(<< >>) = 0
        OBVIOUS
      <4>. HIDE DEF p
      <4>. QED
        BY <4>1 DEF StackOkay
    <3>4. stack' = [stack EXCEPT ![t] = << >>]
      BY <3>1 DEF LogInv, ThreadsInv
    <3>. HIDE DEF p
    <3>5. ThreadsInv'
      BY <3>1, <3>2, <3>3, <3>4, ThreadStep, Zenon DEF LogInv
    <3>. QED
      BY <3>1, <3>5, Zenon DEF LogInv, RecordsInv
  <2>. QED
    BY <2>1, <2>2, <2>3, <2>4, <2>5, ConsumeStep, StreamStep, EndMacroBodyStep, EndMacroStrBodyStep,
       TraceLoggerStep, TraceLoggerDtorStep, MacroBodyStep, MacroStrBodyStep, MacroFmtBodyStep, Zenon
       DEF LG!Next
<1>3. LogInv => RecordsAreWhole
  <2> SUFFICES ASSUME LogInv PROVE RecordsAreWhole
    OBVIOUS
  <2>1. last \in Records /\ last.thread = last.by /\ (last.id # 0 => Whole(last))
    BY Zenon DEF LogInv, RecordsInv, WholeRecords
  <2>2. ~ last.nested => last.nested = FALSE
    BY <2>1 DEF Records
  <2>. QED
    BY <2>1, <2>2, Zenon DEF RecordsAreWhole, LG!RecordsAreWhole, Whole
<1>. QED
  BY <1>1, <1>2, <1>3, PTL DEF LG!Spec
===============================================================================
