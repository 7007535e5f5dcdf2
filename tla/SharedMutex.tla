---------------------------- MODULE SharedMutex ----------------------------
(***************************************************************************)
(* log4cplus::thread::SharedMutex: the algorithm of Courtois, Heymans and  *)
(* Parnas over three mutexes and two semaphores (pmsm), or the lock of the *)
(* system (a pthread_rwlock_t or an SRWLOCK).  Threads lock and unlock it  *)
(* through SyncGuardFunc.  Semaphore::lock may throw, and what a function  *)
(* holds then is given back by its guards, one after the other.            *)
(***************************************************************************)
EXTENDS Integers, Sequences, FiniteSets

CONSTANTS
  Threads,
  NoThread,
  MaxReaders,    \* read locks a pthread_rwlock_t allows
  MaxThrows      \* bound: system calls that fail

VARIABLES
  impl,          \* "pmsm", "rwlock" (pthreads) or "srw" (win32)
  m,             \* owners of m1, m2 and m3
  w, r,          \* the counts of the two semaphores
  writer_count, reader_count,
  pc,            \* where each thread is
  unwind,        \* what each thread's guards have still to unlock
  throws,        \* system calls that failed
  leaked         \* history: a wrlock that threw left r locked

vars == <<impl, m, w, r, writer_count, reader_count, pc, unwind, throws, leaked>>

Mutexes == {"m1", "m2", "m3"}
sems   == <<w, r>>
counts == <<writer_count, reader_count>>

Init ==
  /\ impl \in {"pmsm", "rwlock", "srw"}
  /\ m = [i \in Mutexes |-> NoThread]
  /\ w = 1 /\ r = 1
  /\ writer_count = 0 /\ reader_count = 0
  /\ pc = [t \in Threads |-> "idle"]
  /\ unwind = [t \in Threads |-> << >>]
  /\ throws = 0
  /\ leaked = FALSE

At(t, step) == pc[t] = step /\ unwind[t] = << >>

\* Go on at step once the guards named in locks have been destroyed.
Then(t, step, locks) ==
  /\ pc' = [pc EXCEPT ![t] = step]
  /\ unwind' = [unwind EXCEPT ![t] = locks]

Throw == throws < MaxThrows /\ throws' = throws + 1

\* MutexGuard.
TakeMutex(t, i) == m[i] = NoThread /\ m' = [m EXCEPT ![i] = t]

\* ~MutexGuard and ~SemaphoreGuard.
Unwind(t) ==
  /\ unwind[t] # << >>
  /\ LET l == Head(unwind[t]) IN
     IF l = "r" THEN r' = r + 1 /\ UNCHANGED m
     ELSE m' = [m EXCEPT ![l] = NoThread] /\ UNCHANGED r
  /\ unwind' = [unwind EXCEPT ![t] = Tail(@)]
  /\ UNCHANGED <<impl, w, counts, pc, throws, leaked>>

-----------------------------------------------------------------------------
(* rdlock and rdunlock.                                                    *)

ReaderGuard(t) ==
  /\ At(t, "idle") /\ Then(t, IF impl = "pmsm" THEN "rd_m3" ELSE "rd_native", << >>)
  /\ UNCHANGED <<impl, m, sems, counts, throws, leaked>>

RdM3(t) ==
  /\ At(t, "rd_m3") /\ TakeMutex(t, "m3") /\ Then(t, "rd_r", << >>)
  /\ UNCHANGED <<impl, sems, counts, throws, leaked>>

RdR(t) ==
  /\ At(t, "rd_r")
  /\ \/ r > 0 /\ r' = r - 1 /\ Then(t, "rd_m1", << >>) /\ UNCHANGED throws
     \/ Throw /\ Then(t, "idle", <<"m3">>) /\ UNCHANGED r
  /\ UNCHANGED <<impl, m, w, counts, leaked>>

RdM1(t) ==
  /\ At(t, "rd_m1") /\ TakeMutex(t, "m1") /\ Then(t, "rd_w", << >>)
  /\ UNCHANGED <<impl, sems, counts, throws, leaked>>

FirstReader_OffByOne == reader_count = 1
FirstReader == reader_count + 1 = 1

RdW(t) ==
  /\ At(t, "rd_w")
  /\ \/ /\ FirstReader => w > 0
        /\ w' = IF FirstReader THEN w - 1 ELSE w
        /\ reader_count' = reader_count + 1
        /\ Then(t, "reading", <<"m1", "r", "m3">>)
        /\ UNCHANGED throws
     \/ /\ FirstReader /\ Throw
        /\ Then(t, "idle", <<"m1", "r", "m3">>)
        /\ UNCHANGED <<w, reader_count>>
  /\ UNCHANGED <<impl, m, r, writer_count, leaked>>

RuM1(t) ==
  /\ At(t, "reading") /\ impl = "pmsm" /\ TakeMutex(t, "m1") /\ Then(t, "ru", << >>)
  /\ UNCHANGED <<impl, sems, counts, throws, leaked>>

Ru(t) ==
  /\ At(t, "ru")
  /\ w' = IF reader_count - 1 = 0 THEN w + 1 ELSE w
  /\ reader_count' = reader_count - 1
  /\ Then(t, "idle", <<"m1">>)
  /\ UNCHANGED <<impl, m, r, writer_count, throws, leaked>>

-----------------------------------------------------------------------------
(* wrlock and wrunlock.                                                    *)

WriterGuard(t) ==
  /\ At(t, "idle") /\ Then(t, IF impl = "pmsm" THEN "wr_m2" ELSE "wr_native", << >>)
  /\ UNCHANGED <<impl, m, sems, counts, throws, leaked>>

WrM2(t) ==
  /\ At(t, "wr_m2") /\ TakeMutex(t, "m2") /\ Then(t, "wr_r", << >>)
  /\ UNCHANGED <<impl, sems, counts, throws, leaked>>

FirstWriter == writer_count + 1 = 1

WrR(t) ==
  /\ At(t, "wr_r")
  /\ \/ /\ FirstWriter => r > 0
        /\ r' = IF FirstWriter THEN r - 1 ELSE r
        /\ writer_count' = writer_count + 1
        /\ Then(t, "wr_w", <<"m2">>)
        /\ UNCHANGED throws
     \/ /\ FirstWriter /\ Throw
        /\ Then(t, "idle", <<"m2">>)
        /\ UNCHANGED <<r, writer_count>>
  /\ UNCHANGED <<impl, m, w, reader_count, leaked>>

WrW(t) ==
  /\ At(t, "wr_w")
  /\ \/ w > 0 /\ w' = w - 1 /\ Then(t, "writing", << >>) /\ UNCHANGED throws
     \/ Throw /\ Then(t, "wr_catch", << >>) /\ UNCHANGED w
  /\ UNCHANGED <<impl, m, r, counts, leaked>>

\* catch (...): the count goes back, r stays as it is.
WrCatch(t) ==
  /\ At(t, "wr_catch") /\ TakeMutex(t, "m2")
  /\ writer_count' = writer_count - 1
  /\ leaked' = (leaked \/ writer_count = 1)
  /\ Then(t, "idle", <<"m2">>)
  /\ UNCHANGED <<impl, sems, reader_count, throws>>

WuW(t) ==
  /\ At(t, "writing") /\ impl = "pmsm"
  /\ w' = w + 1
  /\ Then(t, "wu_m2", << >>)
  /\ UNCHANGED <<impl, m, r, counts, throws, leaked>>

LastWriter_Never == FALSE
LastWriter == writer_count - 1 = 0

WuM2(t) ==
  /\ At(t, "wu_m2") /\ TakeMutex(t, "m2")
  /\ r' = IF LastWriter THEN r + 1 ELSE r
  /\ writer_count' = writer_count - 1
  /\ Then(t, "idle", <<"m2">>)
  /\ UNCHANGED <<impl, w, reader_count, throws, leaked>>

-----------------------------------------------------------------------------
(* The locks of the system.                                                *)

Readers == {t \in Threads : pc[t] \in {"reading", "ru"}}
Writers == {t \in Threads : pc[t] = "writing"}

\* pthread_rwlock_rdlock (retried while it says EAGAIN), AcquireSRWLockShared.
RdNative(t) ==
  /\ At(t, "rd_native") /\ Writers = {}
  /\ impl = "rwlock" => Cardinality(Readers) < MaxReaders
  /\ Then(t, "reading", << >>)
  /\ UNCHANGED <<impl, m, sems, counts, throws, leaked>>

\* pthread_rwlock_wrlock, AcquireSRWLockExclusive.
WrNative(t) ==
  /\ At(t, "wr_native") /\ Writers = {} /\ Readers = {}
  /\ Then(t, "writing", << >>)
  /\ UNCHANGED <<impl, m, sems, counts, throws, leaked>>

\* Of the three, only a pthread_rwlock_t may fail.
NativeThrows(t) ==
  /\ impl = "rwlock" /\ (At(t, "rd_native") \/ At(t, "wr_native")) /\ Throw
  /\ Then(t, "idle", << >>)
  /\ UNCHANGED <<impl, m, sems, counts, leaked>>

UnlockNative(t) ==
  /\ impl # "pmsm" /\ (At(t, "reading") \/ At(t, "writing"))
  /\ Then(t, "idle", << >>)
  /\ UNCHANGED <<impl, m, sems, counts, throws, leaked>>

-----------------------------------------------------------------------------

Call(t) == ReaderGuard(t) \/ WriterGuard(t)
Step(t) ==
  \/ Unwind(t)
  \/ RdM3(t) \/ RdR(t) \/ RdM1(t) \/ RdW(t) \/ RuM1(t) \/ Ru(t)
  \/ WrM2(t) \/ WrR(t) \/ WrW(t) \/ WrCatch(t) \/ WuW(t) \/ WuM2(t)
  \/ RdNative(t) \/ WrNative(t) \/ NativeThrows(t) \/ UnlockNative(t)

Next == \E t \in Threads : Call(t) \/ Step(t)

\* Nobody keeps the lock for ever, and a mutex or semaphore that keeps coming
\* free is given to each thread that waits for it; no call need ever fail.
Fairness == \A t \in Threads : SF_vars(Step(t) /\ throws' = throws)

Spec == Init /\ [][Next]_vars /\ Fairness

-----------------------------------------------------------------------------

RW == INSTANCE ReadWriteLock WITH readers <- Readers, writers <- Writers

\* Every implementation of SharedMutex lets in many readers or one writer, also
\* when Semaphore::lock throws in the middle of rdlock or wrlock.
ImplementsReadWriteLock == RW!Spec

\* With the algorithm of syncprims-pmsm.h a thread that wants to write gets the
\* lock in the end, whatever readers come, or its wrlock throws; unless the catch
\* block of an earlier wrlock left r locked (line 103).  Of the system's locks
\* nothing is said.
WriterGetsIn ==
  \A t \in Threads : pc[t] \in {"wr_m2", "wr_r", "wr_w"} ~> pc[t] \in {"writing", "wr_catch", "idle"} \/ leaked
=============================================================================
