----------------------------- MODULE SyncPrims -----------------------------
(***************************************************************************)
(* log4cplus::thread: Mutex, Semaphore and FairMutex over each back end,   *)
(* and SyncGuard, which locks them for a scope.  Threads take a primitive  *)
(* with a guard, perhaps a second time while they hold it; lock() may throw*)
(* where the system call may fail.                                         *)
(*                                                                         *)
(* A call is the set of its outcomes: a state of the primitive, and        *)
(* whether the call returned or threw.  A call with no outcome blocks.     *)
(***************************************************************************)
EXTENDS Integers, FiniteSets

CONSTANTS
  Threads,
  NoThread,
  MaxGuards      \* bound: guards a thread nests

VARIABLES
  backend,       \* "pthreads", "win32" or "single" (LOG4CPLUS_SINGLE_THREADED)
  kind,          \* the primitive: its class and constructor arguments
  life,          \* "new", "live" or "dead"
  prim,          \* its state
  sp,            \* per thread and guard: attached to the primitive
  held,          \* history, per thread: locks taken and not given back
  unlockThrew    \* history: an unlock() threw

vars == <<backend, kind, life, prim, sp, held, unlockThrew>>

Guards == 1 .. MaxGuards

Kinds == {[class |-> "Mutex", type |-> y] : y \in {"DEFAULT", "RECURSIVE"}}
         \cup {[class |-> "Semaphore", max |-> m, initial |-> i] : m, i \in 0 .. 2}
         \cup {[class |-> "FairMutex"]}

\* owner and depth of a mutex, count of a semaphore, max where it is enforced.
NoPrim == [owner |-> NoThread, depth |-> 0, count |-> 0, max |-> 0, recursive |-> FALSE]
Lockable(recursive) == [NoPrim EXCEPT !.recursive = recursive]
Counting(count, max) == [NoPrim EXCEPT !.count = count, !.max = max]

Returns(p) == [prim |-> p, threw |-> FALSE]
Throws(p)  == [prim |-> p, threw |-> TRUE]

\* What a lock with an owner does, on either system.
Acquire(p, t) ==
  CASE p.owner = NoThread           -> {Returns([p EXCEPT !.owner = t, !.depth = 1])}
    [] p.owner = t /\ p.recursive   -> {Returns([p EXCEPT !.depth = @ + 1])}
    [] OTHER                        -> {}
Release(p, t) ==
  IF p.owner # t THEN {Throws(p)}
  ELSE {Returns([p EXCEPT !.depth = @ - 1, !.owner = IF p.depth = 1 THEN NoThread ELSE t])}

-----------------------------------------------------------------------------
(* impl, pthreads.  SEM_VALUE_MAX is far above any count here.             *)

PthreadMutexAttr(type) == type = "RECURSIVE"
Mutex_pthreads(type) == {Returns(Lockable(PthreadMutexAttr(type))), Throws(NoPrim)}
MutexDtor_pthreads(p) == {Returns(NoPrim)}
MutexLock_pthreads(p, t) == {Throws(p)} \cup Acquire(p, t)
MutexUnlock_pthreads(p, t) == Release(p, t)

\* sem_init at max, then lock() down to initial; sem_wait may be interrupted.
Semaphore_pthreads(max, initial) ==
  LET limited == IF initial < max THEN initial ELSE max IN
  {Returns(Counting(limited, max)), Throws(NoPrim)}
SemaphoreDtor_pthreads(p) == {Returns(NoPrim)}
SemaphoreUnlock_pthreads(p) == {Returns([p EXCEPT !.count = @ + 1])}
SemaphoreLock_pthreads(p) ==
  {Throws(p)} \cup (IF p.count > 0 THEN {Returns([p EXCEPT !.count = @ - 1])} ELSE {})

FairMutex_pthreads == Semaphore_pthreads(1, 1)
FairMutexLock_pthreads(p) == SemaphoreLock_pthreads(p)
FairMutexUnlock_pthreads(p) == SemaphoreUnlock_pthreads(p)

-----------------------------------------------------------------------------
(* impl, win32.                                                            *)

InitializeCriticalSection_wrap == {Returns(Lockable(TRUE)), Throws(NoPrim)}
Mutex_win32(type) == InitializeCriticalSection_wrap
MutexLock_win32(p, t) == Acquire(p, t)
MutexUnlock_win32(p, t) == Release(p, t)

\* CreateSemaphore refuses a maximum of 0 and an initial count above it.
Semaphore_win32(max, initial) ==
  IF max > 0 /\ initial <= max THEN {Returns(Counting(initial, max)), Throws(NoPrim)} ELSE {Throws(NoPrim)}
SemaphoreDtor_win32(p) == {Returns(NoPrim)}
SemaphoreUnlock_win32(p) ==
  IF p.count < p.max THEN {Returns([p EXCEPT !.count = @ + 1])} ELSE {Throws(p)}
SemaphoreLock_win32(p) ==
  {Throws(p)} \cup (IF p.count > 0 THEN {Returns([p EXCEPT !.count = @ - 1])} ELSE {})

FairMutex_win32 == {Returns(Lockable(TRUE)), Throws(NoPrim)}
FairMutexDtor_win32(p) == {Returns(NoPrim)}
FairMutexLock_win32(p, t) == {Throws(p)} \cup Acquire(p, t)
FairMutexUnlock_win32(p, t) == Release(p, t)

-----------------------------------------------------------------------------
(* The public classes: nothing at all in a single-threaded build.          *)

Threaded(pthreads, win32) ==
  CASE backend = "pthreads" -> pthreads [] backend = "win32" -> win32 [] OTHER -> {Returns(prim)}

Mutex(k) == Threaded(Mutex_pthreads(k.type), Mutex_win32(k.type))
Mutex_lock(t) == Threaded(MutexLock_pthreads(prim, t), MutexLock_win32(prim, t))
Mutex_unlock(t) == Threaded(MutexUnlock_pthreads(prim, t), MutexUnlock_win32(prim, t))

Semaphore(k) == Threaded(Semaphore_pthreads(k.max, k.initial), Semaphore_win32(k.max, k.initial))
Semaphore_lock == Threaded(SemaphoreLock_pthreads(prim), SemaphoreLock_win32(prim))
Semaphore_unlock == Threaded(SemaphoreUnlock_pthreads(prim), SemaphoreUnlock_win32(prim))

FairMutex == Threaded(FairMutex_pthreads, FairMutex_win32)
FairMutex_lock(t) == Threaded(FairMutexLock_pthreads(prim), FairMutexLock_win32(prim, t))
FairMutex_unlock(t) == Threaded(FairMutexUnlock_pthreads(prim), FairMutexUnlock_win32(prim, t))

Construct(k) ==
  CASE k.class = "Mutex" -> Mutex(k) [] k.class = "Semaphore" -> Semaphore(k) [] OTHER -> FairMutex
Lock(t) ==
  CASE kind.class = "Mutex" -> Mutex_lock(t) [] kind.class = "Semaphore" -> Semaphore_lock [] OTHER -> FairMutex_lock(t)
Unlock(t) ==
  CASE kind.class = "Mutex" -> Mutex_unlock(t) [] kind.class = "Semaphore" -> Semaphore_unlock [] OTHER -> FairMutex_unlock(t)
Dtor ==
  CASE kind.class = "Mutex" -> Threaded(MutexDtor_pthreads(prim), {Returns(NoPrim)})
    [] kind.class = "Semaphore" -> Threaded(SemaphoreDtor_pthreads(prim), SemaphoreDtor_win32(prim))
    [] OTHER -> Threaded(SemaphoreDtor_pthreads(prim), FairMutexDtor_win32(prim))

-----------------------------------------------------------------------------

Init ==
  /\ backend \in {"pthreads", "win32", "single"}
  /\ kind \in Kinds
  /\ life = "new"
  /\ prim = NoPrim
  /\ sp = [t \in Threads |-> [g \in Guards |-> FALSE]]
  /\ held = [t \in Threads |-> 0]
  /\ unlockThrew = FALSE

Create ==
  /\ life = "new"
  /\ \E o \in Construct(kind) : prim' = o.prim /\ life' = IF o.threw THEN "dead" ELSE "live"
  /\ UNCHANGED <<backend, kind, sp, held, unlockThrew>>

Attach(t, g, b) == sp' = [sp EXCEPT ![t][g] = b]

\* SyncGuard (m): if lock() throws there is no guard.
SyncGuard(t, g) ==
  /\ life = "live" /\ ~ sp[t][g]
  /\ \E o \in Lock(t) :
       /\ prim' = o.prim
       /\ Attach(t, g, ~ o.threw)
       /\ held' = [held EXCEPT ![t] = IF o.threw THEN @ ELSE @ + 1]
  /\ UNCHANGED <<backend, kind, life, unlockThrew>>

OnLockFailure_Attached == TRUE
OnLockFailure == FALSE

\* SyncGuard () and attach_and_lock (m): attached first, detached on a throw.
attach_and_lock(t, g) ==
  /\ life = "live" /\ ~ sp[t][g]
  /\ \E o \in Lock(t) :
       /\ prim' = o.prim
       /\ Attach(t, g, IF o.threw THEN OnLockFailure ELSE TRUE)
       /\ held' = [held EXCEPT ![t] = IF o.threw THEN @ ELSE @ + 1]
  /\ UNCHANGED <<backend, kind, life, unlockThrew>>

\* Give the lock back and let go of it.
UnlockWith(t, g) ==
  /\ sp[t][g]
  /\ \E o \in Unlock(t) :
       /\ prim' = o.prim
       /\ held' = [held EXCEPT ![t] = IF o.threw THEN @ ELSE @ - 1]
       /\ unlockThrew' = (unlockThrew \/ o.threw)
  /\ Attach(t, g, FALSE)
  /\ UNCHANGED <<backend, kind, life>>

\* unlock (); detach (); as ManualResetEvent::wait does before it throws.
UnlockAndDetach(t, g) == UnlockWith(t, g)

\* ~SyncGuard.
SyncGuardDtor(t, g) == UnlockWith(t, g)

Destroy ==
  /\ life = "live" /\ \A t \in Threads, g \in Guards : ~ sp[t][g]
  /\ \E o \in Dtor : prim' = o.prim
  /\ life' = "dead"
  /\ UNCHANGED <<backend, kind, sp, held, unlockThrew>>

Next ==
  \/ Create \/ Destroy
  \/ \E t \in Threads, g \in Guards :
       SyncGuard(t, g) \/ attach_and_lock(t, g) \/ UnlockAndDetach(t, g) \/ SyncGuardDtor(t, g)

Spec == Init /\ [][Next]_vars

-----------------------------------------------------------------------------

\* The guards that are attached, of one thread and of all.
Attached(t) == {g \in Guards : sp[t][g]}
AllAttached == {x \in Threads \X Guards : sp[x[1]][x[2]]}

Permits == IF kind.class = "Semaphore" THEN kind.initial ELSE 1

\* Whatever throws, and however guards are nested, scoped use is balanced on
\* every back end: the primitive is taken exactly as often as guards hold it, a
\* mutex by one thread at a time, and no unlock() ever throws, although the
\* pthreads semaphore does not enforce its maximum and the win32 one does.
GuardsBalance ==
  backend # "single" /\ life = "live" =>
    /\ \A t \in Threads : held[t] = Cardinality(Attached(t))
    /\ IF kind.class = "Semaphore" \/ (kind.class = "FairMutex" /\ backend = "pthreads")
       THEN prim.count + Cardinality(AllAttached) = (IF kind.class = "Semaphore" /\ kind.max < Permits THEN kind.max ELSE Permits)
       ELSE \A t \in Threads : held[t] = IF prim.owner = t THEN prim.depth ELSE 0
    /\ ~ unlockThrew
=============================================================================
