------------------------------- MODULE IoPool -------------------------------
(***************************************************************************)
(* The pools of the two servers: OverlappedIoPool and TcpSessionPool, each *)
(* a queue of free elements and a list of the arrays they are carved from, *)
(* under one CRITICAL_SECTION.  Taking from an empty pool grows it, and    *)
(* growing calls the public operation that gives one element back: the     *)
(* same thread enters the lock three deep.                                 *)
(***************************************************************************)
EXTENDS Integers, Sequences, FiniteSets, SequencesExt

CONSTANTS
  Threads,
  NoThread,
  ElementCount,  \* g_default_io_pool_size, num_init_ccu_
  MaxArrays      \* bound: arrays allocated

VARIABLES
  owner, depth,        \* the CRITICAL_SECTION
  m_waitingQueue,      \* wait_clients_
  m_dataPool,          \* data_pool_: the arrays that are allocated
  arrays,              \* arrays allocated so far
  pc, i,               \* of each thread; i counts from 1
  out,                 \* the elements each thread has
  emptyFront,          \* front() of an empty queue
  clearedInUse         \* the pool was cleared while elements were out

vars == <<owner, depth, m_waitingQueue, m_dataPool, arrays, pc, i, out, emptyFront, clearedInUse>>
data == <<m_waitingQueue, m_dataPool, arrays, i, out, emptyFront, clearedInUse>>

\* The elements of the k-th array that was allocated.
Array(k) == {<<k, n>> : n \in 1 .. ElementCount}

\* Network::Initialize fills its pools beforehand; a TcpSessionPool starts empty.
Init ==
  /\ owner = NoThread /\ depth = 0
  /\ arrays \in 0 .. 1
  /\ m_dataPool = 1 .. arrays
  /\ m_waitingQueue = [n \in 1 .. arrays * ElementCount |-> <<1, n>>]
  /\ pc = [t \in Threads |-> "idle"]
  /\ i = [t \in Threads |-> 0]
  /\ out = [t \in Threads |-> {}]
  /\ emptyFront = FALSE /\ clearedInUse = FALSE

Goto(t, step) == pc' = [pc EXCEPT ![t] = step]

\* AutoLock: EnterCriticalSection lets its owner in again.
Enter(t) ==
  /\ owner \in {NoThread, t}
  /\ owner' = t /\ depth' = depth + 1

Leave_AtOnce(t) == owner' = NoThread /\ depth' = 0
Leave(t) ==
  /\ depth' = depth - 1
  /\ owner' = IF depth = 1 THEN NoThread ELSE t

\* A step of thread t from one place to the next that enters, or leaves.
Entering(t, from, to) == pc[t] = from /\ Enter(t) /\ Goto(t, to)
Leaving(t, from, to)  == pc[t] = from /\ Leave(t) /\ Goto(t, to)

-----------------------------------------------------------------------------
(* Dequeue, PopFromWaitQueue.                                              *)

Dequeue(t) == Entering(t, "idle", "test") /\ UNCHANGED data

TestEmpty(t) ==
  /\ pc[t] = "test"
  /\ m_waitingQueue = << >> => arrays < MaxArrays
  /\ Goto(t, IF m_waitingQueue = << >> THEN "grow" ELSE "take")
  /\ UNCHANGED <<owner, depth, data>>

Take(t) ==
  /\ pc[t] = "take"
  /\ IF m_waitingQueue = << >> THEN emptyFront' = TRUE /\ UNCHANGED <<m_waitingQueue, out>>
     ELSE /\ out' = [out EXCEPT ![t] = @ \cup {Head(m_waitingQueue)}]
          /\ m_waitingQueue' = Tail(m_waitingQueue)
          /\ UNCHANGED emptyFront
  /\ Goto(t, "dequeued")
  /\ UNCHANGED <<owner, depth, m_dataPool, arrays, i, clearedInUse>>

Dequeued(t) == Leaving(t, "dequeued", "idle") /\ UNCHANGED data

-----------------------------------------------------------------------------
(* GrowPoolSize, GrowWaitPoolSize.                                         *)

Grow(t) == Entering(t, "grow", "alloc") /\ UNCHANGED data

Alloc(t) ==
  /\ pc[t] = "alloc" /\ arrays < MaxArrays
  /\ arrays' = arrays + 1
  /\ m_dataPool' = m_dataPool \cup {arrays + 1}
  /\ i' = [i EXCEPT ![t] = 1]
  /\ Goto(t, "each")
  /\ UNCHANGED <<owner, depth, m_waitingQueue, out, emptyFront, clearedInUse>>

\* The loop calls Enqueue (PushWaitQueue) for each element.
EachEnter(t) == Entering(t, "each", "push") /\ UNCHANGED data

EachPush(t) ==
  /\ pc[t] = "push"
  /\ m_waitingQueue' = Append(m_waitingQueue, <<arrays, i[t]>>)
  /\ Goto(t, "pushed")
  /\ UNCHANGED <<owner, depth, m_dataPool, arrays, i, out, emptyFront, clearedInUse>>

EachLeave(t) ==
  /\ Leaving(t, "pushed", IF i[t] = ElementCount THEN "grown" ELSE "each")
  /\ i' = [i EXCEPT ![t] = @ + 1]
  /\ UNCHANGED <<m_waitingQueue, m_dataPool, arrays, out, emptyFront, clearedInUse>>

Grown(t) == Leaving(t, "grown", "take") /\ UNCHANGED data

-----------------------------------------------------------------------------
(* Enqueue, PushWaitQueue of an element that comes back; Clear.            *)

\* The lock is held for the one push only.
Enqueue(t, e) ==
  /\ pc[t] = "idle" /\ e \in out[t] /\ owner = NoThread
  /\ out' = [out EXCEPT ![t] = @ \ {e}]
  /\ m_waitingQueue' = Append(m_waitingQueue, e)
  /\ UNCHANGED <<owner, depth, m_dataPool, arrays, pc, i, emptyFront, clearedInUse>>

\* OverlappedIoPool only: every array is freed, in use or not.
Clear(t) ==
  /\ pc[t] = "idle" /\ owner = NoThread
  /\ m_dataPool' = {} /\ m_waitingQueue' = << >>
  /\ clearedInUse' = (clearedInUse \/ \E u \in Threads : out[u] # {})
  /\ UNCHANGED <<owner, depth, arrays, pc, i, out, emptyFront>>

Next == \E t \in Threads :
  \/ Dequeue(t) \/ TestEmpty(t) \/ Take(t) \/ Dequeued(t)
  \/ Grow(t) \/ Alloc(t) \/ EachEnter(t) \/ EachPush(t) \/ EachLeave(t) \/ Grown(t)
  \/ \E e \in out[t] : Enqueue(t, e)
  \/ Clear(t)

Spec == Init /\ [][Next]_vars

-----------------------------------------------------------------------------

\* The elements of the arrays that are allocated.
Elements == UNION {Array(k) : k \in m_dataPool}

\* The element a thread is about to push while it grows the pool, and those after.
Unpushed == {e \in Array(arrays) :
               \E t \in Threads : \/ pc[t] \in {"each", "push"} /\ e[2] >= i[t]
                                  \/ pc[t] = "pushed" /\ e[2] > i[t]}

\* Every element is waiting, out, or about to be pushed.
Out == UNION {out[t] : t \in Threads}
NoneLost == Elements = ToSet(m_waitingQueue) \cup Out \cup Unpushed

\* Whoever takes from the pool gets an element nobody else has, also when two
\* threads find it empty at once; front() is never called on an empty queue, and
\* no element is lost, unless the pool was cleared while in use.
HandsOutOnce ==
  /\ ~ emptyFront
  /\ \A t, u \in Threads : t # u => out[t] \cap out[u] = {}
  /\ IsInjective(m_waitingQueue)
  /\ \A t \in Threads : ToSet(m_waitingQueue) \cap out[t] = {}
  /\ ~ clearedInUse => NoneLost
=============================================================================
