----------------------------- MODULE Scheduler -----------------------------
(***************************************************************************)
(* The timer of the rewrite: Scheduler (gordonlee utility/scheduler.h) and *)
(* the JobProcessors it feeds (utility/job_processor.h).  Threads schedule *)
(* jobs at a delay, a timer thread moves the job with the earliest due     *)
(* time to the queue of its processor once the clock has reached it, and   *)
(* each processor's thread runs its jobs one by one.  A job may schedule   *)
(* others.  Jobs are numbered in the order of the calls to Schedule.       *)
(*                                                                         *)
(* JobProcessor::WorkerProccess means to wait on event_ when it has spun   *)
(* long enough, but compares a local with itself (job_processor.h:52): it  *)
(* never waits, so event_ has no effect and is left out.  The system clock *)
(* is taken not to be set back.                                            *)
(***************************************************************************)
EXTENDS Integers, Sequences, FiniteSets, Functions

CONSTANTS
  Clients,       \* threads that schedule jobs
  Processors,    \* the JobProcessors, each with its thread
  Timespans,     \* the delays they ask for, in ticks of the clock
  NoJob,         \* no element under this due time; nothing running
  MaxJobs,       \* bound: calls to Schedule
  MaxTime        \* bound: due times

ASSUME ThreadsAssumption == Clients \cap Processors = {}
ASSUME TimeAssumption    == MaxTime \in Nat /\ Timespans \subseteq Nat
ASSUME JobsAssumption    == MaxJobs \in Nat /\ NoJob \notin 1 .. MaxJobs

VARIABLES
  clock,         \* std::chrono::system_clock
  job_map_,      \* the job under each due time
  now,           \* the timer thread's reading of the clock
  timer,         \* where the timer thread is; it holds cs_ at "erase"
  inserting,     \* the job each thread has made and not yet inserted
  queue_,        \* queue_ of each processor
  running,       \* the job each processor runs
  scheduled,     \* calls to Schedule so far
  key,           \* the due time of each of them
  processor,     \* its processor
  caller,        \* the thread that made it
  dropped,       \* history: jobs that std::map::insert did not take
  done           \* history: the jobs run to their end, in that order

vars == <<clock, job_map_, now, timer, inserting, queue_, running, scheduled,
          key, processor, caller, dropped, done>>

jobVars == <<scheduled, key, processor, caller>>

Times   == 0 .. MaxTime
Jobs    == 1 .. MaxJobs
Threads == Clients \cup Processors

Init ==
  /\ clock = 0
  /\ job_map_ = [t \in Times |-> NoJob]
  /\ now = 0
  /\ timer = "now"
  /\ inserting = [t \in Threads |-> NoJob]
  /\ queue_ = [p \in Processors |-> << >>]
  /\ running = [p \in Processors |-> NoJob]
  /\ scheduled = 0
  /\ key = << >>
  /\ processor = << >>
  /\ caller = << >>
  /\ dropped = {}
  /\ done = << >>

Tick ==
  /\ clock < MaxTime
  /\ clock' = clock + 1
  /\ UNCHANGED <<job_map_, now, timer, inserting, queue_, running, jobVars,
                 dropped, done>>

-----------------------------------------------------------------------------
(* Schedule.                                                               *)

\* A thread makes a job that is due after a delay.  A processor's thread does
\* so from within the job it runs.
Schedule(t) ==
  /\ inserting[t] = NoJob
  /\ t \in Processors => running[t] # NoJob
  /\ scheduled < MaxJobs
  /\ \E span \in Timespans, p \in Processors :
       /\ clock + span <= MaxTime
       /\ key' = Append(key, clock + span)
       /\ processor' = Append(processor, p)
  /\ caller' = Append(caller, t)
  /\ scheduled' = scheduled + 1
  /\ inserting' = [inserting EXCEPT ![t] = scheduled + 1]
  /\ UNCHANGED <<clock, job_map_, now, timer, queue_, running, dropped, done>>

\* Slip: a job takes the place of another with the same due time.
Insert_Replace(t) ==
  /\ inserting[t] # NoJob
  /\ timer # "erase"
  /\ job_map_' = [job_map_ EXCEPT ![key[inserting[t]]] = inserting[t]]
  /\ inserting' = [inserting EXCEPT ![t] = NoJob]
  /\ UNCHANGED <<clock, now, timer, queue_, running, jobVars, dropped, done>>

\* job_map_.insert, under cs_: nothing happens when the due time is taken.
Insert(t) ==
  /\ inserting[t] # NoJob
  /\ timer # "erase"
  /\ LET j == inserting[t] IN
     \/ /\ job_map_[key[j]] = NoJob
        /\ job_map_' = [job_map_ EXCEPT ![key[j]] = j]
        /\ UNCHANGED dropped
     \/ /\ job_map_[key[j]] # NoJob
        /\ dropped' = dropped \cup {j}
        /\ UNCHANGED job_map_
  /\ inserting' = [inserting EXCEPT ![t] = NoJob]
  /\ UNCHANGED <<clock, now, timer, queue_, running, jobVars, done>>

-----------------------------------------------------------------------------
(* The timer thread: Scheduler::WorkerProccess.                            *)

\* The clock is read before the lock is taken.
ReadClock ==
  /\ timer = "now"
  /\ now' = clock
  /\ timer' = "check"
  /\ UNCHANGED <<clock, job_map_, inserting, queue_, running, jobVars, dropped,
                 done>>

\* Slip: any job of the map counts as its first.
IsFirst_Any(t) == job_map_[t] # NoJob

\* job_map_.begin() is at t.
IsFirst(t) ==
  /\ job_map_[t] # NoJob
  /\ \A u \in Times : u < t => job_map_[u] = NoJob

\* Slip: the job is handed over a tick early.
IsDue_Early(t) == now + 1 >= t

IsDue(t) == now >= t

\* The job goes to its processor's queue, where it may run before
HandOver ==
  /\ timer = "check"
  /\ \E t \in Times :
       /\ IsFirst(t) /\ IsDue(t)
       /\ LET j == job_map_[t] IN
          queue_' = [queue_ EXCEPT ![processor[j]] = Append(@, j)]
  /\ timer' = "erase"
  /\ UNCHANGED <<clock, job_map_, now, inserting, running, jobVars, dropped, done>>

\* its element is erased and the lock released.
Erase ==
  /\ timer = "erase"
  /\ \E t \in Times : IsFirst(t) /\ job_map_' = [job_map_ EXCEPT ![t] = NoJob]
  /\ timer' = "now"
  /\ UNCHANGED <<clock, now, inserting, queue_, running, jobVars, dropped, done>>

\* Slip: the next turn of the loop goes on with the old reading of the clock.
NothingDue_OldClock ==
  /\ timer = "check"
  /\ \A t \in Times : IsFirst(t) => ~ IsDue(t)
  /\ UNCHANGED vars

NothingDue ==
  /\ timer = "check"
  /\ \A t \in Times : IsFirst(t) => ~ IsDue(t)
  /\ timer' = "now"
  /\ UNCHANGED <<clock, job_map_, now, inserting, queue_, running, jobVars,
                 dropped, done>>

-----------------------------------------------------------------------------
(* The processors: JobProcessor::WorkerProccess.                           *)

Dequeue(p) ==
  /\ running[p] = NoJob
  /\ queue_[p] # << >>
  /\ running' = [running EXCEPT ![p] = Head(queue_[p])]
  /\ queue_' = [queue_ EXCEPT ![p] = Tail(@)]
  /\ UNCHANGED <<clock, job_map_, now, timer, inserting, jobVars, dropped, done>>

\* The job's function returns; what it scheduled has been inserted.
Do(p) ==
  /\ running[p] # NoJob
  /\ inserting[p] = NoJob
  /\ done' = Append(done, running[p])
  /\ running' = [running EXCEPT ![p] = NoJob]
  /\ UNCHANGED <<clock, job_map_, now, timer, inserting, queue_, jobVars, dropped>>

-----------------------------------------------------------------------------

TimerThread == ReadClock \/ HandOver \/ Erase \/ NothingDue

Next ==
  \/ \E t \in Threads : Schedule(t) \/ Insert(t)
  \/ TimerThread
  \/ \E p \in Processors : Dequeue(p) \/ Do(p)
  \/ Tick

Spec == Init /\ [][Next]_vars

\* Time passes, the timer thread loops, processors take and finish their jobs.
\* Nobody who waits for cs_ need get it, nor need anybody schedule.
FairSpec ==
  /\ Spec
  /\ WF_vars(Tick)
  /\ WF_vars(TimerThread)
  /\ \A p \in Processors : WF_vars(Dequeue(p) \/ Do(p))

-----------------------------------------------------------------------------
(* Properties.                                                             *)

\* Everywhere a job is: with the thread that made it, in the map (unless its
\* element is about to be erased), in a queue, with a processor, run, dropped.
Places(j) ==
  {<<"inserting", t>> : t \in {u \in Threads : inserting[u] = j}}
  \cup {<<"map", t>> : t \in {u \in Times : /\ job_map_[u] = j
                                            /\ ~ (timer = "erase" /\ IsFirst(u))}}
  \cup (UNION {{<<"queue", p, i>> : i \in {n \in DOMAIN queue_[p] : queue_[p][n] = j}} :
                 p \in Processors})
  \cup {<<"running", p>> : p \in {q \in Processors : running[q] = j}}
  \cup {<<"done", i>> : i \in {n \in DOMAIN done : done[n] = j}}
  \cup {<<"dropped", d>> : d \in dropped \cap {j}}

\* No job is lost and none is run or queued twice, although it is queued, and
\* perhaps run, before its element is erased: it is always in one place.  Only
\* std::map::insert drops one, for another that is due at the same time.
JobsInOnePlace ==
  /\ \A j \in 1 .. scheduled : Cardinality(Places(j)) = 1
  /\ \A j \in dropped : \E i \in 1 .. scheduled \ dropped : key[i] = key[j]

\* No job reaches its processor before it is due, although the timer thread
\* reads the clock before it takes the lock.
NotBeforeDue ==
  /\ \A p \in Processors :
       /\ \A i \in DOMAIN queue_[p] : key[queue_[p][i]] <= clock
       /\ running[p] # NoJob => key[running[p]] <= clock
  /\ \A i \in DOMAIN done : key[done[i]] <= clock

\* Jobs that one thread schedules on one processor, the later one not due before
\* the earlier one, run in the order it scheduled them.
CallersOrder ==
  \A j \in Range(done) : \A i \in 1 .. j - 1 :
    /\ caller[i] = caller[j]
    /\ processor[i] = processor[j]
    /\ key[i] <= key[j]
    => \/ i \in dropped
       \/ \E m, n \in DOMAIN done : m < n /\ done[m] = i /\ done[n] = j

InMap(j) == \E t \in Times : job_map_[t] = j

\* The processor of j runs a job that waits for cs_ to schedule another.
Blocked(j) == j <= scheduled /\ inserting[processor[j]] # NoJob

\* A job that was inserted is run, unless a job before it on its processor waits
\* for cs_: the timer thread releases that lock and takes it again at once, and
\* a CRITICAL_SECTION promises no turns.
InsertedJobsRun ==
  \A j \in Jobs : InMap(j) ~> (j \in Range(done) \/ Blocked(j))
=============================================================================
