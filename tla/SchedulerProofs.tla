-------------------------- MODULE SchedulerProofs --------------------------
(* Proofs about Scheduler, for any threads, processors, delays and bounds. *)
EXTENDS Scheduler, FiniteSetTheorems, SequenceTheorems, TLAPS

-----------------------------------------------------------------------------
(* The inductive invariant.                                                *)

Made == 1 .. scheduled

TypeInv ==
  /\ clock \in Times /\ now \in Times /\ timer \in {"now", "check", "erase"}
  /\ scheduled \in 0 .. MaxJobs
  /\ key \in Seq(Times) /\ Len(key) = scheduled
  /\ processor \in Seq(Processors) /\ Len(processor) = scheduled
  /\ caller \in Seq(Threads) /\ Len(caller) = scheduled
  /\ job_map_ \in [Times -> Made \cup {NoJob}]
  /\ inserting \in [Threads -> Made \cup {NoJob}]
  /\ queue_ \in [Processors -> Seq(Made)]
  /\ running \in [Processors -> Made \cup {NoJob}]
  /\ dropped \subseteq Made
  /\ done \in Seq(Made)

\* A job knows where it can be, and is there once.
HomeInv ==
  /\ \A t \in Threads : inserting[t] # NoJob => caller[inserting[t]] = t
  /\ \A t \in Times : job_map_[t] # NoJob => key[job_map_[t]] = t
  /\ \A p \in Processors :
       /\ running[p] # NoJob => processor[running[p]] = p
       /\ \A n \in 1 .. Len(queue_[p]) : processor[queue_[p][n]] = p
       /\ \A m, n \in 1 .. Len(queue_[p]) : queue_[p][m] = queue_[p][n] => m = n
  /\ \A m, n \in 1 .. Len(done) : done[m] = done[n] => m = n

\* The jobs at each stage.  The one whose element is about to be erased has left
\* the map.
Inserting == {j \in Made : \E t \in Threads : inserting[t] = j}
Mapped    == {j \in Made : \E t \in Times : /\ job_map_[t] = j
                                            /\ ~ (timer = "erase" /\ IsFirst(t))}
Queued    == {j \in Made : \E p \in Processors : \E n \in 1 .. Len(queue_[p]) : queue_[p][n] = j}
Running   == {j \in Made : \E p \in Processors : running[p] = j}
Finished  == {j \in Made : \E n \in 1 .. Len(done) : done[n] = j}

\* Every job is at one stage.
StageInv ==
  /\ Made = Inserting \cup Mapped \cup Queued \cup Running \cup Finished \cup dropped
  /\ Inserting \cap (Mapped \cup Queued \cup Running \cup Finished \cup dropped) = {}
  /\ Mapped \cap (Queued \cup Running \cup Finished \cup dropped) = {}
  /\ Queued \cap (Running \cup Finished \cup dropped) = {}
  /\ Running \cap (Finished \cup dropped) = {}
  /\ Finished \cap dropped = {}

\* The job that a dropped one made way for stays.
DropInv ==
  \A j \in dropped : \E i \in Made \ (dropped \cup Inserting) : key[i] = key[j]

DueInv == now <= clock /\ NotBeforeDue

\* One caller's job that another must not overtake is never at an earlier stage
\* than the other, once that is in a queue, nor behind it at the same one.
Before(i, j) ==
  i < j /\ caller[i] = caller[j] /\ processor[i] = processor[j] /\ key[i] <= key[j]

OrderInv ==
  \A i, j \in Made : Before(i, j) =>
    /\ i \notin Inserting
    /\ j \in Queued \cup Running \cup Finished => i \notin Mapped
    /\ j \in Running \cup Finished => i \notin Queued
    /\ j \in Finished => i \notin Running
    /\ \A p \in Processors : \A m, n \in 1 .. Len(queue_[p]) :
         queue_[p][m] = i /\ queue_[p][n] = j => m < n
    /\ \A m, n \in 1 .. Len(done) : done[m] = i /\ done[n] = j => m < n

JobInv == TypeInv /\ HomeInv /\ StageInv /\ DropInv /\ DueInv /\ OrderInv

-----------------------------------------------------------------------------
(* Facts about the constants and the types.                                *)

\* NoJob is no job.
LEMMA NoJobMade == TypeInv => NoJob \notin Made /\ Made \subseteq Jobs
  BY JobsAssumption DEF TypeInv, Made, Jobs

\* What the types say of a job at each stage.
LEMMA ValuesMade ==
  ASSUME TypeInv
  PROVE  /\ \A t \in Threads : inserting[t] # NoJob => inserting[t] \in Made
         /\ \A t \in Times : job_map_[t] # NoJob => job_map_[t] \in Made
         /\ \A p \in Processors :
              /\ running[p] # NoJob => running[p] \in Made
              /\ queue_[p] \in Seq(Made)
              /\ Len(queue_[p]) \in Nat
              /\ \A n \in 1 .. Len(queue_[p]) : queue_[p][n] \in Made
         /\ Len(done) \in Nat
         /\ \A n \in 1 .. Len(done) : done[n] \in Made
         /\ \A j \in Made : key[j] \in Times /\ processor[j] \in Processors /\ caller[j] \in Threads
  BY DEF TypeInv, Made

\* The map has one first element.
LEMMA FirstIsOne ==
  ASSUME TypeInv, NEW t \in Times, NEW u \in Times, IsFirst(t), IsFirst(u)
  PROVE  t = u
  BY TimeAssumption DEF IsFirst, Times

-----------------------------------------------------------------------------
(* Schedule.                                                               *)

\* Schedule makes the next job and leaves the others as they are.
LEMMA NewJob ==
  ASSUME JobInv, NEW t \in Threads, Schedule(t)
  PROVE  /\ Made' = Made \cup {scheduled + 1} /\ scheduled + 1 \notin Made
         /\ scheduled + 1 # NoJob /\ scheduled' \in 0 .. MaxJobs
         /\ key' \in Seq(Times) /\ Len(key') = scheduled'
         /\ processor' \in Seq(Processors) /\ Len(processor') = scheduled'
         /\ caller' \in Seq(Threads) /\ Len(caller') = scheduled'
         /\ caller'[scheduled + 1] = t
         /\ \A j \in Made : key'[j] = key[j] /\ processor'[j] = processor[j] /\ caller'[j] = caller[j]
<1> USE DEF JobInv, TypeInv, Schedule, Made
<1>1. scheduled' = scheduled + 1 /\ scheduled < MaxJobs /\ scheduled \in Nat
  BY JobsAssumption
<1>2. scheduled' \in 0 .. MaxJobs /\ scheduled + 1 # NoJob
  BY <1>1, JobsAssumption
<1>3. Made' = Made \cup {scheduled + 1} /\ scheduled + 1 \notin Made
  BY <1>1
<1>4. PICK span \in Timespans, p \in Processors :
        clock + span <= MaxTime /\ key' = Append(key, clock + span) /\ processor' = Append(processor, p)
  OBVIOUS
<1>5. clock + span \in Times
  BY <1>4, TimeAssumption DEF Times
<1>6. key' \in Seq(Times) /\ Len(key') = scheduled' /\ \A j \in Made : key'[j] = key[j]
  BY <1>1, <1>4, <1>5
<1>7. /\ processor' \in Seq(Processors) /\ Len(processor') = scheduled'
      /\ \A j \in Made : processor'[j] = processor[j]
  BY <1>1, <1>4
<1>8. /\ caller' \in Seq(Threads) /\ Len(caller') = scheduled'
      /\ caller'[scheduled + 1] = t
      /\ \A j \in Made : caller'[j] = caller[j]
  BY <1>1
<1>. QED
  BY <1>2, <1>3, <1>6, <1>7, <1>8

\* It is with the thread that made it, and the others are where they were.
LEMMA ScheduleStages ==
  ASSUME JobInv, NEW t \in Threads, Schedule(t)
  PROVE  /\ Inserting' = Inserting \cup {scheduled + 1}
         /\ Mapped' = Mapped /\ Queued' = Queued /\ Running' = Running /\ Finished' = Finished
<1> DEFINE new == scheduled + 1
<1>1. Made' = Made \cup {new} /\ new \notin Made /\ new # NoJob
  BY NewJob
<1>2. TypeInv /\ NoJob \notin Made
  BY NoJobMade DEF JobInv
<1>3. UNCHANGED <<job_map_, timer, queue_, running, done>> /\ inserting[t] = NoJob
      /\ inserting' = [inserting EXCEPT ![t] = new]
  BY DEF Schedule
<1> HIDE DEF new
<1>4. Inserting' = Inserting \cup {new}
  BY <1>1, <1>2, <1>3 DEF Inserting, TypeInv
<1>5. Mapped' = Mapped
  <2>1. \A u \in Times : job_map_[u] # new
    BY <1>1, <1>2 DEF TypeInv
  <2>. QED
    BY <1>1, <1>3, <2>1 DEF Mapped, IsFirst
<1>6. Queued' = Queued
  <2>1. \A p \in Processors : \A n \in 1 .. Len(queue_[p]) : queue_[p][n] # new
    BY <1>1, <1>2, ValuesMade
  <2>. QED
    BY <1>1, <1>3, <2>1 DEF Queued
<1>7. Running' = Running
  <2>1. \A p \in Processors : running[p] # new
    BY <1>1, <1>2 DEF TypeInv
  <2>. QED
    BY <1>1, <1>3, <2>1 DEF Running
<1>8. Finished' = Finished
  <2>1. \A n \in 1 .. Len(done) : done[n] # new
    BY <1>1, <1>2, ValuesMade
  <2>. QED
    BY <1>1, <1>3, <2>1 DEF Finished
<1>. QED
  BY <1>4, <1>5, <1>6, <1>7, <1>8 DEF new

\* Schedule keeps the invariant.
LEMMA ScheduleStep ==
  ASSUME JobInv, NEW t \in Threads, Schedule(t)
  PROVE  JobInv'
<1> DEFINE new == scheduled + 1
<1>1. Made' = Made \cup {new} /\ new \notin Made /\ new # NoJob
  BY NewJob
<1>2. TypeInv /\ NoJob \notin Made
  BY NoJobMade DEF JobInv
<1>3. UNCHANGED <<clock, now, job_map_, timer, queue_, running, dropped, done>>
      /\ inserting[t] = NoJob /\ inserting' = [inserting EXCEPT ![t] = new]
  BY DEF Schedule
<1>4. /\ caller'[new] = t
      /\ \A j \in Made : key'[j] = key[j] /\ processor'[j] = processor[j] /\ caller'[j] = caller[j]
  BY NewJob
<1>5. /\ Inserting' = Inserting \cup {new}
      /\ Mapped' = Mapped /\ Queued' = Queued /\ Running' = Running /\ Finished' = Finished
  BY ScheduleStages
<1>6. Made \subseteq Nat /\ new \in Nat /\ \A i \in Made : i < new
  BY <1>2 DEF Made, TypeInv
<1>7. TypeInv'
  <2>1. inserting' \in [Threads -> Made' \cup {NoJob}]
    BY <1>1, <1>2, <1>3 DEF TypeInv
  <2>2. queue_' \in [Processors -> Seq(Made')] /\ done' \in Seq(Made')
    <3>1. Made \subseteq Made'
      BY <1>1
    <3>2. Seq(Made) \subseteq Seq(Made')
      BY <3>1
    <3>. QED
      BY <1>2, <1>3, <3>2 DEF TypeInv
  <2>3. job_map_' \in [Times -> Made' \cup {NoJob}] /\ running' \in [Processors -> Made' \cup {NoJob}]
    BY <1>1, <1>2, <1>3 DEF TypeInv
  <2>. QED
    BY <1>1, <1>2, <1>3, <2>1, <2>2, <2>3, NewJob DEF TypeInv
<1> HIDE DEF new
<1>8. HomeInv'
  <2>0. HomeInv
    BY DEF JobInv
  <2>1. \A u \in Threads : inserting'[u] # NoJob => caller'[inserting'[u]] = u
    BY <1>1, <1>2, <1>3, <1>4, <2>0 DEF HomeInv, TypeInv
  <2>2. \A u \in Times : job_map_'[u] # NoJob => key'[job_map_'[u]] = u
    BY <1>2, <1>3, <1>4, <2>0, ValuesMade DEF HomeInv
  <2>3. \A p \in Processors : running'[p] # NoJob => processor'[running'[p]] = p
    BY <1>2, <1>3, <1>4, <2>0, ValuesMade DEF HomeInv
  <2>4. \A p \in Processors : \A n \in 1 .. Len(queue_'[p]) : processor'[queue_'[p][n]] = p
    BY <1>2, <1>3, <1>4, <2>0, ValuesMade DEF HomeInv
  <2>. QED
    BY <1>3, <2>0, <2>1, <2>2, <2>3, <2>4 DEF HomeInv
<1>9. StageInv'
  <2>1. dropped' = dropped /\ dropped \subseteq Made /\ StageInv
    BY <1>2, <1>3 DEF TypeInv, JobInv
  <2>2. /\ Inserting \subseteq Made /\ Mapped \subseteq Made /\ Queued \subseteq Made
        /\ Running \subseteq Made /\ Finished \subseteq Made
    BY DEF Inserting, Mapped, Queued, Running, Finished
  <2>. QED
    BY <1>1, <1>5, <2>1, <2>2 DEF StageInv
<1>10. DropInv'
  BY <1>1, <1>2, <1>3, <1>4, <1>5 DEF DropInv, TypeInv, JobInv
<1>11. DueInv'
  <2>1. NotBeforeDue /\ now <= clock
    BY DEF JobInv, DueInv
  <2>2. \A p \in Processors : \A n \in DOMAIN queue_[p] : queue_[p][n] \in Made
    BY <1>2 DEF TypeInv
  <2>3. \A n \in DOMAIN done : done[n] \in Made
    BY <1>2 DEF TypeInv
  <2>4. \A p \in Processors : running[p] # NoJob => running[p] \in Made
    BY <1>2 DEF TypeInv
  <2>. QED
    BY <1>3, <1>4, <2>1, <2>2, <2>3, <2>4 DEF DueInv, NotBeforeDue
<1>12. OrderInv'
  <2>0. OrderInv /\ HomeInv
    BY DEF JobInv
  <2>1. \A i \in Inserting : caller[i] # t
    BY <1>2, <1>3, <2>0 DEF Inserting, HomeInv
  <2> SUFFICES ASSUME NEW i \in Made', NEW j \in Made', Before(i, j)'
               PROVE  /\ i \notin Inserting'
                      /\ j \in Queued' \cup Running' \cup Finished' => i \notin Mapped'
                      /\ j \in Running' \cup Finished' => i \notin Queued'
                      /\ j \in Finished' => i \notin Running'
                      /\ \A p \in Processors : \A m, n \in 1 .. Len(queue_'[p]) :
                           queue_'[p][m] = i /\ queue_'[p][n] = j => m < n
                      /\ \A m, n \in 1 .. Len(done') : done'[m] = i /\ done'[n] = j => m < n
    BY DEF OrderInv
  <2>2. i < j /\ i \in Made /\ i # new
    BY <1>1, <1>6 DEF Before
  <2>3. CASE j = new
    <3>1. i \notin Inserting'
      BY <1>4, <1>5, <2>1, <2>2, <2>3 DEF Before
    <3>2. j \notin Queued' \cup Running' \cup Finished'
      BY <1>1, <1>5, <2>3 DEF Queued, Running, Finished
    <3>3. \A p \in Processors : \A n \in 1 .. Len(queue_'[p]) : queue_'[p][n] # j
      BY <1>1, <1>2, <1>3, <2>3, ValuesMade
    <3>4. \A n \in 1 .. Len(done') : done'[n] # j
      BY <1>1, <1>2, <1>3, <2>3, ValuesMade
    <3>. QED
      BY <3>1, <3>2, <3>3, <3>4
  <2>4. CASE j # new
    <3>1. j \in Made
      BY <1>1, <2>4
    <3>2. Before(i, j)
      BY <1>4, <2>2, <3>1 DEF Before
    <3>. QED
      BY <1>3, <1>5, <2>0, <2>2, <3>1, <3>2 DEF OrderInv
  <2>. QED
    BY <2>3, <2>4
<1>. QED
  BY <1>7, <1>8, <1>9, <1>10, <1>11, <1>12 DEF JobInv

-----------------------------------------------------------------------------
(* The clock and the timer thread, except that it hands a job over.        *)

\* When no job changes its stage it is enough to look at the map and the clock.
LEMMA QuietStep ==
  ASSUME JobInv, UNCHANGED <<inserting, queue_, running, jobVars, dropped, done>>,
         clock' \in Times, now' \in Times, timer' \in {"now", "check", "erase"},
         clock <= clock', now' <= clock',
         job_map_' \in [Times -> Made \cup {NoJob}], Mapped' = Mapped,
         \A t \in Times : job_map_'[t] # NoJob => job_map_'[t] = job_map_[t]
  PROVE  JobInv'
<1>0. /\ scheduled' = scheduled /\ key' = key /\ processor' = processor /\ caller' = caller
      /\ Made' = Made
  BY DEF jobVars, Made
<1>1. TypeInv'
  BY <1>0 DEF JobInv, TypeInv
<1>2. HomeInv'
  BY <1>0 DEF JobInv, HomeInv
<1>3. Inserting' = Inserting /\ Queued' = Queued /\ Running' = Running /\ Finished' = Finished
  BY <1>0 DEF Inserting, Queued, Running, Finished
<1>4. StageInv'
  BY <1>0, <1>3 DEF JobInv, StageInv
<1>5. DropInv'
  BY <1>0, <1>3 DEF JobInv, DropInv
<1>6. DueInv'
  <2>0. TypeInv /\ NotBeforeDue
    BY DEF JobInv, DueInv
  <2>1. clock \in Int /\ clock' \in Int /\ \A j \in Made : key[j] \in Int
    BY <2>0, ValuesMade DEF TypeInv, Times
  <2>2. \A p \in Processors : \A n \in DOMAIN queue_[p] : queue_[p][n] \in Made
    BY <2>0 DEF TypeInv
  <2>3. \A p \in Processors : running[p] # NoJob => running[p] \in Made
    BY <2>0 DEF TypeInv
  <2>4. \A n \in DOMAIN done : done[n] \in Made
    BY <2>0 DEF TypeInv
  <2>. QED
    BY <1>0, <2>0, <2>1, <2>2, <2>3, <2>4 DEF DueInv, NotBeforeDue
<1>7. \A i, j \in Made : Before(i, j)' = Before(i, j)
  BY <1>0 DEF Before
<1>8. OrderInv'
  BY <1>0, <1>3, <1>7 DEF JobInv, OrderInv
<1>. QED
  BY <1>1, <1>2, <1>4, <1>5, <1>6, <1>8 DEF JobInv

\* Time passes.
LEMMA TickStep ==
  ASSUME JobInv, Tick
  PROVE  JobInv'
<1>1. clock \in Times /\ now \in Times /\ now <= clock
  BY DEF JobInv, TypeInv, DueInv
<1>2. clock' \in Times /\ clock <= clock' /\ now <= clock'
  BY <1>1, TimeAssumption DEF Tick, Times
<1>3. UNCHANGED <<inserting, queue_, running, jobVars, dropped, done, now, timer, job_map_>>
  BY DEF Tick
<1>4. Mapped' = Mapped
  BY <1>3 DEF Mapped, Made, IsFirst, jobVars
<1>. QED
  BY <1>1, <1>2, <1>3, <1>4, QuietStep DEF JobInv, TypeInv

\* The timer thread reads the clock, or finds nothing due.
LEMMA IdleTimerStep ==
  ASSUME JobInv, ReadClock \/ NothingDue
  PROVE  JobInv'
<1>1. clock \in Times /\ now \in Times /\ now <= clock
  BY DEF JobInv, TypeInv, DueInv
<1>2. UNCHANGED <<inserting, queue_, running, jobVars, dropped, done, clock, job_map_>>
  BY DEF ReadClock, NothingDue
<1>3. timer # "erase" /\ timer' \in {"now", "check"} /\ now' \in {now, clock}
  BY DEF ReadClock, NothingDue
<1>4. now' \in Times /\ now' <= clock' /\ clock <= clock'
  BY <1>1, <1>2, <1>3 DEF Times
<1>5. Mapped' = Mapped
  BY <1>2, <1>3 DEF Mapped, Made, IsFirst, jobVars
<1>. QED
  BY <1>1, <1>2, <1>3, <1>4, <1>5, QuietStep DEF JobInv, TypeInv

\* It erases the element of the job that left the map.
LEMMA EraseStep ==
  ASSUME JobInv, Erase
  PROVE  JobInv'
<1>1. TypeInv /\ NoJob \notin Made /\ now <= clock
  BY NoJobMade DEF JobInv, DueInv
<1>2. UNCHANGED <<inserting, queue_, running, jobVars, dropped, done, clock, now>>
  BY DEF Erase
<1>3. timer = "erase" /\ timer' = "now"
  BY DEF Erase
<1>4. PICK t \in Times : IsFirst(t) /\ job_map_' = [job_map_ EXCEPT ![t] = NoJob]
  BY DEF Erase
<1>5. \A u \in Times : IsFirst(u) <=> u = t
  BY <1>1, <1>4, FirstIsOne
<1>6. job_map_' \in [Times -> Made \cup {NoJob}]
  BY <1>1, <1>4 DEF TypeInv
<1>7. \A u \in Times : job_map_'[u] = IF u = t THEN NoJob ELSE job_map_[u]
  BY <1>1, <1>4 DEF TypeInv
<1>8. Made' = Made
  BY <1>2 DEF Made, jobVars
<1>9. Mapped' = Mapped
  BY <1>1, <1>3, <1>5, <1>7, <1>8 DEF Mapped
<1>10. clock' \in Times /\ now' \in Times /\ clock <= clock' /\ now' <= clock'
  BY <1>1, <1>2 DEF TypeInv, Times
<1>. QED
  BY <1>2, <1>3, <1>6, <1>7, <1>9, <1>10, QuietStep

-----------------------------------------------------------------------------
(* Insert.                                                                 *)

\* The job leaves its thread for the map, or is dropped.
LEMMA InsertStages ==
  ASSUME JobInv, NEW t \in Threads, Insert(t)
  PROVE  LET j == inserting[t] IN
         /\ j \in Inserting /\ Inserting' = Inserting \ {j}
         /\ \/ Mapped' = Mapped \cup {j} /\ dropped' = dropped
            \/ /\ Mapped' = Mapped /\ dropped' = dropped \cup {j}
               /\ \E i \in Mapped : key[i] = key[j]
         /\ Queued' = Queued /\ Running' = Running /\ Finished' = Finished
<1> DEFINE j == inserting[t]
<1>1. TypeInv /\ HomeInv /\ NoJob \notin Made
  BY NoJobMade DEF JobInv
<1>2. /\ UNCHANGED <<timer, queue_, running, scheduled, done>> /\ timer # "erase"
      /\ inserting' = [inserting EXCEPT ![t] = NoJob]
  BY DEF Insert, jobVars
<1>3. j \in Made /\ Made' = Made /\ j # NoJob
  BY <1>1, <1>2, ValuesMade DEF Insert, Made
<1>4. key[j] \in Times
  BY <1>1, <1>3, ValuesMade
<1>5. j \in Inserting
  BY <1>3 DEF Inserting
<1>6. \A u \in Threads : inserting[u] = j => u = t
  BY <1>1, <1>3 DEF HomeInv
<1>7. Inserting' = Inserting \ {j}
  BY <1>1, <1>2, <1>3, <1>6 DEF Inserting, TypeInv
<1>8. Queued' = Queued /\ Running' = Running /\ Finished' = Finished
  BY <1>2, <1>3 DEF Queued, Running, Finished
<1>9. \/ Mapped' = Mapped \cup {j} /\ dropped' = dropped
      \/ Mapped' = Mapped /\ dropped' = dropped \cup {j} /\ \E i \in Mapped : key[i] = key[j]
  <2>1. CASE /\ job_map_[key[j]] = NoJob /\ dropped' = dropped
             /\ job_map_' = [job_map_ EXCEPT ![key[j]] = j]
    <3>1. \A u \in Times : job_map_'[u] = IF u = key[j] THEN j ELSE job_map_[u]
      BY <1>1, <1>4, <2>1 DEF TypeInv
    <3>. HIDE DEF j
    <3>2. Mapped' = Mapped \cup {j}
      BY <1>1, <1>2, <1>3, <1>4, <2>1, <3>1 DEF Mapped
    <3>. QED
      BY <2>1, <3>2
  <2>2. CASE job_map_[key[j]] # NoJob /\ dropped' = dropped \cup {j} /\ job_map_' = job_map_
    <3>. HIDE DEF j
    <3>1. Mapped' = Mapped
      BY <1>2, <1>3, <2>2 DEF Mapped
    <3>2. job_map_[key[j]] \in Mapped
      BY <1>1, <1>2, <1>4, <2>2, ValuesMade DEF Mapped
    <3>3. key[job_map_[key[j]]] = key[j]
      BY <1>1, <1>4, <2>2 DEF HomeInv
    <3>. QED
      BY <2>2, <3>1, <3>2, <3>3
  <2>. QED
    BY <2>1, <2>2 DEF Insert
<1>. QED
  BY <1>5, <1>7, <1>8, <1>9

\* Insert keeps the invariant.
LEMMA InsertStep ==
  ASSUME JobInv, NEW t \in Threads, Insert(t)
  PROVE  JobInv'
<1> DEFINE j == inserting[t]
<1>1. TypeInv /\ HomeInv /\ NoJob \notin Made
  BY NoJobMade DEF JobInv
<1>2. /\ UNCHANGED <<clock, now, timer, queue_, running, done, scheduled, key, processor, caller>>
      /\ timer # "erase" /\ inserting' = [inserting EXCEPT ![t] = NoJob]
  BY DEF Insert, jobVars
<1>3. j \in Made /\ Made' = Made /\ j # NoJob
  BY <1>1, <1>2, ValuesMade DEF Insert, Made
<1>4. key[j] \in Times
  BY <1>1, <1>3, ValuesMade
<1>5. /\ j \in Inserting /\ Inserting' = Inserting \ {j}
      /\ \/ Mapped' = Mapped \cup {j} /\ dropped' = dropped
         \/ Mapped' = Mapped /\ dropped' = dropped \cup {j} /\ \E i \in Mapped : key[i] = key[j]
      /\ Queued' = Queued /\ Running' = Running /\ Finished' = Finished
  BY InsertStages
<1>6. job_map_' = job_map_ \/ job_map_' = [job_map_ EXCEPT ![key[j]] = j]
  BY DEF Insert
<1>7. TypeInv'
  <2>1. job_map_' \in [Times -> Made \cup {NoJob}]
    BY <1>1, <1>3, <1>6 DEF TypeInv
  <2>2. inserting' \in [Threads -> Made \cup {NoJob}]
    BY <1>1, <1>2 DEF TypeInv
  <2>3. dropped' \subseteq Made
    BY <1>1, <1>3, <1>5 DEF TypeInv
  <2>. QED
    BY <1>1, <1>2, <1>3, <2>1, <2>2, <2>3 DEF TypeInv
<1>8. HomeInv'
  <2>1. \A u \in Threads : inserting'[u] # NoJob => caller'[inserting'[u]] = u
    BY <1>1, <1>2 DEF HomeInv, TypeInv
  <2>2. \A u \in Times : job_map_'[u] # NoJob => key'[job_map_'[u]] = u
    <3>. HIDE DEF j
    <3>. QED
      BY <1>1, <1>2, <1>6 DEF HomeInv, TypeInv
  <2>. QED
    BY <1>1, <1>2, <2>1, <2>2 DEF HomeInv
<1> HIDE DEF j
<1>9. StageInv'
  BY <1>3, <1>5 DEF JobInv, StageInv
<1>10. DropInv'
  <2>1. \A i \in Mapped : i \in Made \ (dropped \cup Inserting)
    BY DEF JobInv, StageInv
  <2>2. DropInv
    BY DEF JobInv
  <2>. QED
    BY <1>2, <1>3, <1>5, <2>1, <2>2 DEF DropInv
<1>11. DueInv'
  BY <1>2 DEF JobInv, DueInv, NotBeforeDue
<1>12. OrderInv'
  <2>0. OrderInv /\ Queued \subseteq Made /\ Running \subseteq Made /\ Finished \subseteq Made
    BY DEF JobInv, Queued, Running, Finished
  <2>1. \A i, k \in Made : Before(i, k)' = Before(i, k)
    BY <1>2 DEF Before
  <2>2. \A k \in Made : ~ Before(j, k)
    BY <1>3, <1>5, <2>0 DEF OrderInv
  <2>. QED
    BY <1>2, <1>3, <1>5, <2>0, <2>1, <2>2 DEF OrderInv
<1>. QED
  BY <1>7, <1>8, <1>9, <1>10, <1>11, <1>12 DEF JobInv

-----------------------------------------------------------------------------
(* The timer thread hands a job over.                                      *)

\* The first job of the map goes to the end of its processor's queue.
LEMMA HandOverJob ==
  ASSUME JobInv, HandOver
  PROVE  \E t \in Times : LET j == job_map_[t] IN
           /\ IsFirst(t) /\ t <= now /\ j \in Made /\ j # NoJob /\ key[j] = t
           /\ processor[j] \in Processors
           /\ queue_' = [queue_ EXCEPT ![processor[j]] = Append(@, j)]
<1>1. PICK t \in Times : /\ IsFirst(t) /\ IsDue(t)
                         /\ queue_' = [queue_ EXCEPT ![processor[job_map_[t]]] = Append(@, job_map_[t])]
  BY DEF HandOver
<1>2. t <= now
  BY <1>1 DEF IsDue, JobInv, TypeInv, Times
<1>3. job_map_[t] # NoJob
  BY <1>1 DEF IsFirst
<1>4. job_map_[t] \in Made /\ key[job_map_[t]] = t
  BY <1>3 DEF JobInv, TypeInv, HomeInv
<1>5. processor[job_map_[t]] \in Processors
  BY <1>4, ValuesMade DEF JobInv
<1>. QED
  BY <1>1, <1>2, <1>3, <1>4, <1>5

\* A queue after a job was put at its end.
LEMMA QueueAppend ==
  ASSUME TypeInv, NEW j \in Made, NEW p \in Processors,
         queue_' = [queue_ EXCEPT ![p] = Append(@, j)]
  PROVE  /\ queue_' \in [Processors -> Seq(Made)]
         /\ \A q \in Processors : q # p => queue_'[q] = queue_[q]
         /\ Len(queue_'[p]) = Len(queue_[p]) + 1 /\ Len(queue_[p]) \in Nat
         /\ queue_'[p][Len(queue_[p]) + 1] = j
         /\ \A n \in 1 .. Len(queue_[p]) : queue_'[p][n] = queue_[p][n]
<1>1. queue_[p] \in Seq(Made) /\ queue_'[p] = Append(queue_[p], j)
  BY DEF TypeInv
<1>2. \A q \in Processors : q # p => queue_'[q] = queue_[q]
  BY DEF TypeInv
<1>3. Append(queue_[p], j) \in Seq(Made)
  BY <1>1
<1>4. queue_' \in [Processors -> Seq(Made)]
  BY <1>1, <1>3 DEF TypeInv
<1>5. /\ Len(queue_'[p]) = Len(queue_[p]) + 1 /\ Len(queue_[p]) \in Nat
      /\ queue_'[p][Len(queue_[p]) + 1] = j
      /\ \A n \in 1 .. Len(queue_[p]) : queue_'[p][n] = queue_[p][n]
  BY <1>1
<1>. QED
  BY <1>2, <1>4, <1>5

\* The job leaves the map for the queue.
LEMMA HandOverStages ==
  ASSUME JobInv, HandOver, NEW t \in Times, NEW j \in Made, IsFirst(t), j = job_map_[t],
         queue_' = [queue_ EXCEPT ![processor[j]] = Append(@, j)]
  PROVE  /\ j \in Mapped /\ Mapped' = Mapped \ {j} /\ Queued' = Queued \cup {j}
         /\ Inserting' = Inserting /\ Running' = Running /\ Finished' = Finished /\ dropped' = dropped
<1>1. TypeInv /\ HomeInv /\ NoJob \notin Made
  BY NoJobMade DEF JobInv
<1>2. /\ UNCHANGED <<job_map_, inserting, running, scheduled, dropped, done>>
      /\ timer = "check" /\ timer' = "erase" /\ Made' = Made
  BY DEF HandOver, jobVars, Made
<1>3. \A u \in Times : IsFirst(u)' <=> u = t
  <2>1. \A u \in Times : IsFirst(u)' <=> IsFirst(u)
    BY <1>2 DEF IsFirst
  <2>. QED
    BY <1>1, <2>1, FirstIsOne
<1>4. \A u \in Times : job_map_[u] = j => u = t
  BY <1>1 DEF HomeInv
<1>5. j \in Mapped
  BY <1>2 DEF Mapped
<1>6. Mapped' = Mapped \ {j}
  BY <1>2, <1>3, <1>4 DEF Mapped
<1>7. processor[j] \in Processors
  BY <1>1, ValuesMade
<1>8. Queued' = Queued \cup {j}
  <2> DEFINE p == processor[j]
  <2>1. /\ \A q \in Processors : q # p => queue_'[q] = queue_[q]
        /\ Len(queue_'[p]) = Len(queue_[p]) + 1 /\ Len(queue_[p]) \in Nat
        /\ queue_'[p][Len(queue_[p]) + 1] = j
        /\ \A n \in 1 .. Len(queue_[p]) : queue_'[p][n] = queue_[p][n]
    BY <1>1, <1>7, QueueAppend
  <2>2. p \in Processors
    BY <1>7
  <2> HIDE DEF p
  <2>3. ASSUME NEW i \in Made, NEW q \in Processors, NEW n \in 1 .. Len(queue_'[q]), queue_'[q][n] = i
        PROVE  i \in Queued \cup {j}
    BY <2>1, <2>2, <2>3 DEF Queued
  <2>4. ASSUME NEW i \in Made, NEW q \in Processors, NEW n \in 1 .. Len(queue_[q]), queue_[q][n] = i
        PROVE  i \in Queued'
    <3>1. n \in 1 .. Len(queue_'[q]) /\ queue_'[q][n] = i
      BY <2>1, <2>2, <2>4
    <3>. QED
      BY <1>2, <3>1 DEF Queued
  <2>5. j \in Queued'
    <3>1. Len(queue_[p]) + 1 \in 1 .. Len(queue_'[p])
      BY <2>1
    <3>. QED
      BY <1>2, <2>1, <2>2, <3>1 DEF Queued
  <2>6. Queued' \subseteq Queued \cup {j}
    BY <1>2, <2>3 DEF Queued
  <2>7. Queued \subseteq Queued'
    BY <2>4 DEF Queued
  <2>. QED
    BY <2>5, <2>6, <2>7
<1>9. Inserting' = Inserting /\ Running' = Running /\ Finished' = Finished
  BY <1>2 DEF Inserting, Running, Finished
<1>. QED
  BY <1>2, <1>5, <1>6, <1>8, <1>9

\* Handing a job over keeps the invariant.
LEMMA HandOverStep ==
  ASSUME JobInv, HandOver
  PROVE  JobInv'
<1>1. PICK t \in Times :
        /\ IsFirst(t) /\ t <= now /\ job_map_[t] \in Made /\ job_map_[t] # NoJob
        /\ key[job_map_[t]] = t /\ processor[job_map_[t]] \in Processors
        /\ queue_' = [queue_ EXCEPT ![processor[job_map_[t]]] = Append(@, job_map_[t])]
  BY HandOverJob
<1> DEFINE j == job_map_[t]
           p == processor[j]
           l == Len(queue_[p])
<1>2. TypeInv /\ HomeInv /\ StageInv /\ OrderInv /\ NoJob \notin Made
  BY NoJobMade DEF JobInv
<1>3. /\ UNCHANGED <<clock, now, job_map_, inserting, running, scheduled, key, processor, caller, dropped, done>>
      /\ timer = "check" /\ timer' = "erase" /\ Made' = Made
  BY DEF HandOver, jobVars, Made
<1>4. j \in Made /\ key[j] = t /\ p \in Processors /\ processor[j] = p
  BY <1>1
<1>5. /\ j \in Mapped /\ Mapped' = Mapped \ {j} /\ Queued' = Queued \cup {j}
      /\ Inserting' = Inserting /\ Running' = Running /\ Finished' = Finished /\ dropped' = dropped
  BY <1>1, HandOverStages
<1>6. /\ queue_' \in [Processors -> Seq(Made)]
      /\ \A q \in Processors : q # p => queue_'[q] = queue_[q]
      /\ Len(queue_'[p]) = l + 1 /\ l \in Nat
      /\ queue_'[p][l + 1] = j
      /\ \A n \in 1 .. l : queue_'[p][n] = queue_[p][n]
  BY <1>1, <1>2, QueueAppend
<1>7. \A i \in Mapped : key[i] <= t => i = j
  <2>1. \A u \in Times : job_map_[u] # NoJob /\ u <= t => u = t
    BY <1>1, TimeAssumption DEF IsFirst, Times
  <2>. QED
    BY <1>2, <1>4, <2>1 DEF Mapped, HomeInv
<1> HIDE DEF j, p, l
<1>8. \A n \in 1 .. l : queue_[p][n] \in Queued /\ queue_[p][n] # j
  <2>1. \A n \in 1 .. l : queue_[p][n] \in Queued
    BY <1>2, <1>4, ValuesMade DEF Queued, l
  <2>. QED
    BY <1>2, <1>5, <2>1 DEF StageInv
<1>9. TypeInv'
  BY <1>2, <1>3, <1>6 DEF TypeInv
<1>10. HomeInv'
  <2>1. ASSUME NEW q \in Processors, NEW n \in 1 .. Len(queue_'[q])
        PROVE  processor[queue_'[q][n]] = q
    <3>1. CASE q # p
      BY <1>2, <1>6, <3>1 DEF HomeInv
    <3>2. CASE q = p
      <4>1. n \in 1 .. l \/ n = l + 1
        BY <1>6, <3>2
      <4>2. \A a \in 1 .. l : processor[queue_[p][a]] = p
        BY <1>2, <1>4 DEF HomeInv, l
      <4>. QED
        BY <1>4, <1>6, <3>2, <4>1, <4>2
    <3>. QED
      BY <3>1, <3>2
  <2>2. ASSUME NEW q \in Processors, NEW m \in 1 .. Len(queue_'[q]), NEW n \in 1 .. Len(queue_'[q]),
               queue_'[q][m] = queue_'[q][n]
        PROVE  m = n
    <3>1. CASE q # p
      BY <1>2, <1>6, <2>2, <3>1 DEF HomeInv
    <3>2. CASE q = p
      <4>1. m \in 1 .. l \/ m = l + 1
        BY <1>6, <3>2
      <4>2. n \in 1 .. l \/ n = l + 1
        BY <1>6, <3>2
      <4>3. \A a, b \in 1 .. l : queue_[p][a] = queue_[p][b] => a = b
        BY <1>2, <1>4 DEF HomeInv, l
      <4>. QED
        BY <1>6, <1>8, <2>2, <3>2, <4>1, <4>2, <4>3
    <3>. QED
      BY <3>1, <3>2
  <2>. QED
    BY <1>2, <1>3, <2>1, <2>2 DEF HomeInv
<1>11. StageInv'
  BY <1>2, <1>3, <1>4, <1>5 DEF StageInv
<1>12. DropInv'
  BY <1>3, <1>5 DEF JobInv, DropInv
<1>13. DueInv'
  <2>1. key[j] <= clock
    BY <1>1, <1>2, <1>4 DEF JobInv, DueInv, TypeInv, Times
  <2>2. NotBeforeDue /\ now <= clock
    BY DEF JobInv, DueInv
  <2>3. \A q \in Processors : DOMAIN queue_[q] = 1 .. Len(queue_[q]) /\ DOMAIN queue_'[q] = 1 .. Len(queue_'[q])
    BY <1>2, <1>6 DEF TypeInv
  <2>4. ASSUME NEW q \in Processors, NEW n \in 1 .. Len(queue_'[q])
        PROVE  key[queue_'[q][n]] <= clock
    BY <1>4, <1>6, <2>1, <2>2, <2>3 DEF NotBeforeDue, l
  <2>. QED
    BY <1>3, <2>2, <2>3, <2>4 DEF DueInv, NotBeforeDue
<1>14. OrderInv'
  <2> SUFFICES ASSUME NEW i \in Made, NEW k \in Made, Before(i, k)
               PROVE  /\ i \notin Inserting'
                      /\ k \in Queued' \cup Running' \cup Finished' => i \notin Mapped'
                      /\ k \in Running' \cup Finished' => i \notin Queued'
                      /\ k \in Finished' => i \notin Running'
                      /\ \A q \in Processors : \A m, n \in 1 .. Len(queue_'[q]) :
                           queue_'[q][m] = i /\ queue_'[q][n] = k => m < n
                      /\ \A m, n \in 1 .. Len(done') : done'[m] = i /\ done'[n] = k => m < n
    <3>1. \A i, k \in Made : Before(i, k)' = Before(i, k)
      BY <1>3 DEF Before
    <3>. QED
      BY <1>3, <3>1 DEF OrderInv
  <2>1. /\ i \notin Inserting
        /\ k \in Queued \cup Running \cup Finished => i \notin Mapped
        /\ k \in Running \cup Finished => i \notin Queued
        /\ k \in Finished => i \notin Running
        /\ \A q \in Processors : \A m, n \in 1 .. Len(queue_[q]) :
             queue_[q][m] = i /\ queue_[q][n] = k => m < n
        /\ \A m, n \in 1 .. Len(done) : done[m] = i /\ done[n] = k => m < n
    BY <1>2 DEF OrderInv
  <2>2. i < k /\ i # k /\ key[i] <= key[k]
    BY <1>2 DEF Before, Made, TypeInv
  <2>3. k = j => i \notin Mapped
    BY <1>4, <1>7, <2>2
  <2>4. i = j => k \notin Queued'
    BY <1>5, <2>1, <2>2
  <2>5. ASSUME NEW q \in Processors, NEW m \in 1 .. Len(queue_'[q]), NEW n \in 1 .. Len(queue_'[q]),
               queue_'[q][m] = i, queue_'[q][n] = k
        PROVE  m < n
    <3>1. CASE q # p
      BY <1>6, <2>1, <2>5, <3>1
    <3>2. CASE q = p
      <4>1. k \in Queued'
        BY <1>3, <2>5 DEF Queued
      <4>2. m \in 1 .. l
        BY <1>6, <2>4, <2>5, <3>2, <4>1
      <4>3. n \in 1 .. l \/ n = l + 1
        BY <1>6, <3>2
      <4>4. \A a, b \in 1 .. l : queue_[p][a] = i /\ queue_[p][b] = k => a < b
        BY <1>4, <2>1 DEF l
      <4>. QED
        BY <1>6, <2>5, <3>2, <4>2, <4>3, <4>4
    <3>. QED
      BY <3>1, <3>2
  <2>6. k \in Queued' \cup Running' \cup Finished' => i \notin Mapped'
    BY <1>5, <2>1, <2>3
  <2>7. k \in Running' \cup Finished' => i \notin Queued'
    BY <1>5, <2>1
  <2>. QED
    BY <1>3, <1>5, <2>1, <2>5, <2>6, <2>7
<1>. QED
  BY <1>9, <1>10, <1>11, <1>12, <1>13, <1>14 DEF JobInv

-----------------------------------------------------------------------------
(* The processors.                                                         *)

\* A queue after its first job was taken.
LEMMA QueueTail ==
  ASSUME TypeInv, NEW p \in Processors, queue_[p] # << >>,
         queue_' = [queue_ EXCEPT ![p] = Tail(@)]
  PROVE  /\ queue_' \in [Processors -> Seq(Made)]
         /\ \A q \in Processors : q # p => queue_'[q] = queue_[q]
         /\ Len(queue_[p]) \in Nat /\ 1 \in 1 .. Len(queue_[p]) /\ Head(queue_[p]) = queue_[p][1]
         /\ Len(queue_'[p]) = Len(queue_[p]) - 1
         /\ \A n \in 1 .. Len(queue_[p]) - 1 : queue_'[p][n] = queue_[p][n + 1]
<1>1. queue_[p] \in Seq(Made) /\ queue_'[p] = Tail(queue_[p])
  BY DEF TypeInv
<1>2. \A q \in Processors : q # p => queue_'[q] = queue_[q]
  BY DEF TypeInv
<1>3. Tail(queue_[p]) \in Seq(Made)
  BY <1>1
<1>4. queue_' \in [Processors -> Seq(Made)]
  BY <1>1, <1>3 DEF TypeInv
<1>5. Len(queue_[p]) \in Nat /\ Len(queue_[p]) # 0
  BY <1>1
<1>6. Head(queue_[p]) = queue_[p][1]
  BY <1>1
<1>7. /\ Len(queue_'[p]) = Len(queue_[p]) - 1
      /\ \A n \in 1 .. Len(queue_[p]) - 1 : queue_'[p][n] = queue_[p][n + 1]
  <2>1. /\ Len(Tail(queue_[p])) = Len(queue_[p]) - 1
        /\ \A n \in 1 .. Len(Tail(queue_[p])) : Tail(queue_[p])[n] = queue_[p][n + 1]
    BY <1>1, HeadTailProperties
  <2>. QED
    BY <1>1, <2>1
<1>. QED
  BY <1>2, <1>4, <1>5, <1>6, <1>7

\* The first job of the queue runs.
LEMMA DequeueStages ==
  ASSUME JobInv, NEW p \in Processors, Dequeue(p)
  PROVE  LET j == queue_[p][1] IN
         /\ j \in Made /\ j \in Queued /\ Queued' = Queued \ {j} /\ Running' = Running \cup {j}
         /\ Inserting' = Inserting /\ Mapped' = Mapped /\ Finished' = Finished /\ dropped' = dropped
<1> DEFINE j == queue_[p][1]
           l == Len(queue_[p])
<1>1. TypeInv /\ HomeInv /\ NoJob \notin Made
  BY NoJobMade DEF JobInv
<1>2. /\ UNCHANGED <<timer, job_map_, inserting, scheduled, dropped, done>>
      /\ running[p] = NoJob /\ Made' = Made /\ queue_[p] # << >>
      /\ queue_' = [queue_ EXCEPT ![p] = Tail(@)]
      /\ running' = [running EXCEPT ![p] = Head(queue_[p])]
  BY DEF Dequeue, jobVars, Made
<1>3. /\ \A q \in Processors : q # p => queue_'[q] = queue_[q]
      /\ l \in Nat /\ 1 \in 1 .. l /\ Head(queue_[p]) = j
      /\ Len(queue_'[p]) = l - 1
      /\ \A n \in 1 .. l - 1 : queue_'[p][n] = queue_[p][n + 1]
  BY <1>1, <1>2, QueueTail
<1>4. j \in Made /\ processor[j] = p
  BY <1>1, <1>3, ValuesMade DEF HomeInv
<1>5. j \in Queued
  BY <1>3, <1>4 DEF Queued
<1>6. \A q \in Processors : \A n \in 1 .. Len(queue_[q]) : queue_[q][n] = j => q = p /\ n = 1
  <2>1. \A q \in Processors : \A n \in 1 .. Len(queue_[q]) : queue_[q][n] = j => q = p
    BY <1>1, <1>4 DEF HomeInv
  <2>2. \A n \in 1 .. l : queue_[p][n] = j => n = 1
    BY <1>1, <1>3 DEF HomeInv
  <2>. QED
    BY <2>1, <2>2
<1> HIDE DEF j
<1>7. ASSUME NEW i \in Made, NEW q \in Processors, NEW n \in 1 .. Len(queue_'[q]), queue_'[q][n] = i
      PROVE  i \in Queued \ {j}
  <2>1. CASE q # p
    BY <1>3, <1>6, <1>7, <2>1 DEF Queued
  <2>2. CASE q = p
    <3>1. n + 1 \in 1 .. l /\ queue_[p][n + 1] = i /\ n + 1 # 1
      BY <1>3, <1>7, <2>2
    <3>. QED
      BY <1>6, <3>1 DEF Queued
  <2>. QED
    BY <2>1, <2>2
<1>8. ASSUME NEW i \in Made, i # j, NEW q \in Processors, NEW n \in 1 .. Len(queue_[q]), queue_[q][n] = i
      PROVE  i \in Queued'
  <2>1. CASE q # p
    BY <1>2, <1>3, <1>8, <2>1 DEF Queued
  <2>2. CASE q = p
    <3>1. n # 1
      BY <1>8, <2>2 DEF j
    <3>2. n - 1 \in 1 .. l - 1 /\ (n - 1) + 1 = n
      BY <1>3, <1>8, <2>2, <3>1
    <3>3. n - 1 \in 1 .. Len(queue_'[p]) /\ queue_'[p][n - 1] = i
      BY <1>3, <1>8, <2>2, <3>2
    <3>. QED
      BY <1>2, <3>3 DEF Queued
  <2>. QED
    BY <2>1, <2>2
<1>9. Queued' = Queued \ {j}
  <2>1. Queued' \subseteq Queued \ {j}
    BY <1>2, <1>7, ZenonT(30) DEF Queued
  <2>2. Queued \ {j} \subseteq Queued'
    BY <1>8 DEF Queued
  <2>. QED
    BY <2>1, <2>2
<1>10. Running' = Running \cup {j}
  BY <1>1, <1>2, <1>3, <1>4 DEF Running, TypeInv
<1>11. Inserting' = Inserting /\ Mapped' = Mapped /\ Finished' = Finished
  BY <1>2 DEF Inserting, Mapped, Finished, IsFirst
<1>. QED
  BY <1>2, <1>4, <1>5, <1>9, <1>10, <1>11 DEF j

\* Taking a job from a queue keeps the invariant.
LEMMA DequeueStep ==
  ASSUME JobInv, NEW p \in Processors, Dequeue(p)
  PROVE  JobInv'
<1> DEFINE j == queue_[p][1]
           l == Len(queue_[p])
<1>1. TypeInv /\ HomeInv /\ StageInv /\ OrderInv /\ NoJob \notin Made
  BY NoJobMade DEF JobInv
<1>2. /\ UNCHANGED <<clock, now, timer, job_map_, inserting, scheduled, key, processor, caller, dropped, done>>
      /\ running[p] = NoJob /\ Made' = Made /\ queue_[p] # << >>
      /\ queue_' = [queue_ EXCEPT ![p] = Tail(@)]
      /\ running' = [running EXCEPT ![p] = Head(queue_[p])]
  BY DEF Dequeue, jobVars, Made
<1>3. /\ queue_' \in [Processors -> Seq(Made)]
      /\ \A q \in Processors : q # p => queue_'[q] = queue_[q]
      /\ l \in Nat /\ 1 \in 1 .. l /\ Head(queue_[p]) = j
      /\ Len(queue_'[p]) = l - 1
      /\ \A n \in 1 .. l - 1 : queue_'[p][n] = queue_[p][n + 1]
  BY <1>1, <1>2, QueueTail
<1>4. /\ j \in Made /\ j \in Queued /\ Queued' = Queued \ {j} /\ Running' = Running \cup {j}
      /\ Inserting' = Inserting /\ Mapped' = Mapped /\ Finished' = Finished /\ dropped' = dropped
  BY DequeueStages
<1>5. processor[j] = p
  BY <1>1, <1>3 DEF HomeInv
<1>6. \A n \in 1 .. l - 1 : n + 1 \in 1 .. l
  BY <1>3
<1> HIDE DEF j
<1>7. TypeInv'
  <2>1. running' \in [Processors -> Made \cup {NoJob}]
    BY <1>1, <1>2, <1>3, <1>4 DEF TypeInv
  <2>. QED
    BY <1>1, <1>2, <1>3, <2>1 DEF TypeInv
<1>8. HomeInv'
  <2>1. \A q \in Processors : running'[q] # NoJob => processor[running'[q]] = q
    BY <1>1, <1>2, <1>3, <1>5 DEF HomeInv, TypeInv
  <2>2. ASSUME NEW q \in Processors, NEW n \in 1 .. Len(queue_'[q])
        PROVE  processor[queue_'[q][n]] = q
    BY <1>1, <1>3, <1>6, SMTT(30) DEF HomeInv
  <2>3. ASSUME NEW q \in Processors, NEW m \in 1 .. Len(queue_'[q]), NEW n \in 1 .. Len(queue_'[q]),
               queue_'[q][m] = queue_'[q][n]
        PROVE  m = n
    <3>1. CASE q # p
      BY <1>1, <1>3, <2>3, <3>1 DEF HomeInv
    <3>2. CASE q = p
      <4>1. m \in 1 .. l - 1 /\ n \in 1 .. l - 1 /\ queue_[p][m + 1] = queue_[p][n + 1]
        BY <1>3, <2>3, <3>2
      <4>2. m + 1 = n + 1
        BY <1>1, <1>6, <4>1 DEF HomeInv
      <4>. QED
        BY <4>1, <4>2
    <3>. QED
      BY <3>1, <3>2
  <2>. QED
    BY <1>1, <1>2, <2>1, <2>2, <2>3 DEF HomeInv
<1>9. StageInv'
  BY <1>1, <1>2, <1>4 DEF StageInv
<1>10. DropInv'
  BY <1>2, <1>4 DEF JobInv, DropInv
<1>11. DueInv'
  <2>1. NotBeforeDue /\ now <= clock
    BY DEF JobInv, DueInv
  <2>2. \A q \in Processors : DOMAIN queue_[q] = 1 .. Len(queue_[q]) /\ DOMAIN queue_'[q] = 1 .. Len(queue_'[q])
    BY <1>1, <1>3 DEF TypeInv
  <2>3. ASSUME NEW q \in Processors, NEW n \in 1 .. Len(queue_'[q])
        PROVE  key[queue_'[q][n]] <= clock
    <3>1. \A r \in Processors : \A a \in 1 .. Len(queue_[r]) : key[queue_[r][a]] <= clock
      BY <2>1, <2>2 DEF NotBeforeDue
    <3>2. CASE q # p
      BY <1>3, <3>1, <3>2
    <3>3. CASE q = p
      <4>1. n \in 1 .. l - 1 /\ queue_'[q][n] = queue_[p][n + 1]
        BY <1>3, <3>3
      <4>. QED
        BY <1>6, <3>1, <4>1
    <3>. QED
      BY <3>2, <3>3
  <2>4. key[j] <= clock
    BY <1>3, <2>1, <2>2 DEF NotBeforeDue, j
  <2>5. \A q \in Processors : running'[q] # NoJob => key[running'[q]] <= clock
    BY <1>1, <1>2, <1>3, <2>1, <2>4 DEF NotBeforeDue, TypeInv
  <2>. QED
    BY <1>2, <2>1, <2>2, <2>3, <2>5 DEF DueInv, NotBeforeDue
<1>12. OrderInv'
  <2> SUFFICES ASSUME NEW i \in Made, NEW k \in Made, Before(i, k)
               PROVE  /\ i \notin Inserting'
                      /\ k \in Queued' \cup Running' \cup Finished' => i \notin Mapped'
                      /\ k \in Running' \cup Finished' => i \notin Queued'
                      /\ k \in Finished' => i \notin Running'
                      /\ \A q \in Processors : \A m, n \in 1 .. Len(queue_'[q]) :
                           queue_'[q][m] = i /\ queue_'[q][n] = k => m < n
                      /\ \A m, n \in 1 .. Len(done') : done'[m] = i /\ done'[n] = k => m < n
    <3>1. \A i, k \in Made : Before(i, k)' = Before(i, k)
      BY <1>2 DEF Before
    <3>. QED
      BY <1>2, <3>1, ZenonT(30) DEF OrderInv
  <2>1. /\ i \notin Inserting
        /\ k \in Queued \cup Running \cup Finished => i \notin Mapped
        /\ k \in Running \cup Finished => i \notin Queued
        /\ k \in Finished => i \notin Running
        /\ \A q \in Processors : \A m, n \in 1 .. Len(queue_[q]) :
             queue_[q][m] = i /\ queue_[q][n] = k => m < n
        /\ \A m, n \in 1 .. Len(done) : done[m] = i /\ done[n] = k => m < n
    BY <1>1 DEF OrderInv
  <2>2. k = j => i \notin Queued
    <3> SUFFICES ASSUME k = j, i \in Queued PROVE FALSE
      OBVIOUS
    <3>0. PICK q \in Processors : \E n \in 1 .. Len(queue_[q]) : queue_[q][n] = i
      BY DEF Queued
    <3>1. PICK n \in 1 .. Len(queue_[q]) : queue_[q][n] = i
      BY <3>0
    <3>2. processor[i] = q /\ processor[i] = processor[k]
      BY <1>1, <3>1 DEF HomeInv, Before
    <3>3. q = p
      BY <1>5, <3>2
    <3>4. n < 1
      BY <1>3, <2>1, <3>1, <3>3 DEF j
    <3>. QED
      BY <3>1, <3>4
  <2>3. ASSUME NEW q \in Processors, NEW m \in 1 .. Len(queue_'[q]), NEW n \in 1 .. Len(queue_'[q]),
               queue_'[q][m] = i, queue_'[q][n] = k
        PROVE  m < n
    <3>1. CASE q # p
      BY <1>3, <2>1, <2>3, <3>1
    <3>2. CASE q = p
      <4>1. m \in 1 .. l - 1 /\ n \in 1 .. l - 1 /\ queue_[p][m + 1] = i /\ queue_[p][n + 1] = k
        BY <1>3, <2>3, <3>2
      <4>2. m + 1 < n + 1
        BY <1>6, <2>1, <4>1
      <4>. QED
        BY <4>1, <4>2
    <3>. QED
      BY <3>1, <3>2
  <2>4. k \in Queued' \cup Running' \cup Finished' => i \notin Mapped'
    BY <1>4, <2>1
  <2>5. k \in Running' \cup Finished' => i \notin Queued'
    BY <1>4, <2>1, <2>2
  <2>6. k \in Finished' => i \notin Running'
    BY <1>4, <2>1
  <2>. QED
    BY <1>2, <1>4, <2>1, <2>3, <2>4, <2>5, <2>6
<1>. QED
  BY <1>7, <1>8, <1>9, <1>10, <1>11, <1>12 DEF JobInv

\* A job that was run is done.
LEMMA DoStages ==
  ASSUME JobInv, NEW p \in Processors, Do(p)
  PROVE  LET j == running[p] IN
         /\ j \in Made /\ j \in Running /\ Running' = Running \ {j} /\ Finished' = Finished \cup {j}
         /\ Inserting' = Inserting /\ Mapped' = Mapped /\ Queued' = Queued /\ dropped' = dropped
         /\ done' \in Seq(Made) /\ Len(done) \in Nat /\ Len(done') = Len(done) + 1
         /\ done'[Len(done) + 1] = j /\ \A n \in 1 .. Len(done) : done'[n] = done[n]
<1> DEFINE j == running[p]
           l == Len(done)
<1>1. TypeInv /\ HomeInv /\ NoJob \notin Made
  BY NoJobMade DEF JobInv
<1>2. /\ UNCHANGED <<timer, job_map_, inserting, queue_, scheduled, dropped>>
      /\ running[p] # NoJob /\ Made' = Made
      /\ running' = [running EXCEPT ![p] = NoJob] /\ done' = Append(done, j)
  BY DEF Do, jobVars, Made
<1>3. j \in Made /\ j \in Running /\ j # NoJob
  BY <1>1, <1>2, ValuesMade DEF Running
<1>4. \A q \in Processors : running[q] = j => q = p
  BY <1>1, <1>3 DEF HomeInv
<1>5. Running' = Running \ {j}
  <2>1. \A q \in Processors : running'[q] = IF q = p THEN NoJob ELSE running[q]
    BY <1>1, <1>2 DEF TypeInv
  <2> HIDE DEF j
  <2>. QED
    BY <1>1, <1>2, <1>4, <2>1 DEF Running, j
<1>6. done \in Seq(Made)
  BY <1>1 DEF TypeInv
<1> HIDE DEF j
<1>7. /\ done' \in Seq(Made) /\ l \in Nat /\ Len(done') = l + 1
      /\ done'[l + 1] = j /\ \A n \in 1 .. l : done'[n] = done[n]
  BY <1>2, <1>3, <1>6
<1>8. Finished' = Finished \cup {j}
  <2>1. \A n \in 1 .. Len(done') : n \in 1 .. l \/ n = l + 1
    BY <1>7
  <2>2. l + 1 \in 1 .. Len(done') /\ \A n \in 1 .. l : n \in 1 .. Len(done')
    BY <1>7
  <2>. QED
    BY <1>2, <1>3, <1>7, <2>1, <2>2 DEF Finished
<1>9. Inserting' = Inserting /\ Mapped' = Mapped /\ Queued' = Queued
  BY <1>2 DEF Inserting, Mapped, Queued, IsFirst
<1>. QED
  BY <1>2, <1>3, <1>5, <1>7, <1>8, <1>9 DEF j

\* A job that ends keeps the invariant.
LEMMA DoStep ==
  ASSUME JobInv, NEW p \in Processors, Do(p)
  PROVE  JobInv'
<1> DEFINE j == running[p]
           l == Len(done)
<1>1. TypeInv /\ HomeInv /\ StageInv /\ OrderInv /\ NoJob \notin Made
  BY NoJobMade DEF JobInv
<1>2. /\ UNCHANGED <<clock, now, timer, job_map_, inserting, queue_, scheduled, key, processor, caller, dropped>>
      /\ j # NoJob /\ Made' = Made /\ running' = [running EXCEPT ![p] = NoJob]
  BY DEF Do, jobVars, Made
<1>3. /\ j \in Made /\ j \in Running /\ Running' = Running \ {j} /\ Finished' = Finished \cup {j}
      /\ Inserting' = Inserting /\ Mapped' = Mapped /\ Queued' = Queued /\ dropped' = dropped
  BY DoStages
<1>4. /\ done' \in Seq(Made) /\ l \in Nat /\ Len(done') = l + 1
      /\ done'[l + 1] = j /\ \A n \in 1 .. l : done'[n] = done[n]
  BY DoStages
<1>5. \A n \in 1 .. l : done[n] \in Finished
  BY <1>1, ValuesMade DEF Finished
<1>6. \A n \in 1 .. l : done[n] # j
  BY <1>1, <1>3, <1>5 DEF StageInv
<1>7. \A n \in 1 .. Len(done') : n \in 1 .. l \/ n = l + 1
  BY <1>4
<1>8. processor[j] = p /\ \A i \in Running : processor[i] = p => i = j
  BY <1>1, <1>2 DEF HomeInv, Running
<1>9. key[j] <= clock
  BY <1>2 DEF JobInv, DueInv, NotBeforeDue
<1> HIDE DEF j
<1>10. TypeInv'
  <2>1. running' \in [Processors -> Made \cup {NoJob}]
    BY <1>1, <1>2 DEF TypeInv
  <2>. QED
    BY <1>1, <1>2, <1>4, <2>1 DEF TypeInv
<1>11. HomeInv'
  <2>1. \A q \in Processors : running'[q] # NoJob => processor[running'[q]] = q
    BY <1>1, <1>2 DEF HomeInv, TypeInv
  <2>2. \A m, n \in 1 .. Len(done') : done'[m] = done'[n] => m = n
    <3>1. \A m, n \in 1 .. l : done[m] = done[n] => m = n
      BY <1>1 DEF HomeInv
    <3>. QED
      BY <1>4, <1>6, <1>7, <3>1
  <2>. QED
    BY <1>1, <1>2, <2>1, <2>2 DEF HomeInv
<1>12. StageInv'
  BY <1>1, <1>2, <1>3 DEF StageInv
<1>13. DropInv'
  BY <1>2, <1>3 DEF JobInv, DropInv
<1>14. DueInv'
  <2>1. NotBeforeDue /\ now <= clock
    BY DEF JobInv, DueInv
  <2>2. DOMAIN done = 1 .. l /\ DOMAIN done' = 1 .. Len(done')
    BY <1>1, <1>4 DEF TypeInv
  <2>3. \A n \in DOMAIN done' : key[done'[n]] <= clock
    BY <1>4, <1>7, <1>9, <2>1, <2>2 DEF NotBeforeDue
  <2>4. \A q \in Processors : running'[q] # NoJob => key[running'[q]] <= clock
    BY <1>1, <1>2, <2>1 DEF NotBeforeDue, TypeInv
  <2>. QED
    BY <1>2, <2>1, <2>3, <2>4 DEF DueInv, NotBeforeDue
<1>15. OrderInv'
  <2> SUFFICES ASSUME NEW i \in Made, NEW k \in Made, Before(i, k)
               PROVE  /\ i \notin Inserting'
                      /\ k \in Queued' \cup Running' \cup Finished' => i \notin Mapped'
                      /\ k \in Running' \cup Finished' => i \notin Queued'
                      /\ k \in Finished' => i \notin Running'
                      /\ \A q \in Processors : \A m, n \in 1 .. Len(queue_'[q]) :
                           queue_'[q][m] = i /\ queue_'[q][n] = k => m < n
                      /\ \A m, n \in 1 .. Len(done') : done'[m] = i /\ done'[n] = k => m < n
    <3>1. \A i, k \in Made : Before(i, k)' = Before(i, k)
      BY <1>2 DEF Before
    <3>. QED
      BY <1>2, <3>1 DEF OrderInv
  <2>1. /\ i \notin Inserting
        /\ k \in Queued \cup Running \cup Finished => i \notin Mapped
        /\ k \in Running \cup Finished => i \notin Queued
        /\ k \in Finished => i \notin Running
        /\ \A q \in Processors : \A m, n \in 1 .. Len(queue_[q]) :
             queue_[q][m] = i /\ queue_[q][n] = k => m < n
        /\ \A m, n \in 1 .. l : done[m] = i /\ done[n] = k => m < n
    BY <1>1 DEF OrderInv
  <2>2. i # k /\ processor[i] = processor[k]
    BY <1>1 DEF Before, Made, TypeInv
  <2>3. k = j => i \notin Running
    BY <1>8, <2>2
  <2>4. ASSUME NEW m \in 1 .. Len(done'), NEW n \in 1 .. Len(done'), done'[m] = i, done'[n] = k
        PROVE  m < n
    <3>1. CASE m \in 1 .. l /\ n \in 1 .. l
      BY <1>4, <2>1, <2>4, <3>1
    <3>2. CASE m \in 1 .. l /\ n = l + 1
      BY <1>4, <3>2
    <3>3. CASE m = l + 1 /\ n \in 1 .. l
      <4>1. i = j /\ k = done[n]
        BY <1>4, <2>4, <3>3
      <4>2. k \in Finished
        BY <1>5, <3>3, <4>1
      <4>. QED
        BY <1>3, <2>1, <4>1, <4>2
    <3>4. CASE m = l + 1 /\ n = l + 1
      BY <2>2, <2>4, <3>4
    <3>. QED
      BY <1>7, <3>1, <3>2, <3>3, <3>4
  <2>5. k \in Queued' \cup Running' \cup Finished' => i \notin Mapped'
    BY <1>3, <2>1
  <2>6. k \in Running' \cup Finished' => i \notin Queued'
    BY <1>3, <2>1
  <2>7. k \in Finished' => i \notin Running'
    BY <1>3, <2>1, <2>3
  <2>. QED
    BY <1>2, <1>3, <2>1, <2>4, <2>5, <2>6, <2>7
<1>. QED
  BY <1>10, <1>11, <1>12, <1>13, <1>14, <1>15 DEF JobInv

-----------------------------------------------------------------------------
(* The theorems.                                                           *)

\* The invariant holds before any job is made.
LEMMA InitJobInv == Init => JobInv
<1> SUFFICES ASSUME Init PROVE JobInv
  OBVIOUS
<1>1. Made = {}
  BY DEF Init, Made
<1>2. TypeInv
  BY <1>1, TimeAssumption, JobsAssumption DEF Init, TypeInv, Times
<1>3. \A p \in Processors : Len(queue_[p]) = 0 /\ DOMAIN queue_[p] = {}
  BY DEF Init
<1>4. Len(done) = 0 /\ DOMAIN done = {} /\ 1 .. 0 = {}
  BY DEF Init
<1>5. HomeInv
  BY <1>3, <1>4 DEF Init, HomeInv
<1>6. StageInv
  BY <1>1 DEF Init, StageInv, Inserting, Mapped, Queued, Running, Finished
<1>7. DropInv /\ OrderInv
  BY <1>1 DEF Init, DropInv, OrderInv
<1>8. DueInv
  BY <1>3, <1>4 DEF Init, DueInv, NotBeforeDue
<1>. QED
  BY <1>2, <1>5, <1>6, <1>7, <1>8 DEF JobInv

\* It always holds.
LEMMA AlwaysJobInv == Spec => []JobInv
<1>1. JobInv /\ [Next]_vars => JobInv'
  <2> SUFFICES ASSUME JobInv, [Next]_vars PROVE JobInv'
    OBVIOUS
  <2>1. CASE UNCHANGED vars
    <3>1. Mapped' = Mapped
      BY <2>1 DEF vars, Mapped, Made, IsFirst
    <3>2. now <= clock /\ TypeInv
      BY DEF JobInv, DueInv
    <3>3. clock <= clock'
      BY <2>1, <3>2 DEF vars, TypeInv, Times
    <3>. QED
      BY <2>1, <3>1, <3>2, <3>3, QuietStep DEF vars, jobVars, TypeInv
  <2>2. CASE Next
    BY <2>2, ScheduleStep, InsertStep, IdleTimerStep, HandOverStep, EraseStep, DequeueStep, DoStep,
       TickStep DEF Next, TimerThread
  <2>. QED
    BY <2>1, <2>2
<1>. QED
  BY InitJobInv, <1>1, PTL DEF Spec

\* No job reaches its processor before its due time, for any delays, threads and
\* schedule of the timer thread.
THEOREM NeverBeforeDue == Spec => []NotBeforeDue
<1>1. JobInv => NotBeforeDue
  BY DEF JobInv, DueInv
<1>. QED
  BY AlwaysJobInv, <1>1, PTL

\* What one thread schedules on one processor runs in its order, if it is due in
\* that order.
THEOREM RunsInCallersOrder == Spec => []CallersOrder
<1>1. JobInv => CallersOrder
  <2> SUFFICES ASSUME JobInv, NEW j \in Range(done), NEW i \in 1 .. j - 1,
                      caller[i] = caller[j], processor[i] = processor[j], key[i] <= key[j],
                      i \notin dropped
               PROVE  \E m, n \in DOMAIN done : m < n /\ done[m] = i /\ done[n] = j
    BY DEF CallersOrder
  <2>1. DOMAIN done = 1 .. Len(done) /\ TypeInv
    BY DEF JobInv, TypeInv
  <2>2. PICK n \in 1 .. Len(done) : done[n] = j
    BY <2>1 DEF Range
  <2>3. j \in Made /\ j \in Finished
    BY <2>1, <2>2, ValuesMade DEF Finished
  <2>4. i \in Made /\ i < j
    BY <2>1, <2>3 DEF Made, TypeInv
  <2>5. Before(i, j)
    BY <2>4 DEF Before
  <2>6. i \in Finished
    BY <2>3, <2>4, <2>5 DEF JobInv, OrderInv, StageInv
  <2>7. PICK m \in 1 .. Len(done) : done[m] = i
    BY <2>6 DEF Finished
  <2>8. m < n
    BY <2>2, <2>3, <2>4, <2>5, <2>7 DEF JobInv, OrderInv
  <2>. QED
    BY <2>1, <2>2, <2>7, <2>8
<1>. QED
  BY AlwaysJobInv, <1>1, PTL

\* At each stage a job is in at most one place.
LEMMA PlacesAtStage ==
  ASSUME JobInv, NEW j \in Made
  PROVE  /\ IF j \in Inserting THEN \E t : {u \in Threads : inserting[u] = j} = {t}
                               ELSE {u \in Threads : inserting[u] = j} = {}
         /\ LET m == {u \in Times : job_map_[u] = j /\ ~ (timer = "erase" /\ IsFirst(u))}
            IN  IF j \in Mapped THEN \E t : m = {t} ELSE m = {}
         /\ IF j \in Running THEN \E p : {q \in Processors : running[q] = j} = {p}
                             ELSE {q \in Processors : running[q] = j} = {}
         /\ IF j \in Finished THEN \E i : {n \in DOMAIN done : done[n] = j} = {i}
                              ELSE {n \in DOMAIN done : done[n] = j} = {}
<1>1. TypeInv /\ HomeInv /\ j # NoJob
  BY NoJobMade DEF JobInv
<1>2. IF j \in Inserting THEN \E t : {u \in Threads : inserting[u] = j} = {t}
                          ELSE {u \in Threads : inserting[u] = j} = {}
  <2>1. \A u, v \in Threads : inserting[u] = j /\ inserting[v] = j => u = v
    BY <1>1 DEF HomeInv
  <2>. QED
    BY <2>1 DEF Inserting
<1>3. LET m == {u \in Times : job_map_[u] = j /\ ~ (timer = "erase" /\ IsFirst(u))}
      IN  IF j \in Mapped THEN \E t : m = {t} ELSE m = {}
  <2>1. \A u, v \in Times : job_map_[u] = j /\ job_map_[v] = j => u = v
    BY <1>1 DEF HomeInv
  <2>. QED
    BY <2>1 DEF Mapped
<1>4. IF j \in Running THEN \E p : {q \in Processors : running[q] = j} = {p}
                        ELSE {q \in Processors : running[q] = j} = {}
  <2>1. \A u, v \in Processors : running[u] = j /\ running[v] = j => u = v
    BY <1>1 DEF HomeInv
  <2>. QED
    BY <2>1 DEF Running
<1>5. IF j \in Finished THEN \E i : {n \in DOMAIN done : done[n] = j} = {i}
                         ELSE {n \in DOMAIN done : done[n] = j} = {}
  <2>1. DOMAIN done = 1 .. Len(done)
    BY <1>1 DEF TypeInv
  <2>2. \A u, v \in 1 .. Len(done) : done[u] = j /\ done[v] = j => u = v
    BY <1>1 DEF HomeInv
  <2>. QED
    BY <2>1, <2>2 DEF Finished
<1>. QED
  BY <1>2, <1>3, <1>4, <1>5

\* The places of a job in the queues.
QueuePlaces(j) ==
  UNION {{<<"queue", p, i>> : i \in {n \in DOMAIN queue_[p] : queue_[p][n] = j}} : p \in Processors}

\* The same for the queues.
LEMMA PlacesInQueues ==
  ASSUME JobInv, NEW j \in Made
  PROVE  IF j \in Queued THEN \E x : QueuePlaces(j) = {x} ELSE QueuePlaces(j) = {}
<1> DEFINE At(p) == {n \in DOMAIN queue_[p] : queue_[p][n] = j}
<1>0. QueuePlaces(j) = UNION {{<<"queue", p, i>> : i \in At(p)} : p \in Processors}
  BY DEF QueuePlaces
<1>1. TypeInv /\ HomeInv
  BY DEF JobInv
<1>2. \A p \in Processors : DOMAIN queue_[p] = 1 .. Len(queue_[p])
  BY <1>1 DEF TypeInv
<1>3. CASE j \notin Queued
  <2>1. \A p \in Processors : At(p) = {}
    BY <1>2, <1>3 DEF Queued
  <2> HIDE DEF At
  <2>2. QueuePlaces(j) = {}
    BY <1>0, <2>1
  <2>. QED
    BY <1>3, <2>2
<1>4. CASE j \in Queued
  <2>1. PICK p \in Processors : \E n \in 1 .. Len(queue_[p]) : queue_[p][n] = j
    BY <1>4 DEF Queued
  <2>2. PICK n \in 1 .. Len(queue_[p]) : queue_[p][n] = j
    BY <2>1
  <2>3. At(p) = {n}
    BY <1>1, <1>2, <2>2 DEF HomeInv
  <2>4. \A q \in Processors : q # p => At(q) = {}
    BY <1>1, <1>2, <2>2 DEF HomeInv
  <2> HIDE DEF At
  <2>5. QueuePlaces(j) = {<<"queue", p, n>>}
    BY <1>0, <2>3, <2>4
  <2>. QED
    BY <1>4, <2>5
<1>. QED
  BY <1>3, <1>4

\* No job is lost and none is in two places: dropped ones had to make way for
\* another of the same due time, which is not dropped.
THEOREM OnePlaceForEachJob == Spec => []JobsInOnePlace
<1>1. JobInv => JobsInOnePlace
  <2> SUFFICES ASSUME JobInv PROVE JobsInOnePlace
    OBVIOUS
  <2>1. \A j \in dropped : \E i \in 1 .. scheduled \ dropped : key[i] = key[j]
    BY DEF JobInv, DropInv, Made
  <2>2. ASSUME NEW j \in Made PROVE Cardinality(Places(j)) = 1
    <3> DEFINE I == {u \in Threads : inserting[u] = j}
               M == {u \in Times : job_map_[u] = j /\ ~ (timer = "erase" /\ IsFirst(u))}
               R == {q \in Processors : running[q] = j}
               F == {n \in DOMAIN done : done[n] = j}
               D == dropped \cap {j}
               Pair(kind, S) == {<<kind, x>> : x \in S}
    <3>1. Places(j) = Pair("inserting", I) \cup Pair("map", M) \cup QueuePlaces(j) \cup Pair("running", R)
                        \cup Pair("done", F) \cup Pair("dropped", D)
      BY DEF Places, QueuePlaces
    <3>2. \A kind, S : /\ S = {} => Pair(kind, S) = {}
                       /\ (\E x : S = {x}) => \E y : Pair(kind, S) = {y}
      <4> SUFFICES ASSUME NEW kind, NEW S
                   PROVE  /\ S = {} => Pair(kind, S) = {}
                          /\ (\E x : S = {x}) => \E y : Pair(kind, S) = {y}
        OBVIOUS
      <4>1. S = {} => Pair(kind, S) = {}
        OBVIOUS
      <4>2. ASSUME NEW x, S = {x} PROVE Pair(kind, S) = {<<kind, x>>}
        BY <4>2
      <4> HIDE DEF Pair
      <4>3. ASSUME NEW x, S = {x} PROVE \E y : Pair(kind, S) = {y}
        BY <4>2, <4>3
      <4>. QED
        BY <4>1, <4>3
    <3>3. /\ IF j \in Inserting THEN \E t : I = {t} ELSE I = {}
          /\ IF j \in Mapped THEN \E t : M = {t} ELSE M = {}
          /\ IF j \in Running THEN \E p : R = {p} ELSE R = {}
          /\ IF j \in Finished THEN \E i : F = {i} ELSE F = {}
          /\ IF j \in dropped THEN \E d : D = {d} ELSE D = {}
      BY PlacesAtStage
    <3> HIDE DEF I, M, R, F, D, Pair
    <3>4. /\ IF j \in Inserting THEN \E x : Pair("inserting", I) = {x} ELSE Pair("inserting", I) = {}
          /\ IF j \in Mapped THEN \E x : Pair("map", M) = {x} ELSE Pair("map", M) = {}
          /\ IF j \in Running THEN \E x : Pair("running", R) = {x} ELSE Pair("running", R) = {}
          /\ IF j \in Finished THEN \E x : Pair("done", F) = {x} ELSE Pair("done", F) = {}
          /\ IF j \in dropped THEN \E x : Pair("dropped", D) = {x} ELSE Pair("dropped", D) = {}
      BY <3>2, <3>3, Zenon
    <3>5. IF j \in Queued THEN \E x : QueuePlaces(j) = {x} ELSE QueuePlaces(j) = {}
      BY PlacesInQueues
    <3>6. StageInv
      BY DEF JobInv
    <3>7. \E x : Places(j) = {x}
      <4>1. CASE j \in Inserting
        <5>1. j \notin Mapped /\ j \notin Queued /\ j \notin Running /\ j \notin Finished /\ j \notin dropped
          BY <3>6, <4>1 DEF StageInv
        <5>2. Places(j) = Pair("inserting", I)
          BY <3>1, <3>4, <3>5, <5>1
        <5>. QED
          BY <3>4, <3>5, <4>1, <5>2
      <4>2. CASE j \in Mapped
        <5>1. j \notin Inserting /\ j \notin Queued /\ j \notin Running /\ j \notin Finished /\ j \notin dropped
          BY <3>6, <4>2 DEF StageInv
        <5>2. Places(j) = Pair("map", M)
          BY <3>1, <3>4, <3>5, <5>1
        <5>. QED
          BY <3>4, <3>5, <4>2, <5>2
      <4>3. CASE j \in Queued
        <5>1. j \notin Inserting /\ j \notin Mapped /\ j \notin Running /\ j \notin Finished /\ j \notin dropped
          BY <3>6, <4>3 DEF StageInv
        <5>2. Places(j) = QueuePlaces(j)
          BY <3>1, <3>4, <3>5, <5>1
        <5>. QED
          BY <3>4, <3>5, <4>3, <5>2
      <4>4. CASE j \in Running
        <5>1. j \notin Inserting /\ j \notin Mapped /\ j \notin Queued /\ j \notin Finished /\ j \notin dropped
          BY <3>6, <4>4 DEF StageInv
        <5>2. Places(j) = Pair("running", R)
          BY <3>1, <3>4, <3>5, <5>1
        <5>. QED
          BY <3>4, <3>5, <4>4, <5>2
      <4>5. CASE j \in Finished
        <5>1. j \notin Inserting /\ j \notin Mapped /\ j \notin Queued /\ j \notin Running /\ j \notin dropped
          BY <3>6, <4>5 DEF StageInv
        <5>2. Places(j) = Pair("done", F)
          BY <3>1, <3>4, <3>5, <5>1
        <5>. QED
          BY <3>4, <3>5, <4>5, <5>2
      <4>6. CASE j \in dropped
        <5>1. j \notin Inserting /\ j \notin Mapped /\ j \notin Queued /\ j \notin Running /\ j \notin Finished
          BY <3>6, <4>6 DEF StageInv
        <5>2. Places(j) = Pair("dropped", D)
          BY <3>1, <3>4, <3>5, <5>1
        <5>. QED
          BY <3>4, <3>5, <4>6, <5>2
      <4>. QED
        BY <3>6, <4>1, <4>2, <4>3, <4>4, <4>5, <4>6 DEF StageInv
    <3>. QED
      BY <3>7, FS_Singleton
  <2>. QED
    BY <2>1, <2>2 DEF JobsInOnePlace, Made
<1>. QED
  BY AlwaysJobInv, <1>1, PTL
=============================================================================
