-------------------------------- MODULE MCLog --------------------------------
(***************************************************************************)
(* The parts of log4cplus, one at a time: the initial state picks one of   *)
(* them, and only that one takes steps.                                    *)
(***************************************************************************)
EXTENDS SharedMutex

CONSTANTS
  Null, Unborn, Consumer, Objects, Slots,
  UINT_RANGE, MaxSignals, MaxWaits, MaxGuards,
  LogLevels, MaxStatements, MaxDepth, MaxLength, Widths, PairOfThreads

ASSUME EventAssumption == UINT_RANGE \in Nat \ {0}
ASSUME GuardAssumption == NoThread \notin PairOfThreads
ASSUME PointerAssumption == Null \notin Objects /\ Unborn \notin Objects \cup Slots \cup {Null}

VARIABLES
  which,
  evBackend, signaled, sigcount, th, waits, signals,
  backend, kind, life, prim, sp, held, unlockThrew,
  pointee, temp, target, reading, count, objLife, raced, usedFreed,
  build, threshold, ptd, stack, queue, device, last, statements,
  job, at, first, i, result, value

EV == INSTANCE ManualResetEvent WITH backend <- evBackend, Threads <- PairOfThreads
SY == INSTANCE SyncPrims WITH Threads <- PairOfThreads
PT == INSTANCE SharedObjectPtr WITH life <- objLife, Threads <- PairOfThreads
LG == INSTANCE Logging WITH Threads <- PairOfThreads
ST == INSTANCE StringHelper

event   == <<evBackend, signaled, sigcount, th, waits, signals>>
sync    == <<backend, kind, life, prim, sp, held, unlockThrew>>
pointer == <<pointee, temp, target, reading, count, objLife, raced, usedFreed>>
logging == <<build, threshold, ptd, stack, queue, device, last, statements>>
strings == <<job, at, first, i, result, value>>
logVars == <<which, vars, event, sync, pointer, logging, strings>>

LogInit ==
  /\ which \in {"SharedMutex", "ManualResetEvent", "SyncPrims", "SharedObjectPtr", "Logging", "StringHelper"}
  /\ Init /\ (which # "SharedMutex" => impl = "pmsm")
  /\ EV!Init /\ (which # "ManualResetEvent" => evBackend = "single" /\ ~ signaled)
  /\ SY!Init /\ (which # "SyncPrims" => backend = "single" /\ kind.class = "FairMutex")
  /\ PT!Init
  /\ LG!Init /\ (which # "Logging" => build = [disable |-> -1, tls |-> TRUE] /\ threshold = 0 /\ device.close_flag)
  /\ ST!Init /\ (which # "StringHelper" => job = [name |-> "tokenize", s |-> << >>, collapseTokens |-> TRUE])

LogNext ==
  /\ UNCHANGED which
  /\ \/ which = "SharedMutex" /\ Next /\ UNCHANGED <<event, sync, pointer, logging, strings>>
     \/ which = "ManualResetEvent" /\ EV!Next /\ UNCHANGED <<vars, sync, pointer, logging, strings>>
     \/ which = "SyncPrims" /\ SY!Next /\ UNCHANGED <<vars, event, pointer, logging, strings>>
     \/ which = "SharedObjectPtr" /\ PT!Next /\ UNCHANGED <<vars, event, sync, logging, strings>>
     \/ which = "Logging" /\ LG!Next /\ UNCHANGED <<vars, event, sync, pointer, strings>>
     \/ which = "StringHelper" /\ ST!Next /\ UNCHANGED <<vars, event, sync, pointer, logging>>

LogSpec == LogInit /\ [][LogNext]_logVars
FairLogSpec == LogSpec /\ Fairness /\ EV!Fairness

\* ManualResetEvent: signal lets out every thread that is waiting, even if reset
\* follows at once.
SignalReleasesWaiters == EV!SignalReleasesWaiters

\* ManualResetEvent: no wait ends for a spurious wake-up.
WaitNeedsSignal == EV!WaitNeedsSignal

\* Mutex, Semaphore, FairMutex: guards take and give back each lock once, also
\* when lock() throws.
GuardsBalance == SY!GuardsBalance

\* SharedObjectPtr: the count is the number of pointers, at every step of every
\* copy and assignment, and a freed object is copied only if its pointer changed
\* under the copy.
CountsPointers == PT!CountsPointers

\* Logging macros: a record is the whole text of one statement under the name of
\* the thread that logged it.
RecordsAreWhole == LG!RecordsAreWhole

\* tokenize and convertIntegerToString agree with their reference definitions.
StringsAreRight == ST!StringsAreRight
=============================================================================
