-------------------------- MODULE ManualResetEvent --------------------------
(***************************************************************************)
(* log4cplus::thread::ManualResetEvent: over a condition variable and a    *)
(* count of signals (pthreads), over an event of the system (win32), or    *)
(* nothing at all (single).  Threads signal, reset and wait in any order;  *)
(* a thread may wake up spuriously, and a timeout races a signal.  mtx is  *)
(* never held across a wait, so each critical section is one step.         *)
(***************************************************************************)
EXTENDS Integers

CONSTANTS
  Threads,
  UINT_RANGE,    \* number of values of an unsigned
  MaxSignals,    \* bound: calls of signal
  MaxWaits       \* bound: calls of wait and timed_wait

VARIABLES
  backend, signaled,
  sigcount,      \* wraps at UINT_RANGE
  th,            \* what each thread is doing
  waits,
  signals        \* history: calls of signal

vars == <<backend, signaled, sigcount, th, waits, signals>>

\* A thread: where it is, whether its wait is timed, prev_count, the signals
\* there had been when it began to wait, and what its last wait returned.
Idle == [at |-> "idle", timed |-> FALSE, prev_count |-> 0, began |-> 0, result |-> TRUE, due |-> TRUE]

Init ==
  /\ backend \in {"pthreads", "win32", "single"}
  /\ signaled \in BOOLEAN
  /\ sigcount = 0
  /\ th = [t \in Threads |-> Idle]
  /\ waits = 0 /\ signals = 0

\* due records whether a signal justifies a return of true.
Return(t, result, due) == th' = [th EXCEPT ![t] = [Idle EXCEPT !.result = result, !.due = due]]
Throw(t) == th' = [th EXCEPT ![t] = Idle]

Wakes(p) == [t \in Threads |-> IF th[t].at = "waiting" THEN [th[t] EXCEPT !.at = p] ELSE th[t]]

\* Under mtx: signaled, sigcount, pthread_cond_broadcast.
signal_pthreads ==
  /\ signaled' = TRUE
  /\ sigcount' = (sigcount + 1) % UINT_RANGE
  /\ th' = Wakes("woken")

\* SetEvent ends every wait there is.
signal_win32 ==
  /\ signaled' = TRUE
  /\ th' = Wakes("released")
  /\ UNCHANGED sigcount

Signal ==
  /\ signals < MaxSignals /\ signals' = signals + 1
  /\ \/ backend = "pthreads" /\ signal_pthreads
     \/ backend = "win32" /\ signal_win32
     \/ backend = "single" /\ UNCHANGED <<signaled, sigcount, th>>
  /\ UNCHANGED <<backend, waits>>

reset_pthreads == signaled' = FALSE
reset_win32    == signaled' = FALSE

Reset ==
  /\ \/ backend = "pthreads" /\ reset_pthreads
     \/ backend = "win32" /\ reset_win32
     \/ backend = "single" /\ UNCHANGED signaled
  /\ UNCHANGED <<backend, sigcount, th, waits, signals>>

\* wait and timed_wait up to the first time they block.
Wait(t, timed) ==
  /\ th[t].at = "idle" /\ waits < MaxWaits /\ waits' = waits + 1
  /\ IF signaled \/ backend = "single" THEN Return(t, TRUE, TRUE)
     ELSE th' = [th EXCEPT ![t] = [Idle EXCEPT !.at = "waiting", !.timed = timed,
                                     !.prev_count = sigcount, !.began = signals]]
  /\ UNCHANGED <<backend, signaled, sigcount, signals>>

\* pthread_cond_wait may return without a broadcast.
WakeSpuriously(t) ==
  /\ backend = "pthreads" /\ th[t].at = "waiting"
  /\ th' = [th EXCEPT ![t].at = "woken"]
  /\ UNCHANGED <<backend, signaled, sigcount, waits, signals>>

\* ETIMEDOUT is returned once mtx is held again, WAIT_TIMEOUT at once.
TimeOut(t) ==
  /\ th[t].at = "waiting" /\ th[t].timed
  /\ IF backend = "pthreads" THEN th' = [th EXCEPT ![t].at = "timedout"] ELSE Return(t, FALSE, TRUE)
  /\ UNCHANGED <<backend, signaled, sigcount, waits, signals>>

WaitFails(t) ==
  /\ th[t].at = "waiting" /\ Throw(t)
  /\ UNCHANGED <<backend, signaled, sigcount, waits, signals>>

KeepWaiting_WhileReset(t) == ~ signaled
KeepWaiting_Once(t) == FALSE
KeepWaiting(t) == th[t].prev_count = sigcount

\* Back from the system call.
Resume(t) ==
  /\ \/ /\ th[t].at = "woken"
        /\ IF KeepWaiting(t) THEN th' = [th EXCEPT ![t].at = "waiting"]
           ELSE Return(t, TRUE, signals > th[t].began)
     \/ th[t].at = "timedout" /\ Return(t, FALSE, TRUE)
     \/ th[t].at = "released" /\ Return(t, TRUE, signals > th[t].began)
  /\ UNCHANGED <<backend, signaled, sigcount, waits, signals>>

Next ==
  \/ Signal \/ Reset
  \/ \E t \in Threads : \/ Wait(t, TRUE) \/ Wait(t, FALSE)
                        \/ WakeSpuriously(t) \/ TimeOut(t) \/ WaitFails(t) \/ Resume(t)

\* A thread that is woken gets mtx and goes on; spurious wake-ups are not owed.
Fairness == \A t \in Threads : WF_vars(Resume(t))

Spec == Init /\ [][Next]_vars /\ Fairness

-----------------------------------------------------------------------------

Blocked(t) == th[t].at \in {"waiting", "woken", "released"}

\* sigcount has gone round while t was waiting.
Wrapped(t) == signals - th[t].began >= UINT_RANGE

\* Every thread that is waiting when signal is called gets out, also when reset
\* is called before it runs again (that is what sigcount is for), unless
\* UINT_RANGE signals come before it looks.
SignalReleasesWaiters ==
  \A t \in Threads : \A n \in 0 .. MaxSignals :
    Blocked(t) /\ th[t].began = n /\ signals > n
      ~> ~ (Blocked(t) /\ th[t].began = n) \/ Wrapped(t)

\* wait returns, and timed_wait returns true, only because of a signal since it
\* began or because the event was signaled: never for a spurious wake-up.
WaitNeedsSignal == \A t \in Threads : th[t].result => th[t].due
=============================================================================
