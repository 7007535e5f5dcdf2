------------------------------- MODULE Logging -------------------------------
(***************************************************************************)
(* A log4cplus logging statement on its way to an appender: the macros of  *)
(* loggingmacros.h, which build the text in a stream of the thread,        *)
(* TraceLogger, the per-thread data behind them, the event, which fetches  *)
(* the thread's name when first asked for it, and the appenders: a         *)
(* DeviceAppender writes at once, a queue hands a copy to another thread.  *)
(* Evaluating the operands of a statement may log as well.                 *)
(*                                                                         *)
(* Logger, Appender and the functions behind get_macro_body_oss have no    *)
(* source here and are modelled from how the headers use them.             *)
(***************************************************************************)
EXTENDS Integers, Sequences

CONSTANTS
  Threads,
  Consumer,      \* the thread that empties the queue
  LogLevels,     \* levels that occur: TRACE_LOG_LEVEL is 0
  MaxStatements, \* bound: statements executed
  MaxDepth       \* bound: statements nested in one another

VARIABLES
  build,         \* how the library was compiled
  threshold,     \* the logger's level
  ptd,           \* per thread: NoPtd or its per_thread_data
  stack,         \* per thread: the statements it is in, innermost last
  queue,         \* events on their way to the consumer
  device,        \* the DeviceAppender: open, and its close_flag
  last,          \* the record that was written last
  statements     \* statements executed so far, and their names

vars == <<build, threshold, ptd, stack, queue, device, last, statements>>

Builds == [disable : LogLevels \cup {-1}, tls : BOOLEAN]

\* LOG4CPLUS_DISABLE_<level> brings with it those of the levels below; -1 if
\* none is defined.
Disabled == {ll \in LogLevels : ll <= build.disable}

\* Each of LOG4CPLUS_<level>, LOG4CPLUS_<level>_STR and LOG4CPLUS_<level>_FMT is
\* its body if the level is not disabled, and an empty statement otherwise.
CompiledIn(ll) == ll \notin Disabled

NoPtd == [oss |-> << >>, there |-> FALSE]
NewPtd == [oss |-> << >>, there |-> TRUE]
NoRecord == [id |-> 0, by |-> Consumer, text |-> << >>, thread |-> Consumer, nested |-> FALSE]

\* The constructor, and the functions that make one with or without close_flag.
DeviceAppender(close_flag) == [open |-> TRUE, close_flag |-> close_flag]
make_device_appender == {DeviceAppender(close_device) : close_device \in BOOLEAN}

Init ==
  /\ build \in Builds
  /\ threshold \in LogLevels
  /\ ptd = [t \in Threads |-> NoPtd]
  /\ stack = [t \in Threads |-> << >>]
  /\ queue = << >>
  /\ device \in make_device_appender
  /\ last = NoRecord
  /\ statements = 0

\* Whatever a statement names it by, it gets a handle of the one logger and
\* reads the level the logger has now.
macros_get_logger == [level |-> threshold]
isEnabledFor(ll) == ll >= macros_get_logger.level

\* Thread-local storage, the same on pthreads and win32.
tls_get_value(t) == ptd[t]
tls_set_value(t, p) == ptd' = [ptd EXCEPT ![t] = p]

\* get_ptd allocates on first use.
get_ptd(t) == IF tls_get_value(t).there THEN tls_get_value(t) ELSE NewPtd
set_ptd(t, p) == tls_set_value(t, p)

\* A statement in progress: its text so far if it has a buffer of its own, how
\* many of its two pieces are streamed, and whether another one ran inside it.
Statement(k, ll) == [kind |-> k, ll |-> ll, id |-> statements + 1, own |-> << >>, pieces |-> 0, nested |-> FALSE]
WholeText(id) == <<<<id, 1>>, <<id, 2>>>>

Top(t) == stack[t][Len(stack[t])]
SetTop(t, s) == stack' = [stack EXCEPT ![t] = [@ EXCEPT ![Len(@)] = s]]
Pop(t) == stack' = [stack EXCEPT ![t] = SubSeq(@, 1, Len(@) - 1)]

\* The statements around a new one that share the thread's stream with it.
Interrupted(t, k) ==
  [n \in 1 .. Len(stack[t]) |->
     [stack[t][n] EXCEPT !.nested = @ \/ (k = "BODY" /\ build.tls)]]

-----------------------------------------------------------------------------
(* The event and the appenders.                                            *)

Event(t, s, text) == [id |-> s.id, by |-> t, text |-> text, nested |-> s.nested, thread |-> t, threadCached |-> FALSE]

\* InternalLoggingEvent::getThread on thread t.
getThread_Current(ev, t) == t
getThread(ev, t) == IF ev.threadCached THEN ev.thread ELSE t
Gathered(ev, t) == [ev EXCEPT !.thread = getThread(ev, t), !.threadCached = TRUE]

\* DeviceAppender::append on thread t: formatEvent, then write.
append(ev, t) ==
  last' = IF device.open
          THEN [id |-> ev.id, by |-> ev.by, text |-> ev.text, nested |-> ev.nested, thread |-> getThread(ev, t)]
          ELSE last

\* macro_forced_log and Logger::forcedLog: to the device and to the queue, which
\* takes a copy that has everything of its thread.
forcedLog(t, ev) ==
  \/ append(ev, t) /\ UNCHANGED queue
  \/ queue' = Append(queue, Gathered(ev, t)) /\ UNCHANGED last

Consume ==
  /\ queue # << >>
  /\ append(Head(queue), Consumer)
  /\ queue' = Tail(queue)
  /\ UNCHANGED <<build, threshold, ptd, stack, device, statements>>

close ==
  /\ device.open /\ device' = [device EXCEPT !.open = ~ device.close_flag]
  /\ UNCHANGED <<build, threshold, ptd, stack, queue, last, statements>>

-----------------------------------------------------------------------------
(* The statements.                                                         *)

\* At the top level or while an operand of the innermost statement is evaluated.
CanStart(t) ==
  /\ stack[t] # << >> => Top(t).pieces < 2
  /\ statements < MaxStatements /\ Len(stack[t]) < MaxDepth
  /\ statements' = statements + 1

\* Nothing is evaluated where the level is not compiled in or not enabled.
Skip(t, ll) ==
  /\ CanStart(t)
  /\ ~ (CompiledIn(ll) /\ isEnabledFor(ll))
  /\ UNCHANGED <<build, threshold, ptd, stack, queue, device, last>>

EmptiedOss(p) == [p EXCEPT !.oss = << >>]

\* LOG4CPLUS_MACRO_BODY as far as its buffer: get_macro_body_oss, or a temporary.
MacroBody(t, ll) ==
  /\ CanStart(t) /\ CompiledIn(ll) /\ isEnabledFor(ll)
  /\ IF build.tls THEN set_ptd(t, EmptiedOss(get_ptd(t))) ELSE UNCHANGED ptd
  /\ stack' = [stack EXCEPT ![t] = Append(Interrupted(t, "BODY"), Statement("BODY", ll))]
  /\ UNCHANGED <<build, threshold, queue, device, last>>

\* _log4cplus_buf << logEvent, a piece at a time.
Stream(t) ==
  /\ stack[t] # << >> /\ Top(t).kind = "BODY" /\ Top(t).pieces < 2
  /\ LET s == Top(t)
         piece == <<s.id, s.pieces + 1>> IN
     IF build.tls
     THEN /\ set_ptd(t, [ptd[t] EXCEPT !.oss = Append(@, piece)])
          /\ SetTop(t, [s EXCEPT !.pieces = @ + 1])
     ELSE SetTop(t, [s EXCEPT !.pieces = @ + 1, !.own = Append(@, piece)]) /\ UNCHANGED ptd
  /\ UNCHANGED <<build, threshold, queue, device, last, statements>>

\* str() and macro_forced_log.
EndMacroBody(t) ==
  /\ stack[t] # << >> /\ Top(t).kind = "BODY" /\ Top(t).pieces = 2
  /\ forcedLog(t, Event(t, Top(t), IF build.tls THEN ptd[t].oss ELSE Top(t).own))
  /\ Pop(t)
  /\ UNCHANGED <<build, threshold, ptd, device, statements>>

\* LOG4CPLUS_MACRO_STR_BODY and LOG4CPLUS_MACRO_FMT_BODY: the operands are
\* evaluated first, then the text is made and logged in one go.
MacroStrBody(t, ll) ==
  /\ CanStart(t) /\ CompiledIn(ll) /\ isEnabledFor(ll)
  /\ stack' = [stack EXCEPT ![t] = Append(@, Statement("STR", ll))]
  /\ UNCHANGED <<build, threshold, ptd, queue, device, last>>

EndMacroStrBody(t) ==
  /\ stack[t] # << >> /\ Top(t).kind = "STR"
  /\ forcedLog(t, Event(t, Top(t), WholeText(Top(t).id)))
  /\ Pop(t)
  /\ UNCHANGED <<build, threshold, ptd, device, statements>>

MacroFmtBody(t, ll) ==
  /\ CanStart(t) /\ CompiledIn(ll) /\ isEnabledFor(ll)
  /\ set_ptd(t, get_ptd(t))
  /\ stack' = [stack EXCEPT ![t] = Append(@, Statement("STR", ll))]
  /\ UNCHANGED <<build, threshold, queue, device, last>>

\* LOG4CPLUS_TRACE_METHOD: ENTER now and EXIT when the scope ends, each if the
\* level is enabled then.
TraceIf(t, s) ==
  IF isEnabledFor(0) THEN forcedLog(t, Event(t, s, WholeText(s.id))) ELSE UNCHANGED <<queue, last>>

TraceLogger(t) ==
  /\ CanStart(t) /\ CompiledIn(0)
  /\ LET s == Statement("TRACE", 0) IN
     TraceIf(t, s) /\ stack' = [stack EXCEPT ![t] = Append(@, s)]
  /\ UNCHANGED <<build, threshold, ptd, device>>

TraceLoggerDtor(t) ==
  /\ stack[t] # << >> /\ Top(t).kind = "TRACE"
  /\ TraceIf(t, Top(t))
  /\ Pop(t)
  /\ UNCHANGED <<build, threshold, ptd, device, statements>>

-----------------------------------------------------------------------------

setLogLevel(ll) ==
  /\ ll # threshold /\ threshold' = ll
  /\ UNCHANGED <<build, ptd, stack, queue, device, last, statements>>

\* A thread ends and another takes its place.  Only a pthread key has a cleanup
\* function; either way the next thread starts with nothing.
ThreadEnds(t) ==
  /\ stack[t] = << >> /\ ptd[t].there
  /\ set_ptd(t, NoPtd)
  /\ UNCHANGED <<build, threshold, stack, queue, device, last, statements>>

Next ==
  \/ Consume \/ close
  \/ \E ll \in LogLevels : setLogLevel(ll)
  \/ \E t \in Threads :
       \/ Stream(t) \/ EndMacroBody(t) \/ EndMacroStrBody(t)
       \/ TraceLogger(t) \/ TraceLoggerDtor(t) \/ ThreadEnds(t)
       \/ \E ll \in LogLevels :
            Skip(t, ll) \/ MacroBody(t, ll) \/ MacroStrBody(t, ll) \/ MacroFmtBody(t, ll)

Spec == Init /\ [][Next]_vars

-----------------------------------------------------------------------------

\* What is written is the whole text of one statement under the name of the
\* thread that executed it, from whichever thread it is written and whatever
\* other statements ran meanwhile; except that a statement whose operands log
\* through the thread's one stream (no LOG4CPLUS_MACRO_DISABLE_TLS) loses what
\* it had streamed before and gets the other's text instead.
RecordsAreWhole ==
  /\ last.thread = last.by
  /\ last.id # 0 /\ ~ last.nested => last.text = WholeText(last.id)
=============================================================================
