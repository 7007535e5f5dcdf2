---------------------------- MODULE SessionList ----------------------------
(***************************************************************************)
(* TcpSessionManager: the list m_clients under AddTcpClient (the accepting *)
(* thread), RemoveTcpClient (any worker) and a broadcast that iterates     *)
(* over it (any worker, no lock) and skips the sessions that are closing.  *)
(*                                                                         *)
(* SCOPED_LOCK(tag) does not paste its argument: it declares a static      *)
(* lock_tagName in the function that uses it, so AddTcpClient and          *)
(* RemoveTcpClient have a lock each.  The static is built on first use;    *)
(* with the toolset of the project files (v120) that is a plain test and   *)
(* set of a guard flag.  std::list is a ring of nodes through a sentinel.  *)
(* A thread that touches a freed node ends the process, unless the node    *)
(* was allocated again: then it reads the new contents.                    *)
(* The rewrite keeps the same class, macro and lock in                     *)
(* tcp_session_manager.h and scoped_lock.h.                                *)
(***************************************************************************)
EXTENDS Integers, FiniteSets

CONSTANTS
  Main,          \* the accepting thread
  Workers,       \* the worker threads
  Sessions,      \* the sessions it accepts
  Nodes,         \* list nodes the allocator hands out
  MaxRemoves,    \* bound: calls of RemoveTcpClient
  MaxBroadcasts  \* bound: broadcasts

ASSUME ListAssumption ==
  /\ Main \notin Workers /\ {"raw", "free"} \cap (Workers \cup {Main}) = {}
  /\ Nodes \subseteq Nat \ {0} /\ IsFiniteSet(Nodes)
  /\ MaxRemoves \in Nat /\ MaxBroadcasts \in Nat

VARIABLES
  next, prev,    \* the links of m_clients; node 0 is the sentinel
  val,           \* the session a node holds
  live,          \* nodes allocated and not freed
  guard,         \* per function: its static lock counts as built
  cs,            \* per function: the critical section
  th,            \* what each thread is doing
  session,       \* what has been asked for each session
  closing,       \* the sessions with m_isClosing
  removes, broadcasts,
  crashed,
  overlap,       \* history: two threads changed m_clients at once
  torn,          \* history: a removal ran under a broadcast
  raced          \* history: two threads built the same static lock at once

mem  == <<next, prev, val, live>>
lock == <<guard, cs>>
vars == <<mem, lock, th, session, closing, removes, broadcasts, crashed, overlap, torn, raced>>

Threads == Workers \cup {Main}
Calls   == {"AddTcpClient", "RemoveTcpClient"}
end     == 0
Raw     == "raw"
Free    == "free"

\* A thread: its step, the function it is in, _client, the node it is at, and
\* for a broadcast the sessions listed at its start that it has still to reach.
Idle == [at |-> "idle", in |-> "AddTcpClient", client |-> CHOOSE s \in Sessions : TRUE,
         node |-> end, owed |-> {}]

Init ==
  /\ next = [n \in Nodes \cup {end} |-> end]
  /\ prev = [n \in Nodes \cup {end} |-> end]
  /\ val = [n \in Nodes |-> CHOOSE s \in Sessions : TRUE]
  /\ live = {}
  /\ guard = [f \in Calls |-> FALSE]
  /\ cs = [f \in Calls |-> Raw]
  /\ th = [t \in Threads |-> Idle]
  /\ session = [s \in Sessions |-> "new"] /\ closing = {}
  /\ removes = 0 /\ broadcasts = 0
  /\ crashed = FALSE
  /\ overlap = FALSE /\ torn = FALSE /\ raced = FALSE

At(t, step)   == ~ crashed /\ th[t].at = step
Goto(t, step) == th' = [th EXCEPT ![t].at = step]
Same(v)       == UNCHANGED <<v, session, closing, removes, broadcasts>>

\* Steps of t that touch node n: n was freed, and the process ends.
Touch(n, step) ==
  \/ n \in live \cup {end} /\ step /\ UNCHANGED crashed
  \/ n \notin live \cup {end} /\ crashed' = TRUE /\ UNCHANGED <<mem, lock, th, session, closing>>

-----------------------------------------------------------------------------
(* SCOPED_LOCK: static CriticalSectionLock lock_tagName; AutoLock.         *)

TestGuard(t) ==
  /\ At(t, "test")
  /\ Goto(t, IF guard[th[t].in] THEN "enter" ELSE "guard")
  /\ Same(<<mem, lock, crashed>>)

SetGuard(t) ==
  /\ At(t, "guard")
  /\ guard' = [guard EXCEPT ![th[t].in] = TRUE]
  /\ Goto(t, "construct")
  /\ Same(<<mem, cs, crashed>>)

\* CriticalSectionLock(): memset and InitializeCriticalSection, whoever holds it.
Construct(t) ==
  /\ At(t, "construct")
  /\ cs' = [cs EXCEPT ![th[t].in] = Free]
  /\ Goto(t, "enter")
  /\ Same(<<mem, guard, crashed>>)

\* Enter.  A section that was never initialised reads as taken by nobody: the
\* thread waits for ever, or faults.
Enter(t) ==
  LET f == th[t].in IN
  /\ At(t, "enter")
  /\ \/ cs[f] = Free /\ cs' = [cs EXCEPT ![f] = t] /\ Goto(t, "first") /\ UNCHANGED crashed
     \/ cs[f] = Raw /\ Goto(t, "hung") /\ UNCHANGED <<cs, crashed>>
     \/ cs[f] = Raw /\ crashed' = TRUE /\ UNCHANGED <<cs, th>>
  /\ Same(<<mem, guard>>)

Leave(t) ==
  /\ At(t, "leave")
  /\ cs' = [cs EXCEPT ![th[t].in] = Free]
  /\ Goto(t, IF th[t].in = "RemoveTcpClient" THEN "close" ELSE "idle")
  /\ Same(<<mem, guard, crashed>>)

-----------------------------------------------------------------------------
(* m_clients.remove(_client), in both functions.                           *)

First(t) ==
  /\ At(t, "first")
  /\ th' = [th EXCEPT ![t].node = next[end], ![t].at = "compare"]
  /\ Same(<<mem, lock, crashed>>)

AfterRemove_NoPushBack(t) == "leave"
AfterRemove(t) == IF th[t].in = "AddTcpClient" THEN "buynode" ELSE "leave"

Compare(t) ==
  LET n == th[t].node IN
  /\ At(t, "compare")
  /\ Touch(n,
       /\ th' = [th EXCEPT ![t] =
                  IF n = end THEN [@ EXCEPT !.at = AfterRemove(t)]
                  ELSE IF val[n] = @.client THEN [@ EXCEPT !.at = "unlink"]
                  ELSE [@ EXCEPT !.node = next[n]]]
       /\ UNCHANGED <<mem, lock, session, closing>>)
  /\ UNCHANGED <<removes, broadcasts>>

\* erase: the node before it skips it ...
Unlink(t) ==
  LET n == th[t].node IN
  /\ At(t, "unlink")
  /\ Touch(n,
       /\ next' = [next EXCEPT ![prev[n]] = next[n]]
       /\ Goto(t, "erase")
       /\ UNCHANGED <<prev, val, live, lock, session, closing>>)
  /\ UNCHANGED <<removes, broadcasts>>

Erase_KeepIterator(t) ==
  LET n == th[t].node IN
  /\ At(t, "erase")
  /\ Touch(n,
       /\ prev' = [prev EXCEPT ![next[n]] = prev[n]]
       /\ live' = live \ {n}
       /\ Goto(t, "compare")
       /\ UNCHANGED <<next, val, lock, session, closing>>)
  /\ UNCHANGED <<removes, broadcasts>>

\* ... the node after it too, and it is freed.
Erase(t) ==
  LET n == th[t].node IN
  /\ At(t, "erase")
  /\ Touch(n,
       /\ prev' = [prev EXCEPT ![next[n]] = prev[n]]
       /\ live' = live \ {n}
       /\ th' = [th EXCEPT ![t].node = next[n], ![t].at = "compare"]
       /\ UNCHANGED <<next, val, lock, session, closing>>)
  /\ UNCHANGED <<removes, broadcasts>>

-----------------------------------------------------------------------------
(* m_clients.push_back(_client), in AddTcpClient.                          *)

BuyNode(t) ==
  /\ At(t, "buynode")
  /\ \E n \in Nodes \ live :
       /\ live' = live \cup {n}
       /\ val' = [val EXCEPT ![n] = th[t].client]
       /\ next' = [next EXCEPT ![n] = end]
       /\ prev' = [prev EXCEPT ![n] = prev[end]]
       /\ th' = [th EXCEPT ![t].node = n, ![t].at = "linkprev"]
  /\ Same(<<lock, crashed>>)

LinkPrev(t) ==
  /\ At(t, "linkprev")
  /\ prev' = [prev EXCEPT ![end] = th[t].node]
  /\ Goto(t, "linknext")
  /\ Same(<<next, val, live, lock, crashed>>)

LinkNext(t) ==
  LET n == th[t].node IN
  /\ At(t, "linknext")
  /\ next' = [next EXCEPT ![prev[n]] = n]
  /\ Goto(t, "leave")
  /\ Same(<<prev, val, live, lock, crashed>>)

-----------------------------------------------------------------------------
(* The callers.                                                            *)

\* Network::MakeClientSessionEx adds the session it has built.
CallAdd(s) ==
  /\ At(Main, "idle") /\ session[s] = "new"
  /\ session' = [session EXCEPT ![s] = "added"]
  /\ th' = [th EXCEPT ![Main] = [Idle EXCEPT !.at = "test", !.client = s]]
  /\ UNCHANGED <<mem, lock, closing, removes, broadcasts, crashed>>

\* A worker reaches a session once MakeClientSessionEx has left AddTcpClient,
\* and may close one that another worker has closed.
Reachable(s) == session[s] # "new" /\ ~ (th[Main].at # "idle" /\ th[Main].client = s)

\* Network::CloseSession: RemoveTcpClient, and then Close(false).
CallRemove(t, s) ==
  /\ At(t, "idle") /\ t \in Workers /\ Reachable(s) /\ removes < MaxRemoves
  /\ removes' = removes + 1
  /\ session' = [session EXCEPT ![s] = "removed"]
  /\ th' = [th EXCEPT ![t] = [Idle EXCEPT !.at = "test", !.in = "RemoveTcpClient", !.client = s]]
  /\ UNCHANGED <<mem, lock, closing, broadcasts, crashed>>

CloseRemoved(t) ==
  /\ At(t, "close") /\ Goto(t, "idle")
  /\ closing' = closing \cup {th[t].client}
  /\ UNCHANGED <<mem, lock, session, removes, broadcasts, crashed>>

\* Close(true) in ProcessPacket: the session stays in the list until a worker
\* sees that it is not valid, and calls CloseSession.
Close(t, s) ==
  /\ At(t, "idle") /\ t \in Workers /\ Reachable(s)
  /\ closing' = closing \cup {s}
  /\ UNCHANGED <<mem, lock, th, session, removes, broadcasts, crashed>>

\* TcpClient::ProcessPacket of a session, flag 0x02:
\* for (auto& client : GetWholeClients()).
BeginBroadcast(t) ==
  /\ At(t, "idle") /\ t \in Workers /\ broadcasts < MaxBroadcasts
  /\ broadcasts' = broadcasts + 1
  /\ \E s \in Sessions :
       /\ Reachable(s)
       /\ th' = [th EXCEPT ![t] = [Idle EXCEPT !.at = "visit", !.client = s, !.node = next[end],
                                   !.owed = {x \in Sessions : session[x] = "added" /\ Reachable(x)}]]
  /\ UNCHANGED <<mem, lock, session, closing, removes, crashed>>

\* client != NULL && client->IsValid(): one that is closing is passed over.
\* WriteSendBuffer; a failed write closes the session that broadcasts.
Visit(t) ==
  LET n == th[t].node IN
  /\ At(t, "visit")
  /\ Touch(n,
       /\ \/ n = end /\ Goto(t, "visited") /\ UNCHANGED closing
          \/ /\ n # end /\ val[n] \in closing
             /\ th' = [th EXCEPT ![t].node = next[n], ![t].at = "visit"] /\ UNCHANGED closing
          \/ /\ n # end /\ val[n] \notin closing
             /\ th' = [th EXCEPT ![t].at = "flush", ![t].owed = @ \ {val[n]}] /\ UNCHANGED closing
          \/ /\ n # end /\ val[n] \notin closing
             /\ Goto(t, "idle") /\ closing' = closing \cup {th[t].client}
       /\ UNCHANGED <<mem, lock, session>>)
  /\ UNCHANGED <<removes, broadcasts>>

Flush_SkipOne(t) ==
  LET n == th[t].node IN
  /\ At(t, "flush")
  /\ Touch(n,
       /\ th' = [th EXCEPT ![t].node = next[next[n]], ![t].at = "visit"]
       /\ UNCHANGED <<mem, lock, session, closing>>)
  /\ UNCHANGED <<removes, broadcasts>>

\* client->FlushSendBuffer() through the reference into the node, then ++.
Flush(t) ==
  LET n == th[t].node IN
  /\ At(t, "flush")
  /\ Touch(n,
       /\ th' = [th EXCEPT ![t].node = next[n], ![t].at = "visit"]
       /\ UNCHANGED <<mem, lock, session, closing>>)
  /\ UNCHANGED <<removes, broadcasts>>

EndBroadcast(t) ==
  /\ At(t, "visited") /\ Goto(t, "idle")
  /\ Same(<<mem, lock, crashed>>)

-----------------------------------------------------------------------------

Changing(t)     == th[t].at \in {"first", "compare", "unlink", "erase", "buynode", "linkprev", "linknext", "leave"}
Removing(t)     == Changing(t) /\ th[t].in = "RemoveTcpClient"
Broadcasting(t) == th[t].at \in {"visit", "flush"}

Next ==
  /\ \/ \E s \in Sessions : CallAdd(s) \/ \E t \in Workers : CallRemove(t, s) \/ Close(t, s)
     \/ \E t \in Threads : \/ TestGuard(t) \/ SetGuard(t) \/ Construct(t) \/ Enter(t) \/ Leave(t)
                           \/ First(t) \/ Compare(t) \/ Unlink(t) \/ Erase(t)
                           \/ BuyNode(t) \/ LinkPrev(t) \/ LinkNext(t)
                           \/ CloseRemoved(t) \/ BeginBroadcast(t) \/ Visit(t) \/ Flush(t) \/ EndBroadcast(t)
  /\ overlap' = (overlap \/ \E t, u \in Threads : t # u /\ Changing(t)' /\ Changing(u)')
  /\ torn' = (torn \/ \E t, u \in Threads : Broadcasting(t)' /\ Removing(u)')
  /\ raced' = (raced \/ \E t, u \in Threads : t # u /\ th[t].in = th[u].in
                             /\ th[t].at \in {"guard", "construct"} /\ th[u].at \in {"test", "guard", "construct", "enter"})

Spec == Init /\ [][Next]_vars

-----------------------------------------------------------------------------

\* The sessions m_clients should hold when no call is under way.
Listed == {s \in Sessions : session[s] = "added"}
Quiet  == ~ crashed /\ \A t \in Threads : th[t].at \in {"idle", "close", "visit", "flush", "visited"}

\* As long as no two calls changed m_clients at once, the list between calls is
\* a ring that reads the same in both directions and holds every session that
\* was added and not removed exactly once (AddTcpClient, RemoveTcpClient).
ListIsWhole ==
  Quiet /\ ~ overlap =>
    /\ \A n \in live \cup {end} : next[n] \in live \cup {end} /\ prev[next[n]] = n
    /\ {val[n] : n \in live} = Listed /\ Cardinality(live) = Cardinality(Listed)

\* A broadcast is endangered by removals only: a thread touches freed memory, or
\* the unbuilt lock, only if calls overlapped, a removal ran under a broadcast,
\* or two threads met in the first call of a function.
CrashNeedsARace == crashed => overlap \/ torn \/ raced

\* A broadcast that runs to the end has written to every session that was
\* listed when it began, whatever was added meanwhile, except those that were
\* closing when it came to them (TcpClient.cpp:309-310).
BroadcastReachesAll ==
  \A t \in Threads : th[t].at = "visited" /\ ~ overlap /\ ~ torn => th[t].owed \subseteq closing

\* The comment on SCOPED_LOCK, "multiple lock objects according to tagName":
\* the two functions that name TCP_SESSION_MANAGER_LOCK exclude each other.
SameTagExcludes ==
  \A t, u \in Threads : Changing(t) /\ Changing(u) /\ th[t].in # th[u].in => FALSE
=============================================================================
