------------------------------- MODULE Startup -------------------------------
(***************************************************************************)
(* main, Network::Initialize and the accept loop of the first server, with *)
(* the failures of WSAStartup, the port, the threads, the listening socket,*)
(* accept, the association of a socket and its first receive.  Nothing     *)
(* tests what Initialize or BindSocket did: Run goes on whatever happened. *)
(***************************************************************************)
EXTENDS Integers, FiniteSets

CONSTANTS
  Peers,
  numberOfThread,
  MaxFalseSessions   \* bound: sessions around INVALID_SOCKET

VARIABLES
  at,            \* where main is
  hThreads,      \* worker threads that were started
  m_iocpHandle,  \* CIocp has that port
  m_Socket,      \* the listening socket: "none", "socket", "bound" or "listening"
  peer,          \* per peer: how far its connection has come
  falseSessions  \* sessions around INVALID_SOCKET

vars == <<at, hThreads, m_iocpHandle, m_Socket, peer, falseSessions>>

Init ==
  /\ at = "StartNetwork"
  /\ hThreads = 0 /\ m_iocpHandle = FALSE
  /\ m_Socket = "none"
  /\ peer = [p \in Peers |-> "away"]
  /\ falseSessions = 0

Goto(step) == at' = step

\* WSAStartup: if it fails Initialize returns, and main calls Run all the same.
StartNetwork ==
  /\ at = "StartNetwork"
  /\ Goto("CreatePort") \/ Goto("Accept")
  /\ UNCHANGED <<hThreads, m_iocpHandle, m_Socket, peer, falseSessions>>

\* StartIocpThread up to its loop.
CreateIoCompletionPort ==
  /\ at = "CreatePort"
  /\ \/ m_iocpHandle' = TRUE /\ Goto("BeginThreads")
     \/ UNCHANGED m_iocpHandle /\ Goto("Bind")
  /\ UNCHANGED <<hThreads, m_Socket, peer, falseSessions>>

ThreadFails_ClosePort == m_iocpHandle' = FALSE
ThreadFails == UNCHANGED m_iocpHandle

\* The loop ends at the first thread that cannot be started; the port stays.
beginthreadex ==
  /\ at = "BeginThreads"
  /\ \/ /\ hThreads < numberOfThread
        /\ hThreads' = hThreads + 1 /\ UNCHANGED <<at, m_iocpHandle>>
     \/ /\ hThreads < numberOfThread
        /\ Goto("Bind") /\ ThreadFails /\ UNCHANGED hThreads
     \/ /\ hThreads = numberOfThread
        /\ Goto("Bind") /\ UNCHANGED <<hThreads, m_iocpHandle>>
  /\ UNCHANGED <<m_Socket, peer, falseSessions>>

\* socket, bind and listen; listen fails on a socket that is not bound.
Bind ==
  /\ at = "Bind"
  /\ m_Socket' \in {"none", "socket", "bound", "listening"}
  /\ Goto("Accept")
  /\ UNCHANGED <<hThreads, m_iocpHandle, peer, falseSessions>>

-----------------------------------------------------------------------------
(* Run.                                                                    *)

Connect(p) ==
  /\ peer[p] = "away" /\ m_Socket = "listening"
  /\ peer' = [peer EXCEPT ![p] = "backlog"]
  /\ UNCHANGED <<at, hThreads, m_iocpHandle, m_Socket, falseSessions>>

\* accept, then MakeClientSessionEx.
Accept(p) ==
  /\ at = "Accept" /\ peer[p] = "backlog"
  /\ peer' = [peer EXCEPT ![p] = "accepted"]
  /\ Goto("BindSocket")
  /\ UNCHANGED <<hThreads, m_iocpHandle, m_Socket, falseSessions>>

\* accept fails, at once where nothing listens: a session is made of it too,
\* its socket is not bound, its receive fails, and the loop goes round.
AcceptFails ==
  /\ at = "Accept" /\ falseSessions < MaxFalseSessions
  /\ falseSessions' = falseSessions + 1
  /\ UNCHANGED <<at, hThreads, m_iocpHandle, m_Socket, peer>>

\* BindSocket and the first RecvAsync.  CIocp leaves m_iocpHandle as it was
\* before the constructor if it got no port, and no handle found there is one
\* the workers listen to.  With a port the association may still fail, which
\* nobody asks after, or the receive, which is only printed.
BindSocket(p) ==
  /\ at = "BindSocket" /\ peer[p] = "accepted"
  /\ \E result \in IF m_iocpHandle THEN {"bound", "unbound", "unread"} ELSE {"deaf"} :
       peer' = [peer EXCEPT ![p] = result]
  /\ Goto("Accept")
  /\ UNCHANGED <<hThreads, m_iocpHandle, m_Socket, falseSessions>>

\* Some worker gets the completion of the peer's first bytes.
Serve(p) ==
  /\ peer[p] = "bound" /\ hThreads > 0
  /\ peer' = [peer EXCEPT ![p] = "served"]
  /\ UNCHANGED <<at, hThreads, m_iocpHandle, m_Socket, falseSessions>>

Main == StartNetwork \/ CreateIoCompletionPort \/ beginthreadex \/ Bind
        \/ AcceptFails \/ \E p \in Peers : Accept(p) \/ BindSocket(p)

Next == Main \/ \E p \in Peers : Connect(p) \/ Serve(p)

\* main and the workers run; accept gives each connection of the backlog a turn.
Fairness ==
  /\ WF_vars(Main)
  /\ \A p \in Peers : SF_vars(Accept(p)) /\ WF_vars(BindSocket(p)) /\ WF_vars(Serve(p))

Spec == Init /\ [][Next]_vars /\ Fairness

-----------------------------------------------------------------------------

\* However far the start got, everyone who could connect is served in the end,
\* as long as one worker was started and neither of the peer's own two calls,
\* the association with the port and the first receive, fails.  Threads that
\* could not be started after the first, failing accepts and the sessions made
\* of them, and what failed for another peer change nothing.
ConnectedIsServed ==
  \A p \in Peers :
    peer[p] = "backlog" ~> peer[p] \in {"served", "unbound", "unread"} \/ hThreads = 0
=============================================================================
