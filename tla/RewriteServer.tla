--------------------------- MODULE RewriteServer ---------------------------
(***************************************************************************)
(* The server of gordonlee from main() on: Network::Initialize with what   *)
(* may fail in it, the accept thread that registers the listening socket   *)
(* and posts one AcceptEx, the worker threads that handle its completion,  *)
(* and Clean.  Peers connect to the listening socket, and may reset before *)
(* they are accepted.  No result of Initialize, Start, StartIocpThread,    *)
(* Register or AcceptEx is looked at by its caller.                        *)
(***************************************************************************)
EXTENDS Integers, Sequences, FiniteSets

CONSTANTS
  Peers,            \* the connections peers try to make
  NumOfThreads,     \* StartIocpThread(2)
  SessionStatus     \* values of an enum SessionStatus, "CONNECTED" among them

ASSUME ServerAssumption ==
  /\ NumOfThreads \in Nat
  /\ "CONNECTED" \in SessionStatus

VARIABLES
  main,             \* where main() is
  accept_thread_,   \* where InternalRun is; "none" if there is no thread
  is_thread_running_,
  wsa,              \* WSAStartup succeeded and WSACleanup did not run
  socket_,          \* the listening socket
  iocp_handle_,     \* the completion port exists
  workers,          \* worker threads started
  registered,       \* the listening socket is bound to the port
  client,           \* the TcpClient of SetupAcceptableClient
  posted,           \* an AcceptEx waits in the kernel
  port,             \* completions queued at the port: what became of the connection
  peer              \* each connection

vars == <<main, accept_thread_, is_thread_running_, wsa, socket_, iocp_handle_,
          workers, registered, client, posted, port, peer>>

netVars == <<wsa, socket_, iocp_handle_, workers>>
accVars == <<registered, client, posted, port, peer>>

\* socket: whether socket() in TcpClient() worked; status_ is not initialised.
NoClient == [made |-> FALSE, socket |-> FALSE, status_ |-> "CONNECTED", onAccept |-> 0]

Init ==
  /\ main = "startWSA"
  /\ accept_thread_ = "none"
  /\ is_thread_running_ = TRUE
  /\ wsa = FALSE /\ socket_ = "none" /\ iocp_handle_ = FALSE /\ workers = 0
  /\ registered = FALSE /\ client = NoClient /\ posted = FALSE /\ port = << >>
  /\ peer = [p \in Peers |-> "away"]

-----------------------------------------------------------------------------
(* Network::Initialize, on the main thread.                                *)

\* _StartWSA; on failure Initialize returns and main goes on to wait.
StartWSA ==
  /\ main = "startWSA"
  /\ \/ wsa' = TRUE /\ main' = "start"
     \/ wsa' = FALSE /\ main' = "wait"
  /\ UNCHANGED <<accept_thread_, is_thread_running_, socket_, iocp_handle_, workers, accVars>>

\* TcpServer::Start: Initialize, Bind and Listen up to the first that fails.
Listen     == {"bound", "listening"}
Bind       == {"unbound"} \cup Listen
Initialize == {"INVALID_SOCKET"} \cup Bind

Start ==
  /\ main = "start" /\ main' = "startIocpThread"
  /\ socket_' \in Initialize
  /\ UNCHANGED <<accept_thread_, is_thread_running_, wsa, iocp_handle_, workers, accVars>>

\* IocpBinder::StartIocpThread: the port, then workers until one fails to start.
CreateIocpHandle == iocp_handle_' \in BOOLEAN

StartIocpThread ==
  /\ main = "startIocpThread" /\ main' = "spawn"
  /\ CreateIocpHandle
  /\ workers' \in IF iocp_handle_' THEN 0 .. NumOfThreads ELSE {workers}
  /\ UNCHANGED <<accept_thread_, is_thread_running_, wsa, socket_, accVars>>

\* accept_thread_ = std::thread(&Network::InternalRun, this).
SpawnAccept ==
  /\ main = "spawn" /\ main' = "wait"
  /\ accept_thread_' = "construct"
  /\ UNCHANGED <<is_thread_running_, netVars, accVars>>

-----------------------------------------------------------------------------
(* main() after Initialize.                                                *)

WaitReturns_AtOnce == TRUE

\* WaitForSingleObject(get_thread_handle(), INFINITE): a thread that ended, or
\* no handle at all.
WaitReturns == accept_thread_ \in {"none", "ended"}

WaitInMain ==
  /\ main = "wait" /\ WaitReturns /\ main' = "clean"
  /\ UNCHANGED <<accept_thread_, is_thread_running_, netVars, accVars>>

CleanStops ==
  /\ main = "clean" /\ main' = "cleanWait"
  /\ is_thread_running_' = FALSE
  /\ UNCHANGED <<accept_thread_, netVars, accVars>>

\* detach() of a std::thread that was never started throws, and nothing in
\* main catches it; otherwise WSACleanup and the process ends.
CleanEnds ==
  /\ main = "cleanWait" /\ accept_thread_ \in {"none", "ended"}
  /\ IF accept_thread_ = "none" THEN main' = "terminated" /\ UNCHANGED wsa
     ELSE main' = "returned" /\ wsa' = FALSE
  /\ UNCHANGED <<accept_thread_, is_thread_running_, socket_, iocp_handle_, workers, accVars>>

Ended == main \in {"terminated", "returned"}

-----------------------------------------------------------------------------
(* InternalRun, on the accept thread.                                      *)

\* The order of SetupAcceptableClient.
After_AcceptFirst(step) ==
  CASE step = "construct" -> "acceptEx" [] step = "acceptEx" -> "register" [] OTHER -> "loop"
After(step) ==
  CASE step = "construct" -> "register" [] step = "register" -> "acceptEx" [] OTHER -> "loop"

Accepting(step) ==
  /\ ~ Ended /\ accept_thread_ = step /\ accept_thread_' = After(step)
  /\ UNCHANGED <<main, is_thread_running_, netVars>>

\* TcpClient(): its socket may be invalid, status_ is whatever memory held.
NewClient ==
  /\ Accepting("construct")
  /\ \E ok \in {TRUE, FALSE}, s \in SessionStatus :
       client' = [made |-> TRUE, socket |-> ok, status_ |-> s, onAccept |-> 0]
  /\ UNCHANGED <<registered, posted, port, peer>>

\* IocpBinder::Register.  Without a port CreateIoCompletionPort makes a new one
\* that no worker waits at.
Register ==
  /\ Accepting("register")
  /\ registered' \in {FALSE, iocp_handle_ /\ socket_ \notin {"none", "INVALID_SOCKET"}}
  /\ UNCHANGED <<client, posted, port, peer>>

\* TcpServer::AcceptEx; an error is displayed.
AcceptEx ==
  /\ Accepting("acceptEx")
  /\ posted' \in {FALSE, socket_ = "listening" /\ client.socket}
  /\ UNCHANGED <<registered, client, port, peer>>

\* while (IsRunning()) Run(), and Run does nothing.
Run ==
  /\ ~ Ended /\ accept_thread_ = "loop"
  /\ accept_thread_' = IF is_thread_running_ THEN "loop" ELSE "ended"
  /\ UNCHANGED <<main, is_thread_running_, netVars, accVars>>

-----------------------------------------------------------------------------
(* Peers and the kernel.                                                   *)

Connect(p) ==
  /\ ~ Ended /\ socket_ = "listening" /\ peer[p] = "away"
  /\ peer' = [peer EXCEPT ![p] = "backlog"]
  /\ UNCHANGED <<main, accept_thread_, is_thread_running_, netVars, registered, client, posted, port>>

\* The posted AcceptEx takes a connection of the backlog, or fails because the
\* peer reset it.  Nobody hears of it if the socket is not registered.
Complete(p, outcome) ==
  /\ ~ Ended /\ posted /\ peer[p] = "backlog"
  /\ posted' = FALSE
  /\ peer' = [peer EXCEPT ![p] = outcome]
  /\ port' = IF registered THEN Append(port, outcome) ELSE port
  /\ UNCHANGED <<main, accept_thread_, is_thread_running_, netVars, registered, client>>

OnAccept(c) == [c EXCEPT !.onAccept = @ + 1, !.status_ = "CONNECTED"]

Work_Inverted ==
  /\ ~ Ended /\ workers > 0 /\ port # << >>
  /\ port' = Tail(port)
  /\ client' = IF Head(port) = "reset" THEN OnAccept(client) ELSE client
  /\ UNCHANGED <<main, accept_thread_, is_thread_running_, netVars, registered, posted, peer>>

\* WorkerThread: a failed completion is dropped.
Work ==
  /\ ~ Ended /\ workers > 0 /\ port # << >>
  /\ port' = Tail(port)
  /\ client' = IF Head(port) = "accepted" THEN OnAccept(client) ELSE client
  /\ UNCHANGED <<main, accept_thread_, is_thread_running_, netVars, registered, posted, peer>>

Next ==
  \/ StartWSA \/ Start \/ StartIocpThread \/ SpawnAccept
  \/ WaitInMain \/ CleanStops \/ CleanEnds
  \/ NewClient \/ Register \/ AcceptEx \/ Run
  \/ \E p \in Peers : Connect(p) \/ Complete(p, "accepted") \/ Complete(p, "reset")
  \/ Work

\* The threads keep running and the kernel completes what can be completed;
\* peers owe nothing.
Fairness ==
  /\ WF_vars(StartWSA \/ Start \/ StartIocpThread \/ SpawnAccept \/ WaitInMain \/ CleanStops \/ CleanEnds)
  /\ WF_vars(NewClient \/ Register \/ AcceptEx \/ Run)
  /\ WF_vars(\E p \in Peers : Complete(p, "accepted") \/ Complete(p, "reset"))
  /\ WF_vars(Work)

Spec == Init /\ [][Next]_vars /\ Fairness

-----------------------------------------------------------------------------

\* main waits for a thread that only Clean, after that wait, would end: once the
\* accept thread exists the server never shuts down, and the only way past the
\* wait is a WSAStartup that failed (server_main.cpp:13).
ShutdownNeedsFailedStart ==
  /\ accept_thread_ # "none" => main = "wait" /\ is_thread_running_
  /\ main \in {"clean", "cleanWait", "terminated", "returned"} => ~ wsa /\ socket_ = "none"

\* Register comes before AcceptEx, so a connection the kernel accepted is always
\* heard of: its completion is queued or OnAccept ran, if registering worked.
AcceptIsHeard ==
  registered => Cardinality({p \in Peers : peer[p] = "accepted"}) =
                  Cardinality({i \in DOMAIN port : port[i] = "accepted"}) + client.onAccept

\* If the port has a worker and the listening socket is registered, a pending
\* AcceptEx and a peer in the backlog lead to OnAccept, unless the peer reset.
FirstPeerIsServed ==
  posted /\ registered /\ workers > 0 /\ (\E p \in Peers : peer[p] = "backlog")
    ~> client.onAccept > 0 \/ \E p \in Peers : peer[p] = "reset"
=============================================================================
