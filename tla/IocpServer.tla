----------------------------- MODULE IocpServer -----------------------------
(***************************************************************************)
(* The life of sessions in gordonlee_iocp: the main thread accepts them    *)
(* (Network::Run, MakeClientSessionEx), the worker threads handle the      *)
(* completions of their overlapped operations (WorkerThread) and tear them *)
(* down (CloseSession), and OverlappedIO structures are recycled through   *)
(* two FIFO pools.  A session is the number of its accept().               *)
(*                                                                         *)
(* A step is what a thread does between two accesses to shared state that  *)
(* another thread can change in a way that matters.  Bytes and framing are *)
(* left to modules SendPath and RecvPath: here a session's receive either  *)
(* brings packets or ends, and a flush finds more bytes or not.            *)
(***************************************************************************)
EXTENDS Integers, Sequences, FiniteSets, Functions

CONSTANTS
  Workers,       \* the worker threads
  MaxSessions,   \* bound: connections accepted
  PoolSize,      \* structures a pool grows by (2048 in the code)
  MaxReceives    \* bound: receives that bring bytes, over all sessions

ASSUME BoundsAssumption ==
  /\ MaxSessions \in Nat /\ MaxReceives \in Nat
  /\ PoolSize \in Nat \ {0}
  /\ IsFiniteSet(Workers)

VARIABLES
  accepted,      \* sessions accepted so far; the main thread works on the last
  main,          \* where the main thread is
  pool,          \* m_waitingQueue of g_recvIoPool and g_sendIoPool
  grown,         \* structures each pool has allocated
  Client,        \* OverlappedIO::Client
  overlapped,    \* m_pRecvOverlapped and m_pSendOverlapped of each session
  m_clients,
  handle,        \* m_Socket of each session
  socket,        \* the connection behind it
  m_IoState,     \* m_RecvIoState and m_SendIoState
  m_isClosing,
  ops,           \* overlapped operations the kernel holds
  port,          \* completions queued at the completion port
  work,          \* what each worker is doing
  receives,      \* receives that brought bytes so far
  teardowns,     \* history: how often CloseSession got hold of each session
  recvFailed,    \* history: sessions with a WSARecv that failed outright
  bindFailed,    \* sessions whose socket is not associated with the port for good
  stale          \* history: a completion was applied to another session

vars == <<accepted, main, pool, grown, Client, overlapped, m_clients, handle,
          socket, m_IoState, m_isClosing, ops, port, work, receives,
          teardowns, recvFailed, bindFailed, stale>>

Sessions == 1 .. MaxSessions
Kinds    == {"recv", "send"}
NULL     == 0

\* A structure of one of the pools.  A pool that runs empty grows once more.
Overlapped == Kinds \X (1 .. PoolSize * (MaxSessions + 1))

poolVars    == <<pool, grown, Client, overlapped>>
socketVars  == <<handle, socket, ops, port>>
historyVars == <<teardowns, recvFailed, bindFailed, stale>>

\* A worker: the step it is at, the structure and the session of its completion,
\* clientSession, sessions a broadcast has still to reach, the session it
\* flushes and the step after that.
Idle == [at |-> "idle", data |-> <<"recv", 1>>, of |-> NULL, client |-> NULL,
         todo |-> {}, target |-> NULL, next |-> "idle"]

Fresh(k, n) == [i \in 1 .. PoolSize |-> <<k, n + i>>]

Init ==
  /\ accepted = 0
  /\ main = "accept"
  /\ pool = [k \in Kinds |-> Fresh(k, 0)]
  /\ grown = [k \in Kinds |-> PoolSize]
  /\ Client = [o \in Overlapped |-> NULL]
  /\ overlapped = [s \in Sessions |-> [k \in Kinds |-> <<k, NULL>>]]
  /\ m_clients = {}
  /\ handle = [s \in Sessions |-> 0]
  /\ socket = [s \in Sessions |-> "none"]
  /\ m_IoState = [s \in Sessions |-> [k \in Kinds |-> "IO_NOT_CONNECTED"]]
  /\ m_isClosing = [s \in Sessions |-> FALSE]
  /\ ops = {}
  /\ port = << >>
  /\ work = [w \in Workers |-> Idle]
  /\ receives = 0
  /\ teardowns = [s \in Sessions |-> 0]
  /\ recvFailed = {}
  /\ bindFailed = {}
  /\ stale = FALSE

\* A NULL client is dereferenced: all threads stop, and the sockets go with the
\* process.
crashed == main = "crashed"

Crash ==
  /\ main' = "crashed"
  /\ work' = [w \in Workers |-> [Idle EXCEPT !.at = "crashed"]]

-----------------------------------------------------------------------------
(* Sockets and the completion port.                                        *)

\* The main thread has not associated the socket with the port yet, or has
\* failed to.
Unbound(s) ==
  \/ s = accepted /\ main \in {"takeRecv", "takeSend", "add", "bind"}
  \/ s \in bindFailed

\* The operations in S end with an error, in any order; nobody hears of those
\* on a socket that is not associated with the port.
Abort(S) ==
  LET heard == {o \in S : ~ Unbound(o.conn)} IN
  /\ ops' = ops \ S
  /\ \E q \in [1 .. Cardinality(heard) -> heard] :
       /\ Range(q) = heard
       /\ port' = port \o [i \in DOMAIN q |->
                            [data |-> q[i].data, of |-> q[i].of, ok |-> FALSE]]

\* Connections that a socket handle stands for: at most one.
Owner(h) == {t \in Sessions : handle[t] = h /\ socket[t] \in {"open", "reset"}}

\* closesocket(m_Socket).  The system may have given the handle of a socket
\* that is already closed to a later session.
closesocket(s) ==
  LET T == Owner(handle[s]) IN
  /\ socket' = [t \in Sessions |-> IF t \in T THEN "closed" ELSE socket[t]]
  /\ Abort({o \in ops : o.conn \in T})
  /\ UNCHANGED handle

\* Hand the kernel an operation on the connection behind m_Socket.
Post(s, k) ==
  \E t \in Owner(handle[s]) :
    /\ socket[t] = "open"
    /\ ops' = ops \cup {[data |-> overlapped[s][k], of |-> s, conn |-> t]}

\* TcpClient::RecvAsync.  A WSARecv may fail, and does on a closed socket;
\* that is only logged.
RecvAsync(s) ==
  /\ m_IoState' = [m_IoState EXCEPT ![s]["recv"] = "IO_PENDING"]
  /\ \/ Post(s, "recv") /\ UNCHANGED recvFailed
     \/ recvFailed' = recvFailed \cup {s} /\ UNCHANGED ops

\* TcpClient::FlushSendBuffer with something to send.
FlushSendBuffer(s) ==
  \/ /\ m_IoState[s]["send"] = "IO_PENDING"
     /\ UNCHANGED <<m_IoState, ops>>
  \/ /\ m_IoState[s]["send"] # "IO_PENDING"
     /\ m_IoState' = [m_IoState EXCEPT ![s]["send"] = "IO_PENDING"]
     /\ Post(s, "send") \/ UNCHANGED ops

-----------------------------------------------------------------------------
(* OverlappedIoPool.                                                       *)

\* Dequeue, growing the pool when it is empty, and tie the structure and the
\* session to each other.
TakeOverlapped(s, k) ==
  LET q == IF pool[k] = << >> THEN Fresh(k, grown[k]) ELSE pool[k] IN
  /\ pool' = [pool EXCEPT ![k] = Tail(q)]
  /\ grown' = [grown EXCEPT ![k] = IF pool[k] = << >> THEN @ + PoolSize ELSE @]
  /\ overlapped' = [overlapped EXCEPT ![s][k] = Head(q)]
  /\ Client' = [Client EXCEPT ![Head(q)] = s]

-----------------------------------------------------------------------------
(* The main thread: Network::Run and MakeClientSessionEx.                  *)

\* accept() returns a connection under any free handle, or INVALID_SOCKET,
\* which nobody looks at.
Accept ==
  /\ main = "accept"
  /\ accepted < MaxSessions
  /\ accepted' = accepted + 1
  /\ main' = "takeRecv"
  /\ \/ \E h \in Sessions :
          /\ Owner(h) = {}
          /\ handle' = [handle EXCEPT ![accepted + 1] = h]
          /\ socket' = [socket EXCEPT ![accepted + 1] = "open"]
     \/ UNCHANGED <<handle, socket>>
  /\ UNCHANGED <<poolVars, historyVars, m_clients, m_IoState, m_isClosing, ops,
                 port, work, receives>>

TakeRecvOverlapped ==
  /\ main = "takeRecv"
  /\ TakeOverlapped(accepted, "recv")
  /\ main' = "takeSend"
  /\ UNCHANGED <<socketVars, historyVars, accepted, m_clients, m_IoState,
                 m_isClosing, work, receives>>

TakeSendOverlapped ==
  /\ main = "takeSend"
  /\ TakeOverlapped(accepted, "send")
  /\ main' = "add"
  /\ UNCHANGED <<socketVars, historyVars, accepted, m_clients, m_IoState,
                 m_isClosing, work, receives>>

\* TcpClient::Initialize and AddTcpClient: broadcasts reach the session now.
AddTcpClient ==
  /\ main = "add"
  /\ m_IoState' = [m_IoState EXCEPT ![accepted]["recv"] = "IO_CONNECTED"]
  /\ m_clients' = m_clients \cup {accepted}
  /\ main' = "bind"
  /\ UNCHANGED <<poolVars, socketVars, historyVars, accepted, m_isClosing, work,
                 receives>>

\* CreateIoCompletionPort fails on a socket that is closed or never was one, and
\* may fail on any other; Run does not look at the result.
BindSocket ==
  /\ main = "bind"
  /\ main' = "recv"
  /\ \/ Owner(handle[accepted]) # {} /\ UNCHANGED bindFailed
     \/ bindFailed' = bindFailed \cup {accepted}
  /\ UNCHANGED <<poolVars, socketVars, accepted, m_clients, m_IoState,
                 m_isClosing, work, receives, teardowns, recvFailed, stale>>

\* handleData->GetClientObject()->RecvAsync(), unless a worker has torn the
\* session down already.
FirstReceive ==
  /\ main = "recv"
  /\ LET c == Client[overlapped[accepted]["recv"]] IN
     \/ /\ c = NULL
        /\ Crash
        /\ UNCHANGED <<m_IoState, ops, recvFailed>>
     \/ /\ c # NULL
        /\ RecvAsync(c)
        /\ main' = "accept"
        /\ UNCHANGED work
  /\ UNCHANGED <<poolVars, handle, socket, port, accepted, m_clients,
                 m_isClosing, receives, teardowns, bindFailed, stale>>

-----------------------------------------------------------------------------
(* The kernel and the peers.                                               *)

\* A pending operation ends: a receive with bytes or at the end of the stream,
\* a send with its bytes sent.
Complete ==
  /\ ~ crashed
  /\ \E o \in ops, ok \in BOOLEAN :
       /\ socket[o.conn] = "open"
       /\ o.data[1] = "send" => ok
       /\ o.data[1] = "recv" /\ ok => receives < MaxReceives
       /\ receives' = receives + IF o.data[1] = "recv" /\ ok THEN 1 ELSE 0
       /\ ops' = ops \ {o}
       /\ port' = IF Unbound(o.conn) THEN port
                  ELSE Append(port, [data |-> o.data, of |-> o.of, ok |-> ok])
  /\ UNCHANGED <<poolVars, historyVars, accepted, main, m_clients, handle, socket,
                 m_IoState, m_isClosing, work>>

\* A peer resets its connection.
PeerReset ==
  /\ ~ crashed
  /\ \E t \in Sessions :
       /\ socket[t] = "open"
       /\ socket' = [socket EXCEPT ![t] = "reset"]
       /\ Abort({o \in ops : o.conn = t})
  /\ UNCHANGED <<poolVars, historyVars, accepted, main, m_clients, handle,
                 m_IoState, m_isClosing, work, receives>>

-----------------------------------------------------------------------------
(* The workers: WorkerThread.                                              *)

Done(w)    == work' = [work EXCEPT ![w] = Idle]
Goto(w, l) == IF l = "idle" THEN Done(w) ELSE work' = [work EXCEPT ![w].at = l]

\* GetQueuedCompletionStatus.
GetCompletion(w) ==
  /\ work[w].at = "idle"
  /\ port # << >>
  /\ port' = Tail(port)
  /\ work' = [work EXCEPT ![w] =
                [Idle EXCEPT !.at = IF Head(port).ok THEN "expired?" ELSE "failed",
                             !.data = Head(port).data, !.of = Head(port).of]]
  /\ UNCHANGED <<poolVars, historyVars, accepted, main, m_clients, handle,
                 socket, m_IoState, m_isClosing, ops, receives>>

\* retval == 0 || cbTransferred == 0: the client's socket is looked up first.
FailedCompletion(w) ==
  /\ work[w].at = "failed"
  /\ \/ /\ Client[work[w].data] = NULL
        /\ Crash
     \/ /\ Client[work[w].data] # NULL
        /\ Goto(w, "close")
        /\ UNCHANGED main
  /\ UNCHANGED <<poolVars, socketVars, historyVars, accepted, m_clients,
                 m_IoState, m_isClosing, receives>>

\* The first look at the client: "This session is already Expired."
ExpiredTest(w) ==
  /\ work[w].at = "expired?"
  /\ IF Client[work[w].data] = NULL THEN Done(w) ELSE Goto(w, "client?")
  /\ UNCHANGED <<poolVars, socketVars, historyVars, accepted, main, m_clients,
                 m_IoState, m_isClosing, receives>>

\* The second: a client that is gone by now is an "Unhandled case".
ClientTest(w) ==
  /\ work[w].at = "client?"
  /\ Goto(w, IF Client[work[w].data] = NULL THEN "close" ELSE "dispatch")
  /\ UNCHANGED <<poolVars, socketVars, historyVars, accepted, main, m_clients,
                 m_IoState, m_isClosing, receives>>

\* The third takes it, and the completion goes to OnReceived or OnSend, or to
\* nobody when the session expects none.
Dispatch(w) ==
  /\ work[w].at = "dispatch"
  /\ LET c == Client[work[w].data]
         k == work[w].data[1] IN
     \/ /\ c = NULL
        /\ Crash
        /\ UNCHANGED <<m_IoState, stale>>
     \/ /\ c # NULL
        /\ m_IoState[c][k] # "IO_PENDING"
        /\ Done(w)
        /\ UNCHANGED <<main, m_IoState, stale>>
     \/ /\ c # NULL
        /\ m_IoState[c][k] = "IO_PENDING"
        /\ m_IoState' = [m_IoState EXCEPT ![c][k] = "IO_CONNECTED"]
        /\ stale' = (stale \/ c # work[w].of)
        /\ work' = [work EXCEPT ![w].client = c,
                                ![w].at = IF k = "recv" THEN "packets" ELSE "isvalid"]
        /\ UNCHANGED main
  /\ UNCHANGED <<poolVars, socketVars, accepted, m_clients, m_isClosing,
                 receives, teardowns, recvFailed, bindFailed>>

\* ProcessPacket has a broadcast: to the sessions listed now.
Broadcast(w) ==
  /\ work[w].at = "packets"
  /\ work[w].todo = {}
  /\ m_clients # {}
  /\ work' = [work EXCEPT ![w].todo = m_clients]
  /\ UNCHANGED <<poolVars, socketVars, historyVars, accepted, main, m_clients,
                 m_IoState, m_isClosing, receives>>

\* The next of them gets the packet if it is valid; its send buffer is flushed
\* later, whatever has become of the session by then.
Relay(w) ==
  /\ work[w].at = "packets"
  /\ \E t \in work[w].todo :
       \/ /\ m_isClosing[t]
          /\ work' = [work EXCEPT ![w].todo = @ \ {t}]
       \/ /\ ~ m_isClosing[t]
          /\ work' = [work EXCEPT ![w].todo = @ \ {t}, ![w].at = "flush",
                                  ![w].target = t, ![w].next = "packets"]
  /\ UNCHANGED <<poolVars, socketVars, historyVars, accepted, main, m_clients,
                 m_IoState, m_isClosing, receives>>

Flush(w) ==
  /\ work[w].at = "flush"
  /\ FlushSendBuffer(work[w].target)
  /\ Goto(w, work[w].next)
  /\ UNCHANGED <<poolVars, historyVars, accepted, main, m_clients, handle, socket,
                 port, m_isClosing, receives>>

\* ProcessPacket calls Close(true) on its own session: the packet goes on after
\* a bad checksum and ends after a bad flag or at a full send buffer.
CloseSelf(w) ==
  /\ work[w].at = "packets"
  /\ closesocket(work[w].client)
  /\ \E T \in {{}, work[w].todo} :
       work' = [work EXCEPT ![w].at = "closingSelf", ![w].todo = T]
  /\ UNCHANGED <<poolVars, historyVars, accepted, main, m_clients, m_IoState,
                 m_isClosing, receives>>

\* The loop over the packets ends; TryProcessPacket flushes the session's own
\* send buffer, valid or not, if an echo or anything else is in it.
EndOfPackets(w) ==
  /\ work[w].at = "packets"
  /\ work[w].todo = {}
  /\ \E l \in {"flush", "isvalid"} :
       work' = [work EXCEPT ![w].at = l, ![w].target = work[w].client,
                            ![w].next = "isvalid"]
  /\ UNCHANGED <<poolVars, socketVars, historyVars, accepted, main, m_clients,
                 m_IoState, m_isClosing, receives>>

\* Slip: a valid session posts a receive after a send, too.
IsValid_AnyKind(w) ==
  /\ work[w].at = "isvalid"
  /\ Goto(w, IF m_isClosing[work[w].client] THEN "close" ELSE "recvasync")
  /\ UNCHANGED <<poolVars, socketVars, historyVars, accepted, main, m_clients,
                 m_IoState, m_isClosing, receives>>

\* Slip: a valid session is left alone after a receive.
IsValid_NoReceive(w) ==
  /\ work[w].at = "isvalid"
  /\ Goto(w, IF m_isClosing[work[w].client] THEN "close" ELSE "idle")
  /\ UNCHANGED <<poolVars, socketVars, historyVars, accepted, main, m_clients,
                 m_IoState, m_isClosing, receives>>

\* IsValid after OnReceived and after OnSend: a valid session posts its next
\* receive, or flushes what it has to send; another is closed.
IsValid(w) ==
  /\ work[w].at = "isvalid"
  /\ \/ /\ m_isClosing[work[w].client]
        /\ Goto(w, "close")
     \/ /\ ~ m_isClosing[work[w].client]
        /\ work[w].data[1] = "recv"
        /\ Goto(w, "recvasync")
     \/ /\ ~ m_isClosing[work[w].client]
        /\ work[w].data[1] = "send"
        /\ \/ Done(w)
           \/ work' = [work EXCEPT ![w].at = "flush", ![w].target = work[w].client,
                                   ![w].next = "idle"]
  /\ UNCHANGED <<poolVars, socketVars, historyVars, accepted, main, m_clients,
                 m_IoState, m_isClosing, receives>>

NextReceive(w) ==
  /\ work[w].at = "recvasync"
  /\ RecvAsync(work[w].client)
  /\ Done(w)
  /\ UNCHANGED <<poolVars, handle, socket, port, accepted, main, m_clients,
                 m_isClosing, receives, teardowns, bindFailed, stale>>

-----------------------------------------------------------------------------
(* The workers: CloseSession.                                              *)

\* Take the client from the structure, if it is still there.
CloseSession(w) ==
  /\ work[w].at = "close"
  /\ LET c == Client[work[w].data] IN
     \/ /\ c = NULL
        /\ Done(w)
        /\ UNCHANGED <<teardowns, stale>>
     \/ /\ c # NULL
        /\ work' = [work EXCEPT ![w].at = "remove", ![w].client = c]
        /\ teardowns' = [teardowns EXCEPT ![c] = @ + 1]
        /\ stale' = (stale \/ c # work[w].of)
  /\ UNCHANGED <<poolVars, socketVars, accepted, main, m_clients, m_IoState,
                 m_isClosing, receives, recvFailed, bindFailed>>

\* Slip: the session stays in m_clients.
RemoveTcpClient_Forgotten(w) ==
  /\ work[w].at = "remove"
  /\ Goto(w, "disownRecv")
  /\ UNCHANGED <<poolVars, socketVars, historyVars, accepted, main, m_clients,
                 m_IoState, m_isClosing, receives>>

RemoveTcpClient(w) ==
  /\ work[w].at = "remove"
  /\ m_clients' = m_clients \ {work[w].client}
  /\ Goto(w, "disownRecv")
  /\ UNCHANGED <<poolVars, socketVars, historyVars, accepted, main, m_IoState,
                 m_isClosing, receives>>

DisownAt  == [recv |-> "disownRecv", send |-> "disownSend"]
EnqueueAt == [recv |-> "enqueueRecv", send |-> "enqueueSend"]
After     == [recv |-> "disownSend", send |-> "closesocket"]

\* Slip: the structure keeps its client.
Disown_KeepClient(w, k) ==
  /\ work[w].at = DisownAt[k]
  /\ overlapped[work[w].client][k] # <<k, NULL>>
  /\ Goto(w, EnqueueAt[k])
  /\ UNCHANGED <<poolVars, socketVars, historyVars, accepted, main, m_clients,
                 m_IoState, m_isClosing, receives>>

\* Slip: no test whether the session has the structure.
Disown_NoTest(w, k) ==
  /\ work[w].at = DisownAt[k]
  /\ Client' = [o \in Overlapped |->
                  IF o = overlapped[work[w].client][k] THEN NULL ELSE Client[o]]
  /\ Goto(w, EnqueueAt[k])
  /\ UNCHANGED <<pool, grown, overlapped, socketVars, historyVars, accepted, main,
                 m_clients, m_IoState, m_isClosing, receives>>

\* Take the client off one of the session's structures, whatever the kernel
\* does with it, unless the session has none yet;
Disown(w, k) ==
  LET o == overlapped[work[w].client][k] IN
  /\ work[w].at = DisownAt[k]
  /\ \/ /\ o = <<k, NULL>>
        /\ Goto(w, After[k])
        /\ UNCHANGED Client
     \/ /\ o # <<k, NULL>>
        /\ Client' = [Client EXCEPT ![o] = NULL]
        /\ Goto(w, EnqueueAt[k])
  /\ UNCHANGED <<pool, grown, overlapped, socketVars, historyVars, accepted, main,
                 m_clients, m_IoState, m_isClosing, receives>>

\* and put it back into its pool.
Enqueue(w, k) ==
  /\ work[w].at = EnqueueAt[k]
  /\ pool' = [pool EXCEPT ![k] = Append(@, overlapped[work[w].client][k])]
  /\ Goto(w, After[k])
  /\ UNCHANGED <<grown, Client, overlapped, socketVars, historyVars, accepted,
                 main, m_clients, m_IoState, m_isClosing, receives>>

\* TcpClient::Close: closesocket first,
Close(w) ==
  /\ work[w].at = "closesocket"
  /\ closesocket(work[w].client)
  /\ Goto(w, "closing")
  /\ UNCHANGED <<poolVars, historyVars, accepted, main, m_clients, m_IoState,
                 m_isClosing, receives>>

\* then the flag that IsValid looks at.
SetClosing(w) ==
  /\ work[w].at \in {"closing", "closingSelf"}
  /\ m_isClosing' = [m_isClosing EXCEPT ![work[w].client] = TRUE]
  /\ Goto(w, IF work[w].at = "closing" THEN "idle" ELSE "packets")
  /\ UNCHANGED <<poolVars, socketVars, historyVars, accepted, main, m_clients,
                 m_IoState, receives>>

-----------------------------------------------------------------------------

Run ==
  \/ Accept
  \/ TakeRecvOverlapped
  \/ TakeSendOverlapped
  \/ AddTcpClient
  \/ BindSocket
  \/ FirstReceive

WorkerThread(w) ==
  \/ GetCompletion(w)
  \/ FailedCompletion(w)
  \/ ExpiredTest(w)
  \/ ClientTest(w)
  \/ Dispatch(w)
  \/ Broadcast(w)
  \/ Relay(w)
  \/ Flush(w)
  \/ CloseSelf(w)
  \/ EndOfPackets(w)
  \/ IsValid(w)
  \/ NextReceive(w)
  \/ CloseSession(w)
  \/ RemoveTcpClient(w)
  \/ \E k \in Kinds : Disown(w, k) \/ Enqueue(w, k)
  \/ Close(w)
  \/ SetClosing(w)

Next ==
  \/ Run
  \/ \E w \in Workers : WorkerThread(w)
  \/ Complete
  \/ PeerReset

Spec == Init /\ [][Next]_vars

-----------------------------------------------------------------------------
(* Properties.                                                             *)

\* CloseSession has got hold of some session more than once: two workers, one
\* with a receive completion and one with a send completion of the session,
\* both read the client before either takes it away.
TornDownTwice == \E s \in Sessions : teardowns[s] > 1

\* Nothing went wrong that the code cannot notice.
Sane == ~ crashed /\ ~ stale /\ ~ TornDownTwice

\* As long as no session is torn down twice, a pool never holds a structure
\* twice or one that belongs to a session, and no structure is lost
\* (MakeClientSessionEx and CloseSession, whatever is in flight).
PoolsAccountForAll ==
  ~ crashed /\ ~ TornDownTwice =>
    \A k \in Kinds :
      LET handedBack == {w \in Workers : work[w].at = EnqueueAt[k]}
          free == {<<k, n>> : n \in {i \in 1 .. grown[k] : Client[<<k, i>>] = NULL}}
      IN /\ free = Range(pool[k]) \cup {overlapped[work[w].client][k] : w \in handedBack}
         /\ Cardinality(free) = Len(pool[k]) + Cardinality(handedBack)

\* A receive of session s that is on its way: held by the kernel, queued at the
\* port, or in the hands of a thread that will post the next one or close.
Receiving(s) ==
  {o \in ops : o.of = s /\ o.data[1] = "recv"}
  \cup {<<i, port[i]>> : i \in {j \in DOMAIN port : port[j].of = s /\ port[j].data[1] = "recv"}}
  \cup {w \in Workers : work[w].at # "idle" /\ work[w].of = s /\ work[w].data[1] = "recv"}

\* As long as completions go to their own sessions, a session has at most one
\* receive on its way, even if it is torn down twice; so OnReceived never runs
\* twice at the same time on one receive buffer, which has no lock.
OneReceive ==
  ~ crashed /\ ~ stale => \A s \in Sessions : Cardinality(Receiving(s)) <= 1

\* A session that is served is never deaf: it has a receive on its way, unless
\* a WSARecv on it has failed, which leaves it in m_clients for ever
\* (network.cpp:164, 280 only log it; an accept() failure ends there too), or its
\* socket could not be associated with the port (Iocp.cpp:52), which
\* network.cpp:274 does not look at, so that its completions go nowhere, or its
\* connection was closed under it: Close calls closesocket on a handle that the
\* session's packets, or an earlier Close, closed already (TcpClient.cpp:182), and
\* meanwhile the system has given the handle to this one.  Its next WSARecv may
\* then go to a third session that has the handle and is not bound yet.
NoDeafSession ==
  Sane =>
    \A s \in m_clients :
      \/ s = accepted /\ main # "accept"
      \/ Receiving(s) # {}
      \/ s \in recvFailed \/ s \in bindFailed
      \/ socket[s] = "closed" /\ ~ m_isClosing[s]

\* A session that has been torn down is not broadcast to again.
TornDownIsUnlisted ==
  ~ crashed /\ ~ stale => \A s \in m_clients :
    teardowns[s] > 0 => \E w \in Workers : work[w].at = "remove" /\ work[w].client = s

\* As long as every completion goes to its own session, none is torn down more
\* often than there are worker threads, so with one worker never twice, however
\* its completions are ordered: CloseSession takes the client off both structures,
\* and only a worker that had read it before gets hold of it once more.  (A late
\* completion that finds its structure with the next session tears that one down
\* while it is being made, and a second such completion does so again.)
TornDownOnce == ~ stale => \A s \in Sessions : teardowns[s] <= Cardinality(Workers)

\* network.cpp:149 "This session is already Expired.": a completion for a
\* session that is gone is recognised, not dereferenced.
ExpiredIsRecognised == ~ crashed
=============================================================================
