------------------------------ MODULE SendPath ------------------------------
(***************************************************************************)
(* The send side of one TcpClient (socket/TcpClient.cpp) as the worker     *)
(* threads of network/network.cpp drive it.  Workers write packets into    *)
(* m_pSendBuffer (an echo by the worker that holds the session's receive   *)
(* completion, a broadcast by any other), flush it with an overlapped      *)
(* WSASend, and handle the completion of that WSASend; the kernel reads    *)
(* the buffer's memory while the operation is pending.                     *)
(*                                                                         *)
(* The session's OverlappedIO comes from a pool, to which CloseSession     *)
(* gives it back with a WSASend of its former owner still pending.  The    *)
(* completion of that send finds this session in the structure and is      *)
(* handled as one of its own.                                              *)
(*                                                                         *)
(* A section under m_pSendLock that touches only state the lock protects   *)
(* is one step guarded by the lock being free.  FlushSendBuffer is two,    *)
(* because m_SendIoState is also read without the lock (network.cpp:176):  *)
(* IO_PENDING is set, then WSASend is called, with the lock held between.  *)
(* CRITICAL_SECTION is reentrant, so the nested lock of SendAsync inside   *)
(* FlushSendBuffer never blocks.                                           *)
(***************************************************************************)
EXTENDS Integers, Sequences

CONSTANTS
  Workers,       \* the IOCP worker threads
  NoWorker,      \* nobody: the lock is free
  Byte,          \* byte values
  Packets,       \* the byte sequences handed to WriteSendBuffer
  BUFFER_SIZE,   \* capacity of a PulledBuffer
  MaxPackets,    \* bound: packets written in a behaviour
  MaxFormer      \* bound: sends of former owners still pending at the start

ASSUME WorkersAssumption == NoWorker \notin Workers
ASSUME PacketsAssumption == Packets \subseteq Seq(Byte)
ASSUME SizeAssumption    == BUFFER_SIZE \in Nat /\ MaxPackets \in Nat /\ MaxFormer \in Nat

VARIABLES
  m_pSendBuffer, \* the queued bytes: m_Buffer[0 .. m_Length)
  m_SendIoState,
  m_isClosing,
  sendLock,      \* owner of m_pSendLock
  socket,        \* "open", "reset" by the peer, "closed" by closesocket
  pendingSend,   \* WSASends the kernel holds: bytes asked for, bytes done
  port,          \* their completions, queued at the completion port
  bound,         \* the socket is associated with the completion port
  bindFailed,    \* associating it failed, which nobody looks at
  lostBytes,     \* bytes of a send that completed unreported
  former,        \* sends of the structure's former owners, not completed yet
  pc,            \* where each worker is
  transferred,   \* cbTransferred of the completion a worker handles
  resume,        \* where each worker goes on after a flush or a close
  sendFailed,    \* a WSASend failed outright
  packets,       \* packets written so far
  stale,         \* history: OnSend was given another session's completion
  accepted,      \* history: every byte WriteSendBuffer took
  wire           \* history: every byte the kernel sent, as long as not stale

vars == <<m_pSendBuffer, m_SendIoState, m_isClosing, sendLock, socket,
          pendingSend, port, bound, bindFailed, lostBytes, former, pc,
          transferred, resume, sendFailed, packets, stale, accepted, wire>>

bindVars   == <<bound, bindFailed>>
formerVars == <<former, stale>>
kernelVars == <<socket, pendingSend, port, bindVars, lostBytes, formerVars, wire>>
bufferVars == <<m_pSendBuffer, accepted>>

IO_STATE == {"IO_NOT_CONNECTED", "IO_CONNECTED", "IO_PENDING"}

Labels == {"idle", "echo", "closesocket", "closing", "write", "flush",
           "send", "onsend", "isvalid", "recvasync", "terminated"}

\* A WSASend the kernel holds, and what GetQueuedCompletionStatus reports.
Op         == [len : Nat, done : Nat]
Completion == [ok : BOOLEAN, bytes : Nat]

\* A worker is between GetQueuedCompletionStatus and RecvAsync of this
\* session's receive in the last two.
Resumes == {"idle", "echo", "recvasync"}

LockFree   == sendLock = NoWorker
Goto(w, l) == pc' = [pc EXCEPT ![w] = l]

\* The process has not been ended by an exception nobody catches.
Running == \A w \in Workers : pc[w] # "terminated"

Init ==
  /\ m_pSendBuffer = << >>
  /\ m_SendIoState = "IO_NOT_CONNECTED"
  /\ m_isClosing = FALSE
  /\ sendLock = NoWorker
  /\ socket = "open"
  /\ pendingSend = << >>
  /\ port = << >>
  /\ bound = FALSE
  /\ bindFailed = FALSE
  /\ lostBytes = 0
  /\ former \in 0 .. MaxFormer
  /\ pc = [w \in Workers |-> "idle"]
  /\ transferred = [w \in Workers |-> 0]
  /\ resume = [w \in Workers |-> "idle"]
  /\ sendFailed = FALSE
  /\ packets = 0
  /\ stale = FALSE
  /\ accepted = << >>
  /\ wire = << >>

-----------------------------------------------------------------------------
(* Writing packets: ProcessPacket, WriteSendBuffer, EnqueueSendBuffer.     *)

\* Slip: Write without its capacity test.
Fits_Unchecked(p) == p \in Packets

\* PulledBuffer::Write takes a packet whole or returns -1.
Fits(p) == Len(m_pSendBuffer) + Len(p) <= BUFFER_SIZE

EnqueueSendBuffer(p) ==
  /\ m_pSendBuffer' = m_pSendBuffer \o p
  /\ accepted' = accepted \o p

\* The accepting thread associates the socket with the completion port, after
\* the session has become visible to broadcasts, or fails to, once and for all.
BindSocket ==
  /\ Running
  /\ ~ bound /\ ~ bindFailed
  /\ \/ bound' = TRUE /\ UNCHANGED bindFailed
     \/ bindFailed' = TRUE /\ UNCHANGED bound
  /\ UNCHANGED <<bufferVars, m_SendIoState, m_isClosing, sendLock, socket,
                 pendingSend, port, lostBytes, formerVars, pc, transferred,
                 resume, sendFailed, packets, wire>>

\* A worker dequeues this session's receive completion.  There is one at a
\* time: the next WSARecv is posted after the packets have been processed.
\* TryProcessPacket returns at once when not even a length header is there.
OnReceived(w) ==
  /\ pc[w] = "idle"
  /\ \A v \in Workers : resume[v] = "idle"
  /\ bound /\ socket = "open"
  /\ \E l \in {"echo", "recvasync"} :
       /\ resume' = [resume EXCEPT ![w] = l]
       /\ Goto(w, l)
  /\ UNCHANGED <<kernelVars, bufferVars, m_SendIoState, m_isClosing, sendLock,
                 transferred, sendFailed, packets>>

\* The receive completion reports a failure or the peer's end of stream:
\* CloseSession.
OnReceiveEnded(w) ==
  /\ pc[w] = "idle"
  /\ \A v \in Workers : resume[v] = "idle"
  /\ bound /\ socket # "closed"
  /\ Goto(w, "closesocket")
  /\ UNCHANGED <<kernelVars, bufferVars, m_SendIoState, m_isClosing, sendLock,
                 transferred, resume, sendFailed, packets>>

\* One turn of TryProcessPacket's loop on an echo packet; a full buffer makes
\* the session close itself.
ProcessEcho(w) ==
  /\ pc[w] = "echo"
  /\ LockFree
  /\ packets < MaxPackets
  /\ packets' = packets + 1
  /\ \E p \in Packets :
       \/ /\ Fits(p)
          /\ EnqueueSendBuffer(p)
          /\ UNCHANGED pc
       \/ /\ ~ Fits(p)
          /\ Goto(w, "closesocket")
          /\ UNCHANGED bufferVars
  /\ UNCHANGED <<kernelVars, m_SendIoState, m_isClosing, sendLock, transferred,
                 resume, sendFailed>>

\* A packet with an unknown checksum or flag closes the session; the loop
\* over the received packets goes on.
ProcessUnknown(w) ==
  /\ pc[w] = "echo"
  /\ Goto(w, "closesocket")
  /\ UNCHANGED <<kernelVars, bufferVars, m_SendIoState, m_isClosing, sendLock,
                 transferred, resume, sendFailed, packets>>

\* The loop ends and TryProcessPacket flushes.
EndOfPackets(w) ==
  /\ pc[w] = "echo"
  /\ resume' = [resume EXCEPT ![w] = "recvasync"]
  /\ Goto(w, "flush")
  /\ UNCHANGED <<kernelVars, bufferVars, m_SendIoState, m_isClosing, sendLock,
                 transferred, sendFailed, packets>>

\* A worker that processes a broadcast, of another session or of this one,
\* finds this session valid,
ProcessBroadcast(w) ==
  /\ pc[w] \in {"idle", "echo"}
  /\ LockFree
  /\ ~ m_isClosing
  /\ packets < MaxPackets
  /\ packets' = packets + 1
  /\ Goto(w, "write")
  /\ UNCHANGED <<kernelVars, bufferVars, m_SendIoState, m_isClosing, sendLock,
                 transferred, resume, sendFailed>>

\* and writes to it, whatever has happened to it since.  When the packet does
\* not fit, it is the broadcasting session that gets closed.
WriteBroadcast(w) ==
  /\ pc[w] = "write"
  /\ LockFree
  /\ \E p \in Packets :
       \/ /\ Fits(p)
          /\ EnqueueSendBuffer(p)
          /\ Goto(w, "flush")
       \/ /\ ~ Fits(p)
          /\ Goto(w, IF resume[w] = "echo" THEN "closesocket" ELSE "idle")
          /\ UNCHANGED bufferVars
  /\ UNCHANGED <<kernelVars, m_SendIoState, m_isClosing, sendLock, transferred,
                 resume, sendFailed, packets>>

-----------------------------------------------------------------------------
(* Flushing: FlushSendBuffer and, inside it, SendAsync.                    *)

\* Slip: SendAsync without its IO_PENDING test.
NothingToSend_IgnoringPending == m_pSendBuffer = << >>

NothingToSend == m_pSendBuffer = << >> \/ m_SendIoState = "IO_PENDING"

FlushSendBuffer(w) ==
  /\ pc[w] = "flush"
  /\ LockFree
  /\ \/ /\ NothingToSend
        /\ Goto(w, resume[w])
        /\ UNCHANGED <<m_SendIoState, sendLock>>
     \/ /\ ~ NothingToSend
        /\ m_SendIoState' = "IO_PENDING"
        /\ sendLock' = w
        /\ Goto(w, "send")
  /\ UNCHANGED <<kernelVars, bufferVars, m_isClosing, transferred, resume,
                 sendFailed, packets>>

\* ::WSASend of the whole buffer.  It fails on a socket that is no longer
\* open, and may fail on one that is; m_SendIoState stays IO_PENDING then.
WSASend(w) ==
  /\ pc[w] = "send"
  /\ \/ /\ socket = "open"
        /\ pendingSend' = Append(pendingSend,
                                 [len |-> Len(m_pSendBuffer), done |-> 0])
        /\ UNCHANGED sendFailed
     \/ /\ sendFailed' = TRUE
        /\ UNCHANGED pendingSend
  /\ sendLock' = NoWorker
  /\ Goto(w, resume[w])
  /\ UNCHANGED <<bufferVars, m_SendIoState, m_isClosing, socket, port, bindVars,
                 lostBytes, formerVars, transferred, resume, packets, wire>>

\* After OnReceived: a valid session posts its next WSARecv, another is closed.
RecvAsync(w) ==
  /\ pc[w] = "recvasync"
  /\ LockFree
  /\ resume' = [resume EXCEPT ![w] = "idle"]
  /\ Goto(w, IF m_isClosing THEN "closesocket" ELSE "idle")
  /\ UNCHANGED <<kernelVars, bufferVars, m_SendIoState, m_isClosing, sendLock,
                 transferred, sendFailed, packets>>

-----------------------------------------------------------------------------
(* Completions: the send branch of WorkerThread, OnSend, IsValid.          *)

\* CloseSession takes the client pointer off the overlapped, so a completion
\* that arrives after the socket was closed may find the session expired.
SendCompletion(w) ==
  /\ pc[w] = "idle"
  /\ port # << >>
  /\ port' = Tail(port)
  /\ \/ /\ Head(port).ok
        /\ m_SendIoState = "IO_PENDING"
        /\ transferred' = [transferred EXCEPT ![w] = Head(port).bytes]
        /\ Goto(w, "onsend")
     \/ /\ Head(port).ok
        /\ m_SendIoState # "IO_PENDING" \/ socket = "closed"
        /\ UNCHANGED <<transferred, pc>>
     \/ /\ ~ Head(port).ok
        /\ Goto(w, "closesocket")
        /\ UNCHANGED transferred
  /\ UNCHANGED <<bufferVars, m_SendIoState, m_isClosing, sendLock, socket,
                 pendingSend, bindVars, lostBytes, formerVars, resume, sendFailed,
                 packets, wire>>

\* A completion of the structure's former owner, for any number of bytes it can
\* have sent.  The session is taken from the structure, so it is this one that
\* gets the OnSend if it has a send pending, or is closed if the send failed.
FormerCompletion(w) ==
  /\ pc[w] = "idle"
  /\ former > 0
  /\ former' = former - 1
  /\ \/ /\ m_SendIoState = "IO_PENDING"
        /\ \E n \in 1 .. BUFFER_SIZE :
             transferred' = [transferred EXCEPT ![w] = n]
        /\ stale' = TRUE
        /\ Goto(w, "onsend")
     \/ /\ m_SendIoState # "IO_PENDING" \/ socket = "closed"
        /\ UNCHANGED <<stale, transferred, pc>>
     \/ /\ Goto(w, "closesocket")
        /\ UNCHANGED <<stale, transferred>>
  /\ UNCHANGED <<bufferVars, m_SendIoState, m_isClosing, sendLock, socket,
                 pendingSend, port, bindVars, lostBytes, resume, sendFailed,
                 packets, wire>>

\* Slip: the buffer is cleared although more was queued since WSASend.
ThrowAway_All(n) == n \in Nat /\ m_pSendBuffer' = << >>

\* Slip: one byte too few is thrown away.
ThrowAway_OneShort(n) ==
  m_pSendBuffer' = SubSeq(m_pSendBuffer, n, Len(m_pSendBuffer))

\* PulledBuffer::ThrowAway pulls the rest of the buffer to the front.
ThrowAway(n) == m_pSendBuffer' = SubSeq(m_pSendBuffer, n + 1, Len(m_pSendBuffer))

\* Slip: m_SendIoState is not reset.
OnSend_StillPending(w) ==
  /\ pc[w] = "onsend"
  /\ LockFree
  /\ transferred[w] <= Len(m_pSendBuffer)
  /\ ThrowAway(transferred[w])
  /\ transferred' = [transferred EXCEPT ![w] = 0]
  /\ Goto(w, "isvalid")
  /\ UNCHANGED <<kernelVars, m_SendIoState, m_isClosing, sendLock, resume,
                 sendFailed, packets, accepted>>

OnSend(w) ==
  /\ pc[w] = "onsend"
  /\ LockFree
  /\ transferred[w] <= Len(m_pSendBuffer)
  /\ ThrowAway(transferred[w])
  /\ m_SendIoState' = "IO_CONNECTED"
  /\ transferred' = [transferred EXCEPT ![w] = 0]
  /\ Goto(w, "isvalid")
  /\ UNCHANGED <<kernelVars, m_isClosing, sendLock, resume, sendFailed,
                 packets, accepted>>

\* ThrowAway of more than is buffered rethrows with no exception in flight, which
\* ends the process.
OnSendThrows(w) ==
  /\ pc[w] = "onsend"
  /\ LockFree
  /\ transferred[w] > Len(m_pSendBuffer)
  /\ pc' = [v \in Workers |-> "terminated"]
  /\ UNCHANGED <<kernelVars, bufferVars, m_SendIoState, m_isClosing, sendLock,
                 transferred, resume, sendFailed, packets>>

\* Slip: nothing is flushed after a send has completed.
AfterSend_NoFlush(w) ==
  /\ pc[w] = "isvalid"
  /\ LockFree
  /\ Goto(w, IF m_isClosing THEN "closesocket" ELSE "idle")
  /\ UNCHANGED <<kernelVars, bufferVars, m_SendIoState, m_isClosing, sendLock,
                 transferred, resume, sendFailed, packets>>

\* A valid session flushes what was queued meanwhile, another is closed.
AfterSend(w) ==
  /\ pc[w] = "isvalid"
  /\ LockFree
  /\ Goto(w, IF m_isClosing THEN "closesocket" ELSE "flush")
  /\ UNCHANGED <<kernelVars, bufferVars, m_SendIoState, m_isClosing, sendLock,
                 transferred, resume, sendFailed, packets>>

-----------------------------------------------------------------------------
(* Closing and the kernel.                                                 *)

\* Operations pending on a socket that goes away complete with an error.
Abort ==
  /\ pendingSend' = << >>
  /\ port' = IF bound
             THEN port \o [i \in DOMAIN pendingSend |-> [ok |-> FALSE, bytes |-> 0]]
             ELSE port

\* Slip: Close also clears the send buffer.
CloseSocket_Clear(w) ==
  /\ pc[w] = "closesocket"
  /\ socket' = "closed"
  /\ Abort
  /\ m_pSendBuffer' = << >>
  /\ Goto(w, "closing")
  /\ UNCHANGED <<accepted, m_SendIoState, m_isClosing, sendLock, bindVars,
                 lostBytes, formerVars, transferred, resume, sendFailed, packets,
                 wire>>

\* TcpClient::Close, without the lock: closesocket first,
CloseSocket(w) ==
  /\ pc[w] = "closesocket"
  /\ socket' = "closed"
  /\ Abort
  /\ Goto(w, "closing")
  /\ UNCHANGED <<bufferVars, m_SendIoState, m_isClosing, sendLock, bindVars,
                 lostBytes, formerVars, transferred, resume, sendFailed, packets,
                 wire>>

\* then the flag that IsValid looks at.
SetClosing(w) ==
  /\ pc[w] = "closing"
  /\ m_isClosing' = TRUE
  /\ Goto(w, resume[w])
  /\ UNCHANGED <<kernelVars, bufferVars, m_SendIoState, sendLock, transferred,
                 resume, sendFailed, packets>>

\* The peer resets the connection.
PeerReset ==
  /\ Running
  /\ socket = "open"
  /\ socket' = "reset"
  /\ Abort
  /\ UNCHANGED <<bufferVars, m_SendIoState, m_isClosing, sendLock, bindVars,
                 lostBytes, formerVars, pc, transferred, resume, sendFailed,
                 packets, wire>>

\* The kernel puts the next byte of a pending send on the wire, from the
\* buffer as it is now.
Transmit ==
  /\ Running
  /\ socket = "open"
  /\ \E i \in DOMAIN pendingSend :
       LET op == pendingSend[i] IN
       /\ op.done < op.len
       /\ wire' = IF stale THEN wire ELSE Append(wire, m_pSendBuffer[op.done + 1])
       /\ pendingSend' = [pendingSend EXCEPT
                             ![i] = [len |-> op.len, done |-> op.done + 1]]
  /\ UNCHANGED <<bufferVars, m_SendIoState, m_isClosing, sendLock, socket, port,
                 bindVars, lostBytes, formerVars, pc, transferred, resume,
                 sendFailed, packets>>

\* The oldest pending send completes, possibly short of what was asked for.
\* Nobody hears of it when the socket is not associated with the port.
Complete ==
  /\ Running
  /\ pendingSend # << >>
  /\ Head(pendingSend).done > 0
  /\ pendingSend' = Tail(pendingSend)
  /\ \/ /\ bound
        /\ port' = Append(port, [ok |-> TRUE, bytes |-> Head(pendingSend).done])
        /\ UNCHANGED lostBytes
     \/ /\ ~ bound
        /\ lostBytes' = lostBytes + Head(pendingSend).done
        /\ UNCHANGED port
  /\ UNCHANGED <<bufferVars, m_SendIoState, m_isClosing, sendLock, socket, bindVars,
                 formerVars, pc, transferred, resume, sendFailed, packets, wire>>

-----------------------------------------------------------------------------

\* What a worker does on its own once it is inside a handler.
Proceed(w) ==
  \/ EndOfPackets(w)
  \/ WriteBroadcast(w)
  \/ FlushSendBuffer(w)
  \/ WSASend(w)
  \/ OnSend(w)
  \/ OnSendThrows(w)
  \/ AfterSend(w)
  \/ RecvAsync(w)
  \/ CloseSocket(w)
  \/ SetClosing(w)

Next ==
  \/ \E w \in Workers :
       \/ OnReceived(w)
       \/ OnReceiveEnded(w)
       \/ ProcessEcho(w)
       \/ ProcessUnknown(w)
       \/ ProcessBroadcast(w)
       \/ SendCompletion(w)
       \/ FormerCompletion(w)
       \/ Proceed(w)
  \/ BindSocket
  \/ PeerReset
  \/ Transmit
  \/ Complete

Spec == Init /\ [][Next]_vars

\* Threads are scheduled, the port hands out what it queues, the kernel makes
\* progress on what it accepted.
FairSpec ==
  /\ Spec
  /\ \A w \in Workers : WF_vars(Proceed(w))
  /\ WF_vars(BindSocket)
  /\ WF_vars(\E w \in Workers : SendCompletion(w))
  /\ WF_vars(Transmit)
  /\ WF_vars(Complete)

-----------------------------------------------------------------------------
(* Properties.                                                             *)

BufferType ==
  /\ m_pSendBuffer \in Seq(Byte)
  /\ Len(m_pSendBuffer) <= BUFFER_SIZE
  /\ accepted \in Seq(Byte)
  /\ wire \in Seq(Byte)

KernelType ==
  /\ socket \in {"open", "reset", "closed"}
  /\ pendingSend \in Seq(Op)
  /\ port \in Seq(Completion)
  /\ bound \in BOOLEAN /\ bindFailed \in BOOLEAN
  /\ lostBytes \in Nat
  /\ former \in 0 .. MaxFormer /\ stale \in BOOLEAN

ThreadType ==
  /\ m_SendIoState \in IO_STATE
  /\ m_isClosing \in BOOLEAN
  /\ sendLock \in Workers \cup {NoWorker}
  /\ pc \in [Workers -> Labels]
  /\ transferred \in [Workers -> Nat]
  /\ resume \in [Workers -> Resumes]
  /\ sendFailed \in BOOLEAN
  /\ packets \in 0 .. MaxPackets

\* Types, and the capacity that PulledBuffer::Write keeps.
TypeOK == BufferType /\ KernelType /\ ThreadType

\* A send that is on its way: being posted, held by the kernel, queued at the
\* port, or picked up by a worker that has not yet run OnSend.
Posting(w) == pc[w] \in {"send", "onsend"}

\* At most one WSASend of a session is on its way, across all workers: the
\* buffer's memory is handed to the kernel once (SendAsync's IO_PENDING test,
\* TcpClient.cpp:88, against completions handled by other threads), until a
\* former owner's completion resets m_SendIoState under it.
OneOnItsWay ==
  /\ Len(pendingSend) + Len(port) <= 1
  /\ \A w \in Workers : Posting(w) => pendingSend = << >> /\ port = << >>
  /\ \A v, w \in Workers : Posting(v) /\ Posting(w) => v = w

OneSendInFlight == ~ stale => OneOnItsWay

\* The peer reads the accepted bytes, in order, none lost, none twice, packets
\* never interleaved: Write, ThrowAway and the kernel's reads of m_Buffer
\* never get in each other's way, until a former owner's completion throws away
\* bytes that were not sent.
WireIsPrefixOfAccepted ==
  /\ Len(wire) <= Len(accepted)
  /\ \A i \in 1 .. Len(wire) : wire[i] = accepted[i]

\* PulledBuffer::ThrowAway throws, with nothing to catch it (Buffer.h:97), only if
\* a completion of the structure's former owner has been taken for one of this
\* session (network.cpp:64 gives the structure back with the send pending, 176
\* asks only whether the session has a send pending too); the session's own
\* completions, in whatever order the workers handle them, never do it.
ThrowAwayInBounds ==
  ~ stale => /\ Running
             /\ \A w \in Workers :
                  pc[w] = "onsend" => transferred[w] <= Len(m_pSendBuffer)

\* What wedges a session: a WSASend that failed, or one that completed on a
\* socket that was not bound.  m_SendIoState stays IO_PENDING with nothing in flight.
Wedged == sendFailed \/ lostBytes > 0

\* A worker that is going to flush the buffer or to close the socket.
WillFlush(w) ==
  \/ pc[w] \in {"flush", "send", "onsend", "isvalid", "closesocket"}
  \/ resume[w] = "echo"

\* Bytes do not get stranded: on an open session they are in flight or some
\* worker is on its way to FlushSendBuffer.  Only a failed WSASend
\* (TcpClient.cpp:112), a completion that nobody heard of (network.cpp:273 adds
\* the session before line 274 binds it, or fails to) or one that was not the
\* session's breaks this.
NoStrandedBytes ==
  m_pSendBuffer # << >> /\ socket = "open" /\ ~ Wedged /\ ~ stale
    => \/ pendingSend # << >> \/ port # << >>
       \/ \E w \in Workers : WillFlush(w)

\* Every byte that was accepted reaches the wire while the session stays open,
\* is not wedged and gets its own completions only (FlushSendBuffer,
\* WorkerThread's flush after OnSend).
AcceptedBytesAreSent ==
  (Len(wire) < Len(accepted))
    ~> (Len(wire) = Len(accepted) \/ socket # "open" \/ Wedged \/ stale)

\* TcpClient.h:26 says of FlushSendBuffer that it sends the contents of the
\* send buffer.  Read over time: on a session that stays open, whose socket gets
\* bound, whose WSASends succeed and which gets its own completions only, every
\* accepted byte is eventually sent.
FlushSendsTheBuffer ==
  (Len(wire) < Len(accepted))
    ~> \/ Len(wire) = Len(accepted)
       \/ socket # "open" \/ bindFailed \/ sendFailed \/ stale

\* Bytes at the front of m_pSendBuffer that the kernel has already sent.
AlreadySent ==
  IF pendingSend # << >> THEN Head(pendingSend).done
  ELSE IF port # << >> THEN Head(port).bytes
  ELSE IF \E w \in Workers : pc[w] = "onsend"
       THEN transferred[CHOOSE w \in Workers : pc[w] = "onsend"]
       ELSE lostBytes

\* The send path implements the byte stream that SendStream promises, as long as
\* the connection is open and no former owner's completion was applied to it.
Stream == INSTANCE SendStream WITH
  queue <- IF socket = "open" /\ ~ stale
           THEN SubSeq(m_pSendBuffer, AlreadySent + 1, Len(m_pSendBuffer))
           ELSE << >>,
  wire  <- wire,
  up    <- (socket = "open" /\ ~ stale)

ImplementsSendStream == Stream!StreamSpec
=============================================================================
