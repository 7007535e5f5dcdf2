------------------------------ MODULE RecvPath ------------------------------
(***************************************************************************)
(* The receive side of one TcpClient (socket/TcpClient.cpp): WSARecv into  *)
(* the free end of m_pRecvBuffer, the worker that handles its completion   *)
(* (network.cpp), the framing of the byte stream into packets and what     *)
(* ProcessPacket does with each.  The peer's stream is any of Streams, the *)
(* kernel delivers it in any chunks; the send buffers that echoes and      *)
(* broadcasts go to (module SendPath) are full or not, as they like; some  *)
(* other worker may close the session at any time.                         *)
(***************************************************************************)
EXTENDS Integers, Sequences

CONSTANTS
  Streams,       \* the byte sequences a peer may send
  BUFFER_SIZE    \* capacity of a PulledBuffer

ASSUME StreamsAssumption == Streams \subseteq Seq(0 .. 255)
ASSUME BufferAssumption  == BUFFER_SIZE \in Nat

VARIABLES
  m_pRecvBuffer, \* the buffered bytes: m_Buffer[0 .. m_Length)
  m_RecvBytes,
  m_RecvIoState,
  m_isClosing,
  socket,        \* "open" or "closed"
  pc,            \* where the session's receive is
  posted,        \* wsaBuf.len of the pending WSARecv
  packet,        \* the packet TryProcessPacket has read
  stream,        \* what the peer has still to send
  eof,           \* the peer has shut down its side
  tornDown,      \* CloseSession has run
  recvFailed,    \* a WSARecv failed outright
  received,      \* history: every byte reported to OnReceived
  processed,     \* history: the packets given to ProcessPacket
  echoed,        \* history: the packets written to the own send buffer
  broadcast      \* history: the packets written to other sessions

vars == <<m_pRecvBuffer, m_RecvBytes, m_RecvIoState, m_isClosing, socket, pc,
          posted, packet, stream, eof, tornDown, recvFailed, received,
          processed, echoed, broadcast>>

peerVars    == <<stream, eof>>
sessionVars == <<m_isClosing, socket, tornDown>>
bufferVars  == <<m_pRecvBuffer, m_RecvBytes, received>>
packetVars  == <<packet, processed, echoed, broadcast>>

-----------------------------------------------------------------------------
(* Packet.h: a little-endian 16-bit size, a flag and a checksum.           *)

packet_length_header == 2
packet_header_size   == 4

\* Slip: the size is read in network byte order.
dataSize_BigEndian(s) == 256 * s[1] + s[2]

dataSize_(s) == s[1] + 256 * s[2]
flag_(s)     == s[3]
checkSum_(s) == s[4]

CHECKSUM  == 85
ECHO      == 1
BROADCAST == 2

Labels == {"recvasync", "pending", "loop", "packet", "next", "isvalid", "end"}

Init ==
  /\ m_pRecvBuffer = << >>
  /\ m_RecvBytes = 0
  /\ m_RecvIoState = "IO_CONNECTED"
  /\ m_isClosing = FALSE
  /\ socket = "open"
  /\ pc = "recvasync"
  /\ posted = 0
  /\ packet = << >>
  /\ stream \in Streams
  /\ eof = FALSE
  /\ tornDown = FALSE
  /\ recvFailed = FALSE
  /\ received = << >>
  /\ processed = << >>
  /\ echoed = << >>
  /\ broadcast = << >>

-----------------------------------------------------------------------------
(* The kernel and everybody else.                                          *)

\* The peer sends no more, or resets the connection, which throws away what
\* has not been delivered.
PeerShutdown ==
  /\ ~ eof
  /\ eof' = TRUE
  /\ stream' \in {stream, << >>}
  /\ UNCHANGED <<bufferVars, packetVars, sessionVars, m_RecvIoState, pc, posted,
                 recvFailed>>

\* CloseSession by a worker that handles a send completion of this session.
ClosedElsewhere ==
  /\ ~ tornDown
  /\ socket' = "closed"
  /\ m_isClosing' = TRUE
  /\ tornDown' = TRUE
  /\ UNCHANGED <<bufferVars, packetVars, peerVars, m_RecvIoState, pc, posted,
                 recvFailed>>

-----------------------------------------------------------------------------
(* Posting and completing a receive.                                       *)

\* ::WSARecv for the free end of the buffer.  A failure is only logged.
RecvAsync ==
  /\ pc = "recvasync"
  /\ m_RecvIoState' = "IO_PENDING"
  /\ \/ /\ socket = "open"
        /\ posted' = BUFFER_SIZE - Len(m_pRecvBuffer)
        /\ pc' = "pending"
        /\ UNCHANGED recvFailed
     \/ /\ recvFailed' = TRUE
        /\ pc' = "end"
        /\ UNCHANGED posted
  /\ UNCHANGED <<bufferVars, packetVars, sessionVars, peerVars>>

\* CloseSession: the session leaves m_clients, its overlapped structures go
\* back to their pools, its socket is closed.
CloseSession ==
  /\ tornDown' = TRUE
  /\ socket' = "closed"
  /\ m_isClosing' = TRUE
  /\ pc' = "end"

\* A completion with bytes: OnReceived up to TryProcessPacket's first test.
OnReceived ==
  /\ pc = "pending"
  /\ ~ tornDown
  /\ \E n \in 1 .. posted :
       /\ n <= Len(stream)
       /\ m_pRecvBuffer' = m_pRecvBuffer \o SubSeq(stream, 1, n)
       /\ received' = received \o SubSeq(stream, 1, n)
       /\ stream' = SubSeq(stream, n + 1, Len(stream))
       /\ m_RecvBytes' = m_RecvBytes + n
       /\ pc' = IF Len(m_pRecvBuffer) + n < packet_length_header
                THEN "isvalid" ELSE "loop"
  /\ m_RecvIoState' = "IO_CONNECTED"
  /\ UNCHANGED <<packetVars, sessionVars, posted, eof, recvFailed>>

\* A completion that failed or has no bytes: the peer has gone, or the buffer
\* was full and the WSARecv asked for nothing.
EmptyCompletion ==
  /\ pc = "pending"
  /\ ~ tornDown
  /\ posted = 0 \/ (eof /\ stream = << >>)
  /\ CloseSession
  /\ UNCHANGED <<bufferVars, packetVars, peerVars, m_RecvIoState, posted, recvFailed>>

\* A completion that finds its session expired is dropped.  (A failed one ends the
\* process instead: see ExpiredIsRecognised in module IocpServer.)
ExpiredCompletion ==
  /\ pc = "pending"
  /\ tornDown
  /\ pc' = "end"
  /\ UNCHANGED <<bufferVars, packetVars, sessionVars, peerVars, m_RecvIoState,
                 posted, recvFailed>>

-----------------------------------------------------------------------------
(* TryProcessPacket and ProcessPacket.                                     *)

HasPacket(s) ==
  dataSize_(s) > 0 /\ Len(s) >= dataSize_(s) + packet_header_size

\* Slip: m_RecvBytes is not brought down.
ReadPacket_KeepRecvBytes ==
  /\ pc = "loop"
  /\ HasPacket(m_pRecvBuffer)
  /\ LET n == dataSize_(m_pRecvBuffer) + packet_header_size IN
     /\ packet' = SubSeq(m_pRecvBuffer, 1, n)
     /\ m_pRecvBuffer' = SubSeq(m_pRecvBuffer, n + 1, Len(m_pRecvBuffer))
  /\ pc' = "packet"
  /\ UNCHANGED <<sessionVars, peerVars, m_RecvIoState, posted, recvFailed,
                 m_RecvBytes, received, processed, echoed, broadcast>>

\* One turn of the loop: PulledBuffer::Read takes the packet out.
ReadPacket ==
  /\ pc = "loop"
  /\ HasPacket(m_pRecvBuffer)
  /\ LET n == dataSize_(m_pRecvBuffer) + packet_header_size IN
     /\ packet' = SubSeq(m_pRecvBuffer, 1, n)
     /\ m_pRecvBuffer' = SubSeq(m_pRecvBuffer, n + 1, Len(m_pRecvBuffer))
     /\ m_RecvBytes' = m_RecvBytes - n
  /\ pc' = "packet"
  /\ UNCHANGED <<sessionVars, peerVars, m_RecvIoState, posted, recvFailed,
                 received, processed, echoed, broadcast>>

\* The loop condition fails; the send buffer is flushed.
NoMorePackets ==
  /\ pc = "loop"
  /\ ~ HasPacket(m_pRecvBuffer)
  /\ pc' = "isvalid"
  /\ UNCHANGED <<bufferVars, packetVars, sessionVars, peerVars, m_RecvIoState,
                 posted, recvFailed>>

\* Close(true), or not.  Nothing returns early: CloseSession is left to the
\* worker, after the rest of the buffer has been processed.
CloseIf(b) ==
  /\ socket' = IF b THEN "closed" ELSE socket
  /\ m_isClosing' = (m_isClosing \/ b)
  /\ UNCHANGED tornDown

Unverified == checkSum_(packet) # CHECKSUM

\* ProcessPacket: a wrong checksum closes the session and goes on; then the
\* flag decides.  A send buffer that is full closes the session too, be it
\* the session's own or that of a receiver of its broadcast.
ProcessPacket ==
  /\ pc = "packet"
  /\ pc' = "next"
  /\ processed' = Append(processed, packet)
  /\ \E full \in BOOLEAN :
       \/ /\ flag_(packet) = ECHO
          /\ echoed' = IF full THEN echoed ELSE Append(echoed, packet)
          /\ CloseIf(Unverified \/ full)
          /\ UNCHANGED broadcast
       \/ /\ flag_(packet) = BROADCAST
          /\ \E reached \in BOOLEAN :
               broadcast' = IF reached THEN Append(broadcast, packet) ELSE broadcast
          /\ CloseIf(Unverified \/ full)
          /\ UNCHANGED echoed
       \/ /\ flag_(packet) \notin {ECHO, BROADCAST}
          /\ CloseIf(TRUE)
          /\ UNCHANGED <<echoed, broadcast>>
  /\ UNCHANGED <<bufferVars, peerVars, m_RecvIoState, posted, packet, recvFailed>>

\* Slip: one packet a receive.
NextPacket_Once ==
  /\ pc = "next"
  /\ pc' = "isvalid"
  /\ packet' = << >>
  /\ UNCHANGED <<bufferVars, sessionVars, peerVars, m_RecvIoState, posted,
                 recvFailed, processed, echoed, broadcast>>

\* Back to the loop condition if more than a length header is left.
NextPacket ==
  /\ pc = "next"
  /\ pc' = IF Len(m_pRecvBuffer) > packet_length_header THEN "loop" ELSE "isvalid"
  /\ packet' = << >>
  /\ UNCHANGED <<bufferVars, sessionVars, peerVars, m_RecvIoState, posted,
                 recvFailed, processed, echoed, broadcast>>

\* Slip: an invalid session is dropped, not closed.
AfterReceive_NoClose ==
  /\ pc = "isvalid"
  /\ pc' = IF m_isClosing THEN "end" ELSE "recvasync"
  /\ UNCHANGED <<bufferVars, packetVars, sessionVars, peerVars, m_RecvIoState,
                 posted, recvFailed>>

\* The worker after OnReceived.
AfterReceive ==
  /\ pc = "isvalid"
  /\ \/ /\ m_isClosing
        /\ CloseSession
     \/ /\ ~ m_isClosing
        /\ pc' = "recvasync"
        /\ UNCHANGED sessionVars
  /\ UNCHANGED <<bufferVars, packetVars, peerVars, m_RecvIoState, posted, recvFailed>>

-----------------------------------------------------------------------------

\* What a worker does on its own, and what the kernel owes it.
Proceed ==
  \/ RecvAsync
  \/ OnReceived
  \/ EmptyCompletion
  \/ ExpiredCompletion
  \/ ReadPacket
  \/ NoMorePackets
  \/ ProcessPacket
  \/ NextPacket
  \/ AfterReceive

Next == PeerShutdown \/ ClosedElsewhere \/ Proceed

Spec == Init /\ [][Next]_vars

\* Workers are scheduled; bytes and ends of streams are delivered.
FairSpec == Spec /\ WF_vars(Proceed)

-----------------------------------------------------------------------------
(* Properties.                                                             *)

\* Types, the bound of m_Buffer that WSARecv must keep, and that TcpClient's own
\* byte count agrees with the buffer's (the memo at Buffer.h:66 wonders how they
\* could differ).
TypeOK ==
  /\ m_pRecvBuffer \in Seq(0 .. 255)
  /\ Len(m_pRecvBuffer) <= BUFFER_SIZE
  /\ m_RecvBytes = Len(m_pRecvBuffer)
  /\ m_RecvIoState \in {"IO_CONNECTED", "IO_PENDING"}
  /\ {m_isClosing, eof, tornDown, recvFailed} \subseteq BOOLEAN
  /\ socket \in {"open", "closed"}
  /\ pc \in Labels
  /\ posted \in 0 .. BUFFER_SIZE
  /\ {packet, stream, received} \subseteq Seq(0 .. 255)
  /\ {processed, echoed, broadcast} \subseteq Seq(Seq(0 .. 255))

\* The reference framing of a whole byte sequence: packets back to back, up to
\* the first header that is incomplete or claims no data.
Frames(s) ==
  LET Rest(i) == SubSeq(s, i, Len(s))
      f[i \in 1 .. Len(s) + 1] ==
        IF Len(Rest(i)) >= packet_length_header /\ HasPacket(Rest(i))
        THEN LET n == dataSize_(Rest(i)) + packet_header_size
             IN  <<SubSeq(s, i, i + n - 1)>> \o f[i + n]
        ELSE << >>
  IN f[1]

\* Framing does not depend on how the stream was cut into receives: whenever a
\* new WSARecv is pending, the packets processed so far are exactly the frames
\* of all bytes received so far (OnReceived, TryProcessPacket, Read).
FramingIgnoresChunks == pc = "pending" => processed = Frames(received)

\* The receive buffer never runs full of a packet that is still arriving, nor
\* of packets nobody took out: a WSARecv for no bytes (TcpClient.cpp:159) is
\* posted only behind a header that claims no data, which can never be taken.
FullOnlyBehindEmptyHeader ==
  pc = "pending" /\ posted = 0 => dataSize_(m_pRecvBuffer) = 0

\* A session that closes itself in ProcessPacket, or whose peer goes away, is
\* torn down by a worker, unless a WSARecv fails, which is only logged
\* (network.cpp:164 and 280) and leaves the session in m_clients.
ClosedIsTornDown == m_isClosing \/ eof ~> tornDown \/ recvFailed

\* TcpClient.cpp:265 "Verify CheckSum": what a session sends on to others has
\* the checksum.
BroadcastsAreVerified ==
  \A i \in DOMAIN broadcast : checkSum_(broadcast[i]) = CHECKSUM
=============================================================================
