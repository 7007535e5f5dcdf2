--------------------------- MODULE RecvPathProofs ---------------------------
(* Proofs about RecvPath, for every set of byte streams.                   *)
EXTENDS RecvPath, SequenceTheorems, TLAPS

-----------------------------------------------------------------------------
(* The inductive invariant.                                                *)

Bytes == 0 .. 255

\* The most data a 16-bit length can announce.
MaxData == 65535

\* A header is read only where there is one, a packet is taken apart only where
\* one was read, and a pending WSARecv asked for the whole of the free end.
StageInv ==
  /\ pc = "loop" => Len(m_pRecvBuffer) >= packet_length_header
  /\ pc \in {"packet", "next"} => Len(packet) > packet_header_size
  /\ pc = "pending" => posted = BUFFER_SIZE - Len(m_pRecvBuffer)

\* The loop ends only when no packet is left: whatever is longer than a length
\* header has been looked at.
DrainedInv ==
  pc \in {"isvalid", "recvasync", "pending"} =>
    Len(m_pRecvBuffer) <= packet_length_header \/ ~ HasPacket(m_pRecvBuffer)

RecvInv == TypeOK /\ StageInv /\ DrainedInv

-----------------------------------------------------------------------------
(* Facts about byte sequences.                                             *)

\* A length header is a 16-bit number.
LEMMA SizeIs ==
  ASSUME NEW s \in Seq(Bytes), Len(s) >= packet_length_header
  PROVE  dataSize_(s) \in 0 .. MaxData
<1>1. Len(s) \in Nat /\ Len(s) >= 2
  BY DEF packet_length_header
<1>2. 1 \in 1 .. Len(s) /\ 2 \in 1 .. Len(s)
  BY <1>1
<1>3. s[1] \in Bytes /\ s[2] \in Bytes
  BY <1>2
<1>4. ASSUME NEW a \in Bytes, NEW b \in Bytes PROVE a + 256 * b \in 0 .. MaxData
  <2>1. a \in Int /\ 0 <= a /\ a <= 255 /\ b \in Int /\ 0 <= b /\ b <= 255
    BY DEF Bytes
  <2>2. MaxData \in Int /\ a + 256 * b \in Int /\ 0 <= a + 256 * b /\ a + 256 * b <= MaxData
    BY <2>1 DEF MaxData
  <2>. QED
    BY <2>2
<1>5. s[1] + 256 * s[2] \in 0 .. MaxData
  BY <1>3, <1>4, Zenon
<1>. QED
  BY <1>5, Zenon DEF dataSize_

\* Cutting a sequence in two.
LEMMA CutIs ==
  ASSUME NEW s \in Seq(Bytes), NEW n \in 0 .. Len(s)
  PROVE  /\ SubSeq(s, 1, n) \in Seq(Bytes) /\ Len(SubSeq(s, 1, n)) = n
         /\ SubSeq(s, n + 1, Len(s)) \in Seq(Bytes) /\ Len(SubSeq(s, n + 1, Len(s))) = Len(s) - n
<1>1. Len(s) \in Nat /\ n \in Nat
  OBVIOUS
<1>2. \A i \in 1 .. n : s[i] \in Bytes
  BY <1>1
<1>3. \A i \in n + 1 .. Len(s) : s[i] \in Bytes
  BY <1>1
<1>4. SubSeq(s, 1, n) \in Seq(Bytes)
  BY <1>1, <1>2, SubSeqProperties
<1>5. SubSeq(s, n + 1, Len(s)) \in Seq(Bytes)
  BY <1>1, <1>3, SubSeqProperties
<1>6. Len(SubSeq(s, 1, n)) = n
  BY <1>1, SubSeqProperties
<1>7. Len(SubSeq(s, n + 1, Len(s))) = Len(s) - n
  BY <1>1, SubSeqProperties
<1>. QED
  BY <1>4, <1>5, <1>6, <1>7

\* What ReadPacket finds at the front of the buffer.
LEMMA PacketIs ==
  ASSUME NEW s \in Seq(Bytes), Len(s) >= packet_length_header, HasPacket(s)
  PROVE  dataSize_(s) + packet_header_size \in 0 .. Len(s) /\ dataSize_(s) + packet_header_size > packet_header_size
<1>1. Len(s) \in Nat
  OBVIOUS
<1>2. dataSize_(s) \in 0 .. MaxData
  BY SizeIs, Zenon
<1>3. dataSize_(s) > 0 /\ Len(s) >= dataSize_(s) + packet_header_size
  BY Zenon DEF HasPacket
<1>4. PICK d : d = dataSize_(s)
  BY Zenon
<1>5. d \in 0 .. MaxData /\ d > 0 /\ Len(s) >= d + packet_header_size
  BY <1>2, <1>3, <1>4, Zenon
<1>6. d + packet_header_size \in 0 .. Len(s) /\ d + packet_header_size > packet_header_size
  BY <1>1, <1>5, SMTT(30) DEF packet_header_size, MaxData
<1>. QED
  BY <1>4, <1>6, Zenon

\* The flags are Booleans, one by one.
LEMMA TypeParts ==
  TypeOK <=>
    /\ m_pRecvBuffer \in Seq(Bytes) /\ Len(m_pRecvBuffer) <= BUFFER_SIZE /\ m_RecvBytes = Len(m_pRecvBuffer)
    /\ m_RecvIoState \in {"IO_CONNECTED", "IO_PENDING"} /\ socket \in {"open", "closed"} /\ pc \in Labels
    /\ posted \in 0 .. BUFFER_SIZE
    /\ m_isClosing \in BOOLEAN /\ eof \in BOOLEAN /\ tornDown \in BOOLEAN /\ recvFailed \in BOOLEAN
    /\ packet \in Seq(Bytes) /\ stream \in Seq(Bytes) /\ received \in Seq(Bytes)
    /\ processed \in Seq(Seq(Bytes)) /\ echoed \in Seq(Seq(Bytes)) /\ broadcast \in Seq(Seq(Bytes))
<1>1. {m_isClosing, eof, tornDown, recvFailed} \subseteq BOOLEAN <=>
        m_isClosing \in BOOLEAN /\ eof \in BOOLEAN /\ tornDown \in BOOLEAN /\ recvFailed \in BOOLEAN
  BY Zenon
<1>. QED
  BY <1>1 DEF TypeOK, Bytes

-----------------------------------------------------------------------------
(* The steps.                                                              *)

\* Steps that leave the buffer, the streams and the packets alone.
LEMMA QuietRecv ==
  ASSUME RecvInv, UNCHANGED <<bufferVars, packet>>,
         processed' \in Seq(Seq(Bytes)), echoed' \in Seq(Seq(Bytes)), broadcast' \in Seq(Seq(Bytes)),
         stream' \in {stream, << >>}, posted' \in 0 .. BUFFER_SIZE,
         m_RecvIoState' \in {"IO_CONNECTED", "IO_PENDING"}, socket' \in {"open", "closed"}, pc' \in Labels,
         m_isClosing' \in BOOLEAN, eof' \in BOOLEAN, tornDown' \in BOOLEAN, recvFailed' \in BOOLEAN,
         pc' = "loop" => pc = "loop",
         pc' \in {"packet", "next"} => pc \in {"packet", "next"},
         pc' = "pending" => posted' = BUFFER_SIZE - Len(m_pRecvBuffer),
         pc' \in {"isvalid", "recvasync", "pending"} =>
           Len(m_pRecvBuffer) <= packet_length_header \/ ~ HasPacket(m_pRecvBuffer)
  PROVE  RecvInv'
<1>1. m_pRecvBuffer' = m_pRecvBuffer /\ m_RecvBytes' = m_RecvBytes /\ received' = received /\ packet' = packet
  BY DEF bufferVars
<1>2. stream' \in Seq(Bytes)
  <2>1. stream \in Seq(Bytes) /\ << >> \in Seq(Bytes)
    BY TypeParts DEF RecvInv
  <2>. QED
    BY <2>1
<1>3. TypeOK'
  <2>1. /\ m_pRecvBuffer \in Seq(Bytes) /\ Len(m_pRecvBuffer) <= BUFFER_SIZE /\ m_RecvBytes = Len(m_pRecvBuffer)
        /\ packet \in Seq(Bytes) /\ received \in Seq(Bytes)
    BY TypeParts DEF RecvInv
  <2>2. /\ m_pRecvBuffer' \in Seq(Bytes) /\ Len(m_pRecvBuffer') <= BUFFER_SIZE /\ m_RecvBytes' = Len(m_pRecvBuffer')
        /\ packet' \in Seq(Bytes) /\ received' \in Seq(Bytes)
    BY <1>1, <2>1
  <2>3. {m_isClosing', eof', tornDown', recvFailed'} \subseteq BOOLEAN
    BY Zenon
  <2>. QED
    BY <1>2, <2>2, <2>3 DEF TypeOK, Bytes
<1>4. StageInv'
  BY <1>1 DEF RecvInv, StageInv
<1>5. DrainedInv'
  <2>1. HasPacket(m_pRecvBuffer)' <=> HasPacket(m_pRecvBuffer)
    BY <1>1 DEF HasPacket, dataSize_
  <2>. QED
    BY <1>1, <2>1 DEF DrainedInv
<1>. QED
  BY <1>3, <1>4, <1>5 DEF RecvInv

\* The peer and the other workers, posting a receive, and the ends of one.
LEMMA OtherSteps ==
  ASSUME RecvInv, PeerShutdown \/ ClosedElsewhere \/ RecvAsync \/ EmptyCompletion \/ ExpiredCompletion
                    \/ NoMorePackets \/ AfterReceive
  PROVE  RecvInv'
<1>0. /\ processed \in Seq(Seq(Bytes)) /\ echoed \in Seq(Seq(Bytes)) /\ broadcast \in Seq(Seq(Bytes))
      /\ m_RecvIoState \in {"IO_CONNECTED", "IO_PENDING"} /\ socket \in {"open", "closed"} /\ pc \in Labels
      /\ posted \in 0 .. BUFFER_SIZE
      /\ m_isClosing \in BOOLEAN /\ eof \in BOOLEAN /\ tornDown \in BOOLEAN /\ recvFailed \in BOOLEAN
      /\ TRUE \in BOOLEAN
      /\ {"pending", "end", "isvalid", "recvasync"} \subseteq Labels
  BY TypeParts DEF RecvInv, Labels
<1>1. Len(m_pRecvBuffer) \in 0 .. BUFFER_SIZE /\ BUFFER_SIZE - Len(m_pRecvBuffer) \in 0 .. BUFFER_SIZE
  <2>1. Len(m_pRecvBuffer) \in Nat /\ Len(m_pRecvBuffer) <= BUFFER_SIZE
    BY TypeParts DEF RecvInv
  <2>. QED
    BY <2>1, BufferAssumption
<1>2. StageInv /\ DrainedInv
  BY DEF RecvInv
<1>3. CASE PeerShutdown
  <2>1. /\ UNCHANGED <<bufferVars, packet, processed, echoed, broadcast, m_isClosing, socket, tornDown,
                       m_RecvIoState, pc, posted, recvFailed>>
        /\ eof' = TRUE /\ stream' \in {stream, << >>}
    BY <1>3 DEF PeerShutdown, packetVars, sessionVars
  <2>. QED
    BY <1>0, <1>2, <2>1, QuietRecv DEF StageInv, DrainedInv
<1>4. CASE ClosedElsewhere
  <2>1. /\ UNCHANGED <<bufferVars, packet, processed, echoed, broadcast, eof, stream, m_RecvIoState, pc, posted,
                       recvFailed>>
        /\ socket' = "closed" /\ m_isClosing' = TRUE /\ tornDown' = TRUE
    BY <1>4 DEF ClosedElsewhere, packetVars, peerVars
  <2>. QED
    BY <1>0, <1>2, <2>1, QuietRecv DEF StageInv, DrainedInv
<1>5. CASE RecvAsync
  <2>1. /\ UNCHANGED <<bufferVars, packet, processed, echoed, broadcast, m_isClosing, socket, tornDown, eof, stream>>
        /\ pc = "recvasync" /\ m_RecvIoState' = "IO_PENDING"
        /\ \/ posted' = BUFFER_SIZE - Len(m_pRecvBuffer) /\ pc' = "pending" /\ recvFailed' = recvFailed
           \/ recvFailed' = TRUE /\ pc' = "end" /\ posted' = posted
    BY <1>5 DEF RecvAsync, packetVars, peerVars, sessionVars
  <2>2. posted' \in 0 .. BUFFER_SIZE /\ recvFailed' \in BOOLEAN /\ pc' \in {"pending", "end"}
        /\ (pc' = "pending" => posted' = BUFFER_SIZE - Len(m_pRecvBuffer))
    BY <1>0, <1>1, <2>1
  <2>. QED
    BY <1>0, <1>2, <2>1, <2>2, QuietRecv DEF DrainedInv
<1>6. CASE EmptyCompletion
  <2>1. /\ UNCHANGED <<bufferVars, packet, processed, echoed, broadcast, eof, stream, m_RecvIoState, posted, recvFailed>>
        /\ pc' = "end" /\ socket' = "closed" /\ m_isClosing' = TRUE /\ tornDown' = TRUE
    BY <1>6 DEF EmptyCompletion, CloseSession, packetVars, peerVars
  <2>. QED
    BY <1>0, <2>1, QuietRecv
<1>7. CASE ExpiredCompletion
  <2>1. /\ UNCHANGED <<bufferVars, packet, processed, echoed, broadcast, m_isClosing, socket, tornDown, eof, stream,
                       m_RecvIoState, posted, recvFailed>>
        /\ pc' = "end"
    BY <1>7 DEF ExpiredCompletion, packetVars, peerVars, sessionVars
  <2>. QED
    BY <1>0, <2>1, QuietRecv
<1>8. CASE NoMorePackets
  <2>1. /\ UNCHANGED <<bufferVars, packet, processed, echoed, broadcast, m_isClosing, socket, tornDown, eof, stream,
                       m_RecvIoState, posted, recvFailed>>
        /\ pc' = "isvalid" /\ ~ HasPacket(m_pRecvBuffer)
    BY <1>8 DEF NoMorePackets, packetVars, peerVars, sessionVars
  <2>. QED
    BY <1>0, <2>1, QuietRecv
<1>9. CASE AfterReceive
  <2>1. /\ UNCHANGED <<bufferVars, packet, processed, echoed, broadcast, eof, stream, m_RecvIoState, posted, recvFailed>>
        /\ pc = "isvalid" /\ pc' \in {"end", "recvasync"}
        /\ \/ socket' = "closed" /\ m_isClosing' = TRUE /\ tornDown' = TRUE
           \/ UNCHANGED <<socket, m_isClosing, tornDown>>
    BY <1>9 DEF AfterReceive, CloseSession, packetVars, peerVars, sessionVars
  <2>2. socket' \in {"open", "closed"} /\ m_isClosing' \in BOOLEAN /\ tornDown' \in BOOLEAN
    BY <1>0, <2>1, Zenon
  <2>. QED
    BY <1>0, <1>2, <2>1, <2>2, QuietRecv DEF DrainedInv
<1>. QED
  BY <1>3, <1>4, <1>5, <1>6, <1>7, <1>8, <1>9

\* Bytes arrive at the end of the buffer.
LEMMA ReceiveStep ==
  ASSUME RecvInv, OnReceived
  PROVE  RecvInv'
<1>1. /\ m_pRecvBuffer \in Seq(Bytes) /\ Len(m_pRecvBuffer) <= BUFFER_SIZE /\ m_RecvBytes = Len(m_pRecvBuffer)
      /\ packet \in Seq(Bytes) /\ stream \in Seq(Bytes) /\ received \in Seq(Bytes)
      /\ posted \in 0 .. BUFFER_SIZE /\ socket \in {"open", "closed"}
      /\ {m_isClosing, eof, tornDown, recvFailed} \subseteq BOOLEAN
      /\ {processed, echoed, broadcast} \subseteq Seq(Seq(Bytes))
  BY DEF RecvInv, TypeOK, Bytes
<1>2. posted = BUFFER_SIZE - Len(m_pRecvBuffer)
  BY DEF RecvInv, StageInv, OnReceived
<1>3. PICK n \in 1 .. posted :
        /\ n <= Len(stream)
        /\ m_pRecvBuffer' = m_pRecvBuffer \o SubSeq(stream, 1, n)
        /\ received' = received \o SubSeq(stream, 1, n)
        /\ stream' = SubSeq(stream, n + 1, Len(stream))
        /\ m_RecvBytes' = m_RecvBytes + n
        /\ pc' = IF Len(m_pRecvBuffer) + n < packet_length_header THEN "isvalid" ELSE "loop"
  BY DEF OnReceived
<1>4. /\ m_RecvIoState' = "IO_CONNECTED"
      /\ UNCHANGED <<packet, processed, echoed, broadcast, m_isClosing, socket, tornDown, posted, eof, recvFailed>>
  BY DEF OnReceived, packetVars, sessionVars
<1>5. Len(m_pRecvBuffer) \in Nat /\ Len(stream) \in Nat
  BY <1>1
<1>6. n \in 0 .. Len(stream) /\ n \in Nat
  BY <1>1, <1>3, <1>5, BufferAssumption
<1>7. PICK c : c = SubSeq(stream, 1, n)
  OBVIOUS
<1>8. c \in Seq(Bytes) /\ Len(c) = n /\ SubSeq(stream, n + 1, Len(stream)) \in Seq(Bytes)
  BY <1>1, <1>6, <1>7, CutIs
<1>9. m_pRecvBuffer' = m_pRecvBuffer \o c /\ received' = received \o c
  BY <1>3, <1>7
<1>10. m_pRecvBuffer' \in Seq(Bytes) /\ received' \in Seq(Bytes)
  BY <1>1, <1>8, <1>9, ConcatProperties
<1>11. Len(m_pRecvBuffer') = Len(m_pRecvBuffer) + n
  BY <1>1, <1>8, <1>9, ConcatProperties
<1>12. Len(m_pRecvBuffer') <= BUFFER_SIZE /\ m_RecvBytes' = Len(m_pRecvBuffer')
  BY <1>1, <1>2, <1>3, <1>5, <1>6, <1>11, BufferAssumption
<1>13. /\ pc' \in {"isvalid", "loop"}
       /\ pc' = "isvalid" => Len(m_pRecvBuffer') < packet_length_header
       /\ pc' = "loop" => Len(m_pRecvBuffer') >= packet_length_header
  BY <1>3, <1>5, <1>6, <1>11 DEF packet_length_header
<1>14. TypeOK'
  <2>1. stream' \in Seq(Bytes)
    BY <1>3, <1>8
  <2>2. {packet', stream', received'} \subseteq Seq(Bytes)
    BY <1>1, <1>4, <1>10, <2>1
  <2>3. {m_isClosing', eof', tornDown', recvFailed'} \subseteq BOOLEAN
    BY <1>1, <1>4, Zenon
  <2>4. {processed', echoed', broadcast'} \subseteq Seq(Seq(Bytes))
    BY <1>1, <1>4
  <2>5. pc' \in Labels
    BY <1>13 DEF Labels
  <2>6. posted' \in 0 .. BUFFER_SIZE /\ socket' \in {"open", "closed"} /\ m_RecvIoState' \in {"IO_CONNECTED", "IO_PENDING"}
    BY <1>1, <1>4
  <2>. QED
    BY <1>10, <1>12, <2>2, <2>3, <2>4, <2>5, <2>6 DEF TypeOK, Bytes
<1>15. StageInv'
  BY <1>13 DEF StageInv
<1>16. DrainedInv'
  <2>1. Len(m_pRecvBuffer') \in Nat
    BY <1>10
  <2>. QED
    BY <1>13, <2>1 DEF DrainedInv, packet_length_header
<1>. QED
  BY <1>14, <1>15, <1>16 DEF RecvInv

\* A packet is cut off the front of the buffer.
LEMMA ReadStep ==
  ASSUME RecvInv, ReadPacket
  PROVE  RecvInv'
<1>1. /\ m_pRecvBuffer \in Seq(Bytes) /\ Len(m_pRecvBuffer) <= BUFFER_SIZE /\ m_RecvBytes = Len(m_pRecvBuffer)
      /\ stream \in Seq(Bytes) /\ received \in Seq(Bytes)
      /\ posted \in 0 .. BUFFER_SIZE /\ socket \in {"open", "closed"}
      /\ m_RecvIoState \in {"IO_CONNECTED", "IO_PENDING"}
      /\ {m_isClosing, eof, tornDown, recvFailed} \subseteq BOOLEAN
      /\ {processed, echoed, broadcast} \subseteq Seq(Seq(Bytes))
  BY DEF RecvInv, TypeOK, Bytes
<1>2. Len(m_pRecvBuffer) >= packet_length_header /\ HasPacket(m_pRecvBuffer)
  BY DEF RecvInv, StageInv, ReadPacket
<1>3. PICK n : n = dataSize_(m_pRecvBuffer) + packet_header_size
  OBVIOUS
<1>4. /\ packet' = SubSeq(m_pRecvBuffer, 1, n)
      /\ m_pRecvBuffer' = SubSeq(m_pRecvBuffer, n + 1, Len(m_pRecvBuffer))
      /\ m_RecvBytes' = m_RecvBytes - n
      /\ pc' = "packet"
      /\ UNCHANGED <<m_isClosing, socket, tornDown, stream, eof, m_RecvIoState, posted, recvFailed,
                     received, processed, echoed, broadcast>>
  BY <1>3 DEF ReadPacket, sessionVars, peerVars
<1>5. n \in 0 .. Len(m_pRecvBuffer) /\ n > packet_header_size
  BY <1>1, <1>2, <1>3, PacketIs
<1>6. /\ packet' \in Seq(Bytes) /\ Len(packet') = n
      /\ m_pRecvBuffer' \in Seq(Bytes) /\ Len(m_pRecvBuffer') = Len(m_pRecvBuffer) - n
  BY <1>1, <1>4, <1>5, CutIs
<1>7. Len(m_pRecvBuffer) \in Nat
  BY <1>1
<1>8. Len(m_pRecvBuffer') <= BUFFER_SIZE /\ m_RecvBytes' = Len(m_pRecvBuffer')
  BY <1>1, <1>4, <1>5, <1>6, <1>7, BufferAssumption
<1>9. TypeOK'
  <2>1. {packet', stream', received'} \subseteq Seq(Bytes)
    BY <1>1, <1>4, <1>6
  <2>2. {m_isClosing', eof', tornDown', recvFailed'} \subseteq BOOLEAN
    BY <1>1, <1>4, Zenon
  <2>3. {processed', echoed', broadcast'} \subseteq Seq(Seq(Bytes))
    BY <1>1, <1>4
  <2>4. pc' \in Labels
    BY <1>4 DEF Labels
  <2>5. posted' \in 0 .. BUFFER_SIZE /\ socket' \in {"open", "closed"} /\ m_RecvIoState' \in {"IO_CONNECTED", "IO_PENDING"}
    BY <1>1, <1>4
  <2>. QED
    BY <1>6, <1>8, <2>1, <2>2, <2>3, <2>4, <2>5 DEF TypeOK, Bytes
<1>10. StageInv' /\ DrainedInv'
  BY <1>4, <1>5, <1>6 DEF StageInv, DrainedInv
<1>. QED
  BY <1>9, <1>10 DEF RecvInv

\* A packet is processed: it may be echoed, sent on, or close the session.
LEMMA ProcessStep ==
  ASSUME RecvInv, ProcessPacket
  PROVE  RecvInv'
<1>1. /\ packet \in Seq(Bytes) /\ socket \in {"open", "closed"} /\ m_isClosing \in BOOLEAN
      /\ processed \in Seq(Seq(Bytes)) /\ echoed \in Seq(Seq(Bytes)) /\ broadcast \in Seq(Seq(Bytes))
      /\ m_RecvIoState \in {"IO_CONNECTED", "IO_PENDING"} /\ posted \in 0 .. BUFFER_SIZE
      /\ eof \in BOOLEAN /\ tornDown \in BOOLEAN /\ recvFailed \in BOOLEAN
  BY TypeParts DEF RecvInv
<1>2. /\ pc = "packet" /\ pc' = "next" /\ processed' = Append(processed, packet)
      /\ UNCHANGED <<bufferVars, stream, eof, m_RecvIoState, posted, packet, recvFailed>>
  BY DEF ProcessPacket, peerVars
<1>3. /\ echoed' = echoed \/ echoed' = Append(echoed, packet)
      /\ broadcast' = broadcast \/ broadcast' = Append(broadcast, packet)
  BY DEF ProcessPacket
<1>4. \E b : CloseIf(b)
  BY DEF ProcessPacket
<1>5. socket' \in {socket, "closed"} /\ m_isClosing' \in BOOLEAN /\ tornDown' = tornDown
  <2>1. PICK b : CloseIf(b)
    BY <1>4
  <2>2. socket' = IF b THEN "closed" ELSE socket
    BY <2>1 DEF CloseIf
  <2>3. m_isClosing' = (m_isClosing \/ b)
    BY <2>1 DEF CloseIf
  <2>4. m_isClosing' \in BOOLEAN
    BY <2>3, Zenon
  <2>5. tornDown' = tornDown
    BY <2>1 DEF CloseIf
  <2>. QED
    BY <2>2, <2>4, <2>5
<1>6. /\ processed' \in Seq(Seq(Bytes)) /\ echoed' \in Seq(Seq(Bytes)) /\ broadcast' \in Seq(Seq(Bytes))
  <2>1. \A q \in Seq(Seq(Bytes)) : Append(q, packet) \in Seq(Seq(Bytes))
    BY <1>1, AppendProperties
  <2>. QED
    BY <1>1, <1>2, <1>3, <2>1
<1>7. pc' \in Labels /\ socket' \in {"open", "closed"} /\ stream' \in {stream, << >>}
  BY <1>1, <1>2, <1>5 DEF Labels
<1>. QED
  BY <1>1, <1>2, <1>5, <1>6, <1>7, QuietRecv

\* The loop goes on, or finds too little left.
LEMMA NextStep ==
  ASSUME RecvInv, NextPacket
  PROVE  RecvInv'
<1>1. /\ m_pRecvBuffer \in Seq(Bytes) /\ Len(m_pRecvBuffer) <= BUFFER_SIZE /\ m_RecvBytes = Len(m_pRecvBuffer)
      /\ stream \in Seq(Bytes) /\ received \in Seq(Bytes)
      /\ posted \in 0 .. BUFFER_SIZE /\ socket \in {"open", "closed"}
      /\ m_RecvIoState \in {"IO_CONNECTED", "IO_PENDING"}
      /\ {m_isClosing, eof, tornDown, recvFailed} \subseteq BOOLEAN
      /\ {processed, echoed, broadcast} \subseteq Seq(Seq(Bytes))
  BY DEF RecvInv, TypeOK, Bytes
<1>2. /\ pc' = IF Len(m_pRecvBuffer) > packet_length_header THEN "loop" ELSE "isvalid"
      /\ packet' = << >>
      /\ UNCHANGED <<m_pRecvBuffer, m_RecvBytes, received, m_isClosing, socket, tornDown, stream, eof, m_RecvIoState,
                     posted, recvFailed, processed, echoed, broadcast>>
  BY DEF NextPacket, bufferVars, sessionVars, peerVars
<1>3. Len(m_pRecvBuffer) \in Nat
  BY <1>1
<1>4. /\ pc' \in {"isvalid", "loop"}
      /\ pc' = "isvalid" => Len(m_pRecvBuffer') <= packet_length_header
      /\ pc' = "loop" => Len(m_pRecvBuffer') >= packet_length_header
  BY <1>2, <1>3 DEF packet_length_header
<1>5. TypeOK'
  <2>1. packet' \in Seq(Bytes)
    BY <1>2
  <2>2. {packet', stream', received'} \subseteq Seq(Bytes)
    BY <1>1, <1>2, <2>1
  <2>3. {m_isClosing', eof', tornDown', recvFailed'} \subseteq BOOLEAN
    BY <1>1, <1>2, Zenon
  <2>4. {processed', echoed', broadcast'} \subseteq Seq(Seq(Bytes))
    BY <1>1, <1>2
  <2>5. pc' \in Labels
    BY <1>4 DEF Labels
  <2>. QED
    BY <1>1, <1>2, <2>2, <2>3, <2>4, <2>5 DEF TypeOK, Bytes
<1>6. StageInv' /\ DrainedInv'
  BY <1>4 DEF StageInv, DrainedInv
<1>. QED
  BY <1>5, <1>6 DEF RecvInv

-----------------------------------------------------------------------------
(* The theorems.                                                           *)

\* The inductive invariant holds of every reachable state.
THEOREM RecvInvariant == Spec => []RecvInv
<1>1. Init => RecvInv
  <2>. SUFFICES ASSUME Init PROVE RecvInv
    OBVIOUS
  <2>1. << >> \in Seq(Bytes) /\ << >> \in Seq(Seq(Bytes)) /\ Len(<< >>) = 0
    OBVIOUS
  <2>2. stream \in Seq(Bytes)
    BY StreamsAssumption DEF Init, Bytes
  <2>3. m_isClosing \in BOOLEAN /\ eof \in BOOLEAN /\ tornDown \in BOOLEAN /\ recvFailed \in BOOLEAN
    BY Zenon DEF Init
  <2>4. Len(m_pRecvBuffer) <= BUFFER_SIZE /\ 0 \in 0 .. BUFFER_SIZE
    BY <2>1, BufferAssumption DEF Init
  <2>5. TypeOK
    BY <2>1, <2>2, <2>3, <2>4, TypeParts DEF Init, Labels
  <2>6. StageInv /\ DrainedInv
    BY <2>1 DEF Init, StageInv, DrainedInv, packet_length_header
  <2>. QED
    BY <2>5, <2>6 DEF RecvInv
<1>2. RecvInv /\ [Next]_vars => RecvInv'
  <2>. SUFFICES ASSUME RecvInv, [Next]_vars PROVE RecvInv'
    OBVIOUS
  <2>1. CASE Next
    BY <2>1, OtherSteps, ReceiveStep, ReadStep, ProcessStep, NextStep DEF Next, Proceed
  <2>2. CASE UNCHANGED vars
    BY <2>2 DEF vars, RecvInv, TypeOK, StageInv, DrainedInv, HasPacket, dataSize_
  <2>. QED
    BY <2>1, <2>2
<1>. QED
  BY <1>1, <1>2, PTL DEF Spec

\* Whatever peers send and however it is cut into receives, WSARecv never writes
\* past m_Buffer (TcpClient.cpp:159) and m_RecvBytes is the buffer's own length.
THEOREM RecvTypeCorrect == Spec => []TypeOK
<1>1. RecvInv => TypeOK
  BY DEF RecvInv
<1>. QED
  BY <1>1, RecvInvariant, PTL

\* With room for the longest packet a 16-bit length can announce, as
\* BUFFER_SIZE = 65536 * 4 gives (Buffer.h:22), the receive buffer is full only
\* behind a header that claims no data.
THEOREM FullNeedsEmptyHeader ==
  ASSUME BUFFER_SIZE >= MaxData + packet_header_size
  PROVE  Spec => []FullOnlyBehindEmptyHeader
<1>1. RecvInv => FullOnlyBehindEmptyHeader
  <2>. SUFFICES ASSUME RecvInv, pc = "pending", posted = 0 PROVE dataSize_(m_pRecvBuffer) = 0
    BY DEF FullOnlyBehindEmptyHeader
  <2>1. m_pRecvBuffer \in Seq(Bytes) /\ Len(m_pRecvBuffer) \in Nat
    BY TypeParts DEF RecvInv
  <2>2. posted = BUFFER_SIZE - Len(m_pRecvBuffer)
    BY DEF RecvInv, StageInv
  <2>3. Len(m_pRecvBuffer) >= MaxData + packet_header_size
    BY <2>1, <2>2, BufferAssumption DEF packet_header_size, MaxData
  <2>4. Len(m_pRecvBuffer) > packet_length_header /\ Len(m_pRecvBuffer) >= packet_length_header
    BY <2>1, <2>3 DEF packet_header_size, packet_length_header, MaxData
  <2>5. ~ (Len(m_pRecvBuffer) <= packet_length_header)
    BY <2>1, <2>4 DEF packet_length_header
  <2>6. ~ HasPacket(m_pRecvBuffer)
    BY <2>5 DEF RecvInv, DrainedInv
  <2>7. dataSize_(m_pRecvBuffer) \in 0 .. MaxData
    BY <2>1, <2>4, SizeIs, Zenon
  <2>8. PICK d : d = dataSize_(m_pRecvBuffer)
    BY Zenon
  <2>9. ~ (d > 0 /\ Len(m_pRecvBuffer) >= d + packet_header_size) /\ d \in 0 .. MaxData
    BY <2>6, <2>7, <2>8, Zenon DEF HasPacket
  <2>10. d = 0
    BY <2>1, <2>3, <2>9, SMTT(30) DEF packet_header_size, MaxData
  <2>. QED
    BY <2>8, <2>10, Zenon
<1>. QED
  BY <1>1, RecvInvariant, PTL

=============================================================================
