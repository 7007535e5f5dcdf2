--------------------------- MODULE SendPathProofs ---------------------------
(* Proofs that the send path keeps its invariants for any number of        *)
(* workers, any packets and any buffer size.                               *)
EXTENDS SendPath, SequenceTheorems, TLAPS

-----------------------------------------------------------------------------
(* The inductive invariant.  The safety properties speak of the ends of a  *)
(* send; these parts follow it through the four places it can be in.       *)

\* How many bytes at the front of m_pSendBuffer are already on the wire.
Sent == Len(wire) + Len(m_pSendBuffer) - Len(accepted)

\* What a send on its way consists of.
sendVars == <<socket, pendingSend, port, lostBytes, wire>>

\* The lock is held exactly between setting IO_PENDING and calling WSASend.
LockInv == \A w \in Workers : pc[w] = "send" <=> sendLock = w

\* A send that is on its way, or whose completion was lost, keeps IO_PENDING.
PendingInv ==
  /\ pendingSend # << >> => m_SendIoState = "IO_PENDING"
  /\ port # << >> => m_SendIoState = "IO_PENDING"
  /\ \A w \in Workers : Posting(w) => m_SendIoState = "IO_PENDING"
  /\ lostBytes > 0 => /\ m_SendIoState = "IO_PENDING"
                      /\ pendingSend = << >> /\ port = << >>
                      /\ \A w \in Workers : ~ Posting(w)

\* The buffer holds the newest accepted bytes, and at least the unsent ones.
BufferInv ==
  /\ Len(m_pSendBuffer) <= Len(accepted)
  /\ 0 <= Sent
  /\ \A j \in 1 .. Len(m_pSendBuffer) :
       m_pSendBuffer[j] = accepted[Len(accepted) - Len(m_pSendBuffer) + j]

\* Wherever the send is, it knows how many bytes it has put on the wire.
SentInv ==
  /\ m_SendIoState # "IO_PENDING" => Sent = 0
  /\ pendingSend # << >> => /\ pendingSend[1].done = Sent
                            /\ pendingSend[1].done <= pendingSend[1].len
                            /\ pendingSend[1].len <= Len(m_pSendBuffer)
  /\ port # << >> => (port[1].ok => port[1].bytes = Sent)
  /\ \A w \in Workers : /\ pc[w] = "onsend" => transferred[w] = Sent
                        /\ pc[w] = "send" => Sent = 0

\* Nobody leaves bytes behind without a send on its way or a flush to come.
FlushInv ==
  /\ m_SendIoState = "IO_PENDING" /\ socket = "open" /\ ~ Wedged
       => pendingSend # << >> \/ port # << >> \/ \E w \in Workers : Posting(w)
  /\ m_pSendBuffer # << >> /\ m_SendIoState # "IO_PENDING" /\ socket = "open"
       => \E w \in Workers : WillFlush(w)
  /\ port # << >> => (port[1].ok \/ socket # "open")
  /\ \A w \in Workers : /\ pc[w] = "echo" => resume[w] = "echo"
                        /\ pc[w] = "recvasync" => resume[w] = "recvasync"

IInv ==
  /\ TypeOK
  /\ LockInv
  /\ OneOnItsWay
  /\ PendingInv
  /\ BufferInv
  /\ WireIsPrefixOfAccepted
  /\ SentInv
  /\ FlushInv

\* Once a completion that was not the session's has been applied, the bytes in
\* the buffer and those on the wire no longer tell of each other; until then all
\* of IInv holds and no worker has met the exception of ThrowAway.
Safe ==
  /\ TypeOK
  /\ WireIsPrefixOfAccepted
  /\ ~ stale => IInv /\ Running

-----------------------------------------------------------------------------
(* Facts about the sequence operators the actions use.                     *)

\* A sequence as long as s that holds c everywhere.
LEMMA ConstantSeq ==
  ASSUME NEW S, NEW T, NEW s \in Seq(S), NEW c \in T
  PROVE  /\ [i \in DOMAIN s |-> c] \in Seq(T)
         /\ Len([i \in DOMAIN s |-> c]) = Len(s)
  OBVIOUS

\* Throwing away the first n elements of s leaves the rest of s.
LEMMA SuffixFacts ==
  ASSUME NEW S, NEW s \in Seq(S), NEW n \in Nat
  PROVE  /\ SubSeq(s, n + 1, Len(s)) \in Seq(S)
         /\ Len(SubSeq(s, n + 1, Len(s))) <= Len(s)
         /\ n <= Len(s) => Len(SubSeq(s, n + 1, Len(s))) = Len(s) - n
         /\ \A j \in 1 .. Len(SubSeq(s, n + 1, Len(s))) :
              SubSeq(s, n + 1, Len(s))[j] = s[n + j]
  OBVIOUS

\* A failed completion, as Abort queues it, and a successful one.
LEMMA CompletionTypes ==
  /\ [ok |-> FALSE, bytes |-> 0] \in Completion
  /\ \A n \in Nat : [ok |-> TRUE, bytes |-> n] \in Completion
  BY DEF Completion

\* A WSASend as WSASend and Transmit record it.
LEMMA OpTypes == \A l, d \in Nat : [len |-> l, done |-> d] \in Op
  BY DEF Op

\* A sequence is empty when its length is zero.
LEMMA EmptyLen ==
  ASSUME NEW S, NEW s \in Seq(S)
  PROVE  /\ Len(s) \in Nat
         /\ s = << >> <=> Len(s) = 0
  OBVIOUS

\* Head and tail of a sequence of one element.
LEMMA OneElement ==
  ASSUME NEW S, NEW s \in Seq(S), Len(s) = 1
  PROVE  Tail(s) = << >> /\ Head(s) = s[1]
<1>1. s # << >>
  BY EmptyLen
<1>2. Tail(s) \in Seq(S) /\ Len(Tail(s)) = 0
  BY <1>1, HeadTailProperties
<1>3. Tail(s) = << >>
  BY <1>2, EmptyLen
<1>4. QED
  BY <1>3

-----------------------------------------------------------------------------
(* Type correctness.                                                       *)

\* A new session has its types.
LEMMA InitTypeOK == Init => TypeOK
<1> SUFFICES ASSUME Init PROVE TypeOK
  OBVIOUS
<1>1. BufferType
  <2>1. m_pSendBuffer \in Seq(Byte) /\ Len(m_pSendBuffer) <= BUFFER_SIZE
    BY SizeAssumption DEF Init
  <2>2. accepted \in Seq(Byte) /\ wire \in Seq(Byte)
    BY DEF Init
  <2>3. QED
    BY <2>1, <2>2 DEF BufferType
<1>2. KernelType
  <2>1. pendingSend \in Seq(Op) /\ port \in Seq(Completion)
    BY DEF Init
  <2>2. QED
    BY <2>1 DEF Init, KernelType
<1>3. ThreadType
  <2>1. pc \in [Workers -> Labels] /\ resume \in [Workers -> Resumes]
    BY DEF Init, Labels, Resumes
  <2>2. m_SendIoState \in IO_STATE
    BY DEF Init, IO_STATE
  <2>3. transferred \in [Workers -> Nat] /\ packets \in 0 .. MaxPackets
    BY SizeAssumption DEF Init
  <2>4. m_isClosing \in BOOLEAN /\ sendFailed \in BOOLEAN
    BY DEF Init
  <2>5. sendLock \in Workers \cup {NoWorker}
    BY DEF Init
  <2>6. QED
    BY <2>1, <2>2, <2>3, <2>4, <2>5 DEF ThreadType
<1>4. QED
  BY <1>1, <1>2, <1>3 DEF TypeOK

\* Queueing a packet that fits.
LEMMA EnqueueType ==
  ASSUME BufferType, NEW p \in Packets, Fits(p), EnqueueSendBuffer(p),
         UNCHANGED wire
  PROVE  BufferType'
<1>1. p \in Seq(Byte)
  BY PacketsAssumption
<1>2. QED
  BY <1>1, ConcatProperties DEF BufferType, Fits, EnqueueSendBuffer

\* Aborting the pending operations.
LEMMA AbortType ==
  ASSUME KernelType, Abort, UNCHANGED <<bindVars, lostBytes, formerVars>>,
         socket' \in {"open", "reset", "closed"}
  PROVE  KernelType'
<1> DEFINE failed == [i \in DOMAIN pendingSend |-> [ok |-> FALSE, bytes |-> 0]]
<1>1. failed \in Seq(Completion)
  BY CompletionTypes, ConstantSeq DEF KernelType
<1>2. port \o failed \in Seq(Completion)
  BY <1>1, ConcatProperties DEF KernelType
<1>3. port' \in Seq(Completion) /\ pendingSend' \in Seq(Op)
  BY <1>2, EmptySeq DEF Abort, KernelType
<1>4. QED
  BY <1>3 DEF KernelType, bindVars, formerVars

\* The kernel puts the next unsent byte of the buffer on the wire.
LEMMA TransmitStep ==
  ASSUME TypeOK, OneOnItsWay, SentInv, ~ stale, Transmit
  PROVE  /\ Len(pendingSend) = 1
         /\ pendingSend[1] \in Op
         /\ pendingSend[1].done + 1 \in 1 .. Len(m_pSendBuffer)
         /\ pendingSend[1].done < pendingSend[1].len
         /\ wire' = Append(wire, m_pSendBuffer[pendingSend[1].done + 1])
         /\ pendingSend' = [pendingSend EXCEPT
              ![1] = [len |-> pendingSend[1].len, done |-> pendingSend[1].done + 1]]
<1>1. pendingSend \in Seq(Op) /\ Len(pendingSend) \in Nat
  BY DEF TypeOK, KernelType
<1>2. Len(pendingSend) = 1 /\ DOMAIN pendingSend = {1}
  <2>1. Len(port) \in Nat
    BY DEF TypeOK, KernelType
  <2>2. Len(pendingSend) <= 1
    BY <1>1, <2>1 DEF OneOnItsWay
  <2>3. DOMAIN pendingSend # {}
    BY DEF Transmit
  <2>4. DOMAIN pendingSend = 1 .. Len(pendingSend)
    BY <1>1
  <2>5. Len(pendingSend) = 1
    BY <1>1, <2>2, <2>3, <2>4
  <2>6. QED
    BY <2>4, <2>5
<1>3. /\ pendingSend[1].done < pendingSend[1].len
      /\ wire' = Append(wire, m_pSendBuffer[pendingSend[1].done + 1])
      /\ pendingSend' = [pendingSend EXCEPT
           ![1] = [len |-> pendingSend[1].len, done |-> pendingSend[1].done + 1]]
  BY <1>2 DEF Transmit
<1>4. pendingSend[1] \in Op
  BY <1>1, <1>2
<1>5. pendingSend[1].done \in Nat /\ pendingSend[1].len \in Nat
  BY <1>4 DEF Op
<1>6. pendingSend # << >>
  <2>1. Len(<< >>) = 0
    OBVIOUS
  <2>2. QED
    BY <1>2, <2>1
<1>7. pendingSend[1].len <= Len(m_pSendBuffer)
  BY <1>6 DEF SentInv
<1>8. Len(m_pSendBuffer) \in Nat
  BY LenProperties DEF TypeOK, BufferType
<1>9. pendingSend[1].done + 1 \in 1 .. Len(m_pSendBuffer)
  BY <1>3, <1>5, <1>7, <1>8
<1>10. QED
  BY <1>2, <1>3, <1>4, <1>9

\* Every step keeps the types.
LEMMA NextTypeOK ==
  ASSUME TypeOK, ~ stale => OneOnItsWay /\ SentInv, [Next]_vars
  PROVE  TypeOK'
<1>0. BufferType /\ KernelType /\ ThreadType
  BY DEF TypeOK
<1> USE DEF Labels, Resumes, IO_STATE, Goto, bindVars, formerVars
<1>1. ASSUME NEW w \in Workers, OnReceived(w) PROVE TypeOK'
  BY <1>0, <1>1 DEF OnReceived, TypeOK, BufferType, KernelType, ThreadType,
                    kernelVars, bufferVars
<1>2. ASSUME NEW w \in Workers, OnReceiveEnded(w) PROVE TypeOK'
  BY <1>0, <1>2 DEF OnReceiveEnded, TypeOK, BufferType, KernelType, ThreadType,
                    kernelVars, bufferVars
<1>3. ASSUME NEW w \in Workers, ProcessEcho(w) PROVE TypeOK'
  <2>1. KernelType'
    BY <1>0, <1>3 DEF ProcessEcho, KernelType, kernelVars
  <2>2. ThreadType'
    BY <1>0, <1>3, SizeAssumption DEF ProcessEcho, ThreadType
  <2>3. BufferType'
    <3>1. CASE UNCHANGED bufferVars
      BY <1>0, <1>3, <3>1 DEF ProcessEcho, BufferType, kernelVars, bufferVars
    <3>2. CASE \E p \in Packets : Fits(p) /\ EnqueueSendBuffer(p)
      BY <1>0, <1>3, <3>2, EnqueueType DEF ProcessEcho, kernelVars
    <3>3. QED
      BY <1>3, <3>1, <3>2 DEF ProcessEcho
  <2>4. QED
    BY <2>1, <2>2, <2>3 DEF TypeOK
<1>4. ASSUME NEW w \in Workers, ProcessUnknown(w) PROVE TypeOK'
  BY <1>0, <1>4 DEF ProcessUnknown, TypeOK, BufferType, KernelType, ThreadType,
                    kernelVars, bufferVars
<1>5. ASSUME NEW w \in Workers, ProcessBroadcast(w) PROVE TypeOK'
  BY <1>0, <1>5, SizeAssumption
  DEF ProcessBroadcast, TypeOK, BufferType, KernelType, ThreadType, kernelVars,
      bufferVars
<1>6. ASSUME NEW w \in Workers, SendCompletion(w) PROVE TypeOK'
  <2>1. BufferType'
    BY <1>0, <1>6 DEF SendCompletion, BufferType, bufferVars
  <2>2. Head(port) \in Completion /\ port' \in Seq(Completion)
    BY <1>0, <1>6, HeadTailProperties DEF SendCompletion, KernelType
  <2>3. KernelType'
    BY <1>0, <1>6, <2>2 DEF SendCompletion, KernelType
  <2>4. Head(port).bytes \in Nat
    BY <2>2 DEF Completion
  <2>5. ThreadType'
    BY <1>0, <1>6, <2>4 DEF SendCompletion, ThreadType
  <2>6. QED
    BY <2>1, <2>3, <2>5 DEF TypeOK
<1>7. ASSUME NEW w \in Workers, EndOfPackets(w) PROVE TypeOK'
  BY <1>0, <1>7 DEF EndOfPackets, TypeOK, BufferType, KernelType, ThreadType,
                    kernelVars, bufferVars
<1>8. ASSUME NEW w \in Workers, WriteBroadcast(w) PROVE TypeOK'
  <2>1. KernelType'
    BY <1>0, <1>8 DEF WriteBroadcast, KernelType, kernelVars
  <2>2. ThreadType'
    BY <1>0, <1>8 DEF WriteBroadcast, ThreadType
  <2>3. BufferType'
    <3>1. CASE UNCHANGED bufferVars
      BY <1>0, <1>8, <3>1 DEF WriteBroadcast, BufferType, kernelVars, bufferVars
    <3>2. CASE \E p \in Packets : Fits(p) /\ EnqueueSendBuffer(p)
      BY <1>0, <1>8, <3>2, EnqueueType DEF WriteBroadcast, kernelVars
    <3>3. QED
      BY <1>8, <3>1, <3>2 DEF WriteBroadcast
  <2>4. QED
    BY <2>1, <2>2, <2>3 DEF TypeOK
<1>9. ASSUME NEW w \in Workers, FlushSendBuffer(w) PROVE TypeOK'
  BY <1>0, <1>9 DEF FlushSendBuffer, TypeOK, BufferType, KernelType, ThreadType,
                    kernelVars, bufferVars
<1>10. ASSUME NEW w \in Workers, WSASend(w) PROVE TypeOK'
  <2>1. BufferType'
    BY <1>0, <1>10 DEF WSASend, BufferType, bufferVars
  <2>2. [len |-> Len(m_pSendBuffer), done |-> 0] \in Op
    BY <1>0, OpTypes DEF BufferType
  <2>3. pendingSend' \in Seq(Op)
    BY <1>0, <1>10, <2>2, AppendProperties, SMTT(30) DEF WSASend, KernelType
  <2>4. KernelType'
    BY <1>0, <1>10, <2>3 DEF WSASend, KernelType
  <2>5. ThreadType'
    BY <1>0, <1>10 DEF WSASend, ThreadType
  <2>6. QED
    BY <2>1, <2>4, <2>5 DEF TypeOK
<1>11. ASSUME NEW w \in Workers, OnSend(w) PROVE TypeOK'
  <2>1. KernelType'
    BY <1>0, <1>11 DEF OnSend, KernelType, kernelVars
  <2>2. ThreadType'
    BY <1>0, <1>11 DEF OnSend, ThreadType
  <2>3. transferred[w] \in Nat
    BY <1>0 DEF ThreadType
  <2>4. m_pSendBuffer' \in Seq(Byte) /\ Len(m_pSendBuffer') <= Len(m_pSendBuffer)
    BY <1>0, <1>11, <2>3, SuffixFacts DEF OnSend, ThrowAway, BufferType
  <2>5. BufferType'
    BY <1>0, <1>11, <2>4, SizeAssumption DEF OnSend, BufferType, kernelVars
  <2>6. QED
    BY <2>1, <2>2, <2>5 DEF TypeOK
<1>12. ASSUME NEW w \in Workers, AfterSend(w) PROVE TypeOK'
  BY <1>0, <1>12 DEF AfterSend, TypeOK, BufferType, KernelType, ThreadType,
                     kernelVars, bufferVars
<1>13. ASSUME NEW w \in Workers, RecvAsync(w) PROVE TypeOK'
  BY <1>0, <1>13 DEF RecvAsync, TypeOK, BufferType, KernelType, ThreadType,
                     kernelVars, bufferVars
<1>14. ASSUME NEW w \in Workers, CloseSocket(w) PROVE TypeOK'
  <2>1. KernelType'
    BY <1>0, <1>14, AbortType DEF CloseSocket
  <2>2. QED
    BY <1>0, <1>14, <2>1 DEF CloseSocket, TypeOK, BufferType, ThreadType, bufferVars
<1>15. ASSUME NEW w \in Workers, SetClosing(w) PROVE TypeOK'
  BY <1>0, <1>15 DEF SetClosing, TypeOK, BufferType, KernelType, ThreadType,
                     kernelVars, bufferVars
<1>16. CASE BindSocket
  BY <1>0, <1>16 DEF BindSocket, TypeOK, BufferType, KernelType, ThreadType,
                     bufferVars
<1>17. CASE PeerReset
  <2>1. KernelType'
    BY <1>0, <1>17, AbortType DEF PeerReset
  <2>2. QED
    BY <1>0, <1>17, <2>1 DEF PeerReset, TypeOK, BufferType, ThreadType, bufferVars
<1>18. CASE Transmit
  <2>1. BufferType'
    <3>1. CASE stale
      BY <1>0, <1>18, <3>1 DEF Transmit, BufferType, bufferVars
    <3>2. CASE ~ stale
      <4>1. /\ wire' = Append(wire, m_pSendBuffer[pendingSend[1].done + 1])
            /\ pendingSend[1].done + 1 \in 1 .. Len(m_pSendBuffer)
        BY <1>18, <3>2, TransmitStep
      <4>2. m_pSendBuffer[pendingSend[1].done + 1] \in Byte
        BY <1>0, <4>1, ElementOfSeq DEF BufferType
      <4>3. wire' \in Seq(Byte)
        BY <1>0, <4>1, <4>2 DEF BufferType
      <4>4. QED
        BY <1>0, <1>18, <4>3 DEF Transmit, BufferType, bufferVars
    <3>3. QED
      BY <3>1, <3>2
  <2>2. PICK i \in DOMAIN pendingSend :
          pendingSend' = [pendingSend EXCEPT ![i] =
             [len |-> pendingSend[i].len, done |-> pendingSend[i].done + 1]]
    BY <1>18 DEF Transmit
  <2>3. pendingSend[i] \in Op
    BY <1>0 DEF KernelType
  <2>4. pendingSend' \in Seq(Op)
    <3> DEFINE op == [len |-> pendingSend[i].len, done |-> pendingSend[i].done + 1]
    <3>1. op \in Op
      BY <2>3 DEF Op
    <3>2. pendingSend' = [pendingSend EXCEPT ![i] = op]
      BY <2>2
    <3> HIDE DEF op
    <3>3. QED
      BY <1>0, <3>1, <3>2 DEF KernelType
  <2>5. QED
    BY <1>0, <1>18, <2>1, <2>4 DEF Transmit, TypeOK, KernelType, ThreadType
<1>19. CASE Complete
  <2>1. Head(pendingSend) \in Op /\ pendingSend' \in Seq(Op)
    BY <1>0, <1>19, HeadTailProperties DEF Complete, KernelType
  <2>2. Head(pendingSend).done \in Nat
    BY <2>1 DEF Op
  <2>3. port' \in Seq(Completion)
    <3> DEFINE done == [ok |-> TRUE, bytes |-> Head(pendingSend).done]
    <3>1. done \in Completion
      BY <2>2, CompletionTypes
    <3>2. port' = port \/ port' = Append(port, done)
      BY <1>19 DEF Complete
    <3> HIDE DEF done
    <3>3. QED
      BY <1>0, <3>1, <3>2 DEF KernelType
  <2>4. KernelType'
    BY <1>0, <1>19, <2>1, <2>2, <2>3 DEF Complete, KernelType
  <2>5. QED
    BY <1>0, <1>19, <2>4 DEF Complete, TypeOK, BufferType, ThreadType, bufferVars
<1>20. CASE UNCHANGED vars
  BY <1>0, <1>20 DEF vars, TypeOK, BufferType, KernelType, ThreadType
<1>21. ASSUME NEW w \in Workers, FormerCompletion(w) PROVE TypeOK'
  <2>1. BufferType'
    BY <1>0, <1>21 DEF FormerCompletion, BufferType, bufferVars
  <2>2. former' \in 0 .. MaxFormer
    BY <1>0, <1>21, SizeAssumption DEF FormerCompletion, KernelType
  <2>3. KernelType'
    BY <1>0, <1>21, <2>2 DEF FormerCompletion, KernelType
  <2>4. \A n \in 1 .. BUFFER_SIZE : n \in Nat
    BY SizeAssumption
  <2>5. ThreadType'
    BY <1>0, <1>21, <2>4 DEF FormerCompletion, ThreadType
  <2>6. QED
    BY <2>1, <2>3, <2>5 DEF TypeOK
<1>22. ASSUME NEW w \in Workers, OnSendThrows(w) PROVE TypeOK'
  BY <1>0, <1>22 DEF OnSendThrows, TypeOK, BufferType, KernelType, ThreadType,
                     kernelVars, bufferVars
<1>23. QED
  BY <1>1, <1>2, <1>3, <1>4, <1>5, <1>6, <1>7, <1>8, <1>9, <1>10, <1>11, <1>12,
     <1>13, <1>14, <1>15, <1>16, <1>17, <1>18, <1>19, <1>20, <1>21, <1>22
  DEF Next, Proceed

-----------------------------------------------------------------------------
(* The steps, by what they do to a send that is on its way.                *)

\* A new session has nothing in flight, nothing buffered and the lock free.
LEMMA InitIInv == Init => IInv
<1> SUFFICES ASSUME Init PROVE IInv
  OBVIOUS
<1>1. TypeOK
  BY InitTypeOK
<1>2. Len(<< >>) = 0
  OBVIOUS
<1>3. Sent = 0
  BY <1>2 DEF Init, Sent
<1>4. LockInv /\ OneOnItsWay /\ PendingInv
  BY <1>2, WorkersAssumption DEF Init, LockInv, OneOnItsWay, PendingInv, Posting
<1>5. BufferInv /\ WireIsPrefixOfAccepted
  BY <1>2, <1>3 DEF Init, BufferInv, WireIsPrefixOfAccepted
<1>6. SentInv
  BY <1>3 DEF Init, SentInv
<1>7. FlushInv
  BY DEF Init, FlushInv
<1>8. QED
  BY <1>1, <1>4, <1>5, <1>6, <1>7 DEF IInv

\* A worker moves without touching the send that is on its way.
LEMMA QuietStep ==
  ASSUME IInv, NEW w \in Workers, NEW l \in Labels \ {"send", "onsend"},
         ~ Posting(w), pc' = [pc EXCEPT ![w] = l],
         UNCHANGED <<sendVars, m_SendIoState, sendLock, transferred>>,
         Sent' = Sent, Len(m_pSendBuffer) <= Len(m_pSendBuffer')
  PROVE  LockInv' /\ OneOnItsWay' /\ PendingInv' /\ SentInv'
<1>1. TypeOK /\ LockInv /\ OneOnItsWay /\ PendingInv /\ SentInv
  BY DEF IInv
<1>2. pc \in [Workers -> Labels]
  BY <1>1 DEF TypeOK, ThreadType
<1>3. \A v \in Workers : /\ pc'[v] = "send" <=> pc[v] = "send"
                         /\ pc'[v] = "onsend" <=> pc[v] = "onsend"
  BY <1>2 DEF Posting
<1>4. LockInv'
  BY <1>1, <1>3 DEF LockInv
<1>5. OneOnItsWay'
  BY <1>1, <1>3 DEF OneOnItsWay, Posting, sendVars
<1>6. PendingInv'
  BY <1>1, <1>3 DEF PendingInv, Posting, sendVars
<1>7. SentInv'
  <2>1. pendingSend' # << >> =>
          /\ pendingSend'[1].done = Sent'
          /\ pendingSend'[1].done <= pendingSend'[1].len
          /\ pendingSend'[1].len <= Len(m_pSendBuffer')
    <3> SUFFICES ASSUME pendingSend # << >>
                 PROVE  /\ pendingSend[1].done = Sent'
                        /\ pendingSend[1].done <= pendingSend[1].len
                        /\ pendingSend[1].len <= Len(m_pSendBuffer')
      BY DEF sendVars
    <3>1. pendingSend[1] \in Op
      BY <1>1, EmptyLen DEF TypeOK, KernelType
    <3>2. pendingSend[1].len \in Nat
      BY <3>1 DEF Op
    <3>3. Len(m_pSendBuffer) \in Nat
      BY <1>1, EmptyLen DEF TypeOK, BufferType
    <3>4. QED
      BY <1>1, <3>2, <3>3 DEF SentInv
  <2>2. QED
    BY <1>1, <1>3, <2>1 DEF SentInv, sendVars
<1>8. QED
  BY <1>4, <1>5, <1>6, <1>7

\* Nothing happens to the bytes.
LEMMA SameBytes ==
  ASSUME BufferInv, WireIsPrefixOfAccepted, UNCHANGED <<bufferVars, wire>>
  PROVE  BufferInv' /\ WireIsPrefixOfAccepted' /\ Sent' = Sent
  BY DEF BufferInv, WireIsPrefixOfAccepted, Sent, bufferVars

\* A packet is appended to the buffer and to the accepted bytes.
LEMMA EnqueueBytes ==
  ASSUME TypeOK, BufferInv, WireIsPrefixOfAccepted, NEW p \in Packets,
         EnqueueSendBuffer(p), UNCHANGED wire
  PROVE  /\ BufferInv' /\ WireIsPrefixOfAccepted' /\ Sent' = Sent
         /\ Len(m_pSendBuffer) <= Len(m_pSendBuffer')
<1> DEFINE b == m_pSendBuffer
           a == accepted
<1>1. b \in Seq(Byte) /\ a \in Seq(Byte) /\ wire \in Seq(Byte) /\ p \in Seq(Byte)
  BY PacketsAssumption DEF TypeOK, BufferType
<1>2. Len(b) \in Nat /\ Len(a) \in Nat /\ Len(wire) \in Nat /\ Len(p) \in Nat
  BY <1>1
<1>3. b' = b \o p /\ a' = a \o p
  BY DEF EnqueueSendBuffer
<1>4. Len(b') = Len(b) + Len(p) /\ Len(a') = Len(a) + Len(p)
  BY <1>1, <1>3
<1>5. Sent' = Sent
  BY <1>2, <1>4 DEF Sent
<1>6. WireIsPrefixOfAccepted'
  BY <1>1, <1>2, <1>3, <1>4 DEF WireIsPrefixOfAccepted
<1>7. ASSUME NEW j \in 1 .. Len(b') PROVE b'[j] = a'[Len(a') - Len(b') + j]
  <2>1. CASE j <= Len(b)
    <3>1. b'[j] = b[j]
      BY <1>1, <1>2, <1>3, <2>1
    <3>2. Len(a) - Len(b) + j \in 1 .. Len(a)
      BY <1>2, <2>1 DEF BufferInv
    <3>3. a'[Len(a) - Len(b) + j] = a[Len(a) - Len(b) + j]
      BY <1>1, <1>2, <1>3, <3>2
    <3>4. Len(a') - Len(b') + j = Len(a) - Len(b) + j
      BY <1>2, <1>4
    <3>5. b[j] = a[Len(a) - Len(b) + j]
      <4>1. j \in 1 .. Len(b)
        BY <1>2, <1>4, <2>1
      <4>2. QED
        BY <4>1 DEF BufferInv
    <3>6. QED
      BY <3>1, <3>3, <3>4, <3>5
  <2>2. CASE j > Len(b)
    <3>1. j - Len(b) \in 1 .. Len(p)
      BY <1>2, <1>4, <2>2
    <3>2. b'[j] = p[j - Len(b)]
      BY <1>1, <1>2, <1>3, <3>1
    <3>3. a'[Len(a) + (j - Len(b))] = p[j - Len(b)]
      BY <1>1, <1>2, <1>3, <3>1
    <3>4. Len(a') - Len(b') + j = Len(a) + (j - Len(b))
      BY <1>2, <1>4
    <3>5. QED
      BY <3>2, <3>3, <3>4
  <2>3. QED
    BY <1>2, <1>4, <2>1, <2>2
<1>8. BufferInv'
  BY <1>2, <1>4, <1>5, <1>7 DEF BufferInv
<1>9. QED
  BY <1>2, <1>4, <1>5, <1>6, <1>8

\* A worker moves and nobody is left without a flush to come.
LEMMA QuietFlush ==
  ASSUME IInv, NEW w \in Workers, NEW l \in Labels \ {"send", "onsend"},
         NEW r \in Resumes,
         ~ Posting(w), pc' = [pc EXCEPT ![w] = l],
         resume' = [resume EXCEPT ![w] = r],
         UNCHANGED <<sendVars, m_SendIoState, sendFailed>>,
         \/ WillFlush(w)'
         \/ m_SendIoState = "IO_PENDING"
         \/ m_pSendBuffer' = << >>
         \/ m_pSendBuffer' = m_pSendBuffer /\ ~ WillFlush(w),
         l = "echo" => r = "echo",
         l = "recvasync" => r = "recvasync"
  PROVE  FlushInv'
<1>1. TypeOK /\ FlushInv
  BY DEF IInv
<1>2. pc \in [Workers -> Labels] /\ resume \in [Workers -> Resumes]
  BY <1>1 DEF TypeOK, ThreadType
<1>3. \A v \in Workers \ {w} : pc'[v] = pc[v] /\ resume'[v] = resume[v]
  BY <1>2
<1>4. pc'[w] = l /\ resume'[w] = r
  BY <1>2
<1>5. \A v \in Workers : Posting(v) => Posting(v)'
  BY <1>3 DEF Posting
<1>6. \A v \in Workers \ {w} : WillFlush(v) => WillFlush(v)'
  BY <1>3 DEF WillFlush
<1>7. m_SendIoState' = "IO_PENDING" /\ socket' = "open" /\ ~ Wedged'
        => pendingSend' # << >> \/ port' # << >> \/ \E v \in Workers : Posting(v)'
  BY <1>1, <1>5 DEF FlushInv, Wedged, sendVars
<1>8. m_pSendBuffer' # << >> /\ m_SendIoState' # "IO_PENDING" /\ socket' = "open"
        => \E v \in Workers : WillFlush(v)'
  <2>1. CASE WillFlush(w)'
    BY <2>1
  <2>2. CASE m_pSendBuffer' = m_pSendBuffer /\ ~ WillFlush(w)
    BY <1>1, <1>6, <2>2 DEF FlushInv, sendVars
  <2>3. QED
    BY <2>1, <2>2
<1>9. \A v \in Workers : /\ pc'[v] = "echo" => resume'[v] = "echo"
                         /\ pc'[v] = "recvasync" => resume'[v] = "recvasync"
  BY <1>1, <1>3, <1>4 DEF FlushInv
<1>10. port' # << >> => (port'[1].ok \/ socket' # "open")
  BY <1>1 DEF FlushInv, sendVars
<1>11. QED
  BY <1>7, <1>8, <1>9, <1>10 DEF FlushInv

\* A worker moves, and that is all.
LEMMA ControlStep ==
  ASSUME IInv, TypeOK',
         NEW w \in Workers, NEW l \in Labels \ {"send", "onsend"},
         NEW r \in Resumes,
         ~ Posting(w), pc' = [pc EXCEPT ![w] = l],
         resume' = [resume EXCEPT ![w] = r],
         UNCHANGED <<sendVars, bufferVars, m_SendIoState, sendLock,
                     transferred, sendFailed>>,
         \/ WillFlush(w)'
         \/ m_SendIoState = "IO_PENDING"
         \/ m_pSendBuffer' = << >>
         \/ ~ WillFlush(w),
         l = "echo" => r = "echo",
         l = "recvasync" => r = "recvasync"
  PROVE  IInv'
<1>1. TypeOK /\ BufferInv /\ WireIsPrefixOfAccepted
  BY DEF IInv
<1>2. BufferInv' /\ WireIsPrefixOfAccepted' /\ Sent' = Sent
  BY <1>1, SameBytes DEF sendVars
<1>3. Len(m_pSendBuffer) <= Len(m_pSendBuffer')
  BY <1>1, EmptyLen DEF TypeOK, BufferType, bufferVars
<1>4. LockInv' /\ OneOnItsWay' /\ PendingInv' /\ SentInv'
  BY <1>2, <1>3, QuietStep
<1>5. m_pSendBuffer' = m_pSendBuffer
  BY DEF bufferVars
<1>6. FlushInv'
  BY <1>5, QuietFlush
<1>7. QED
  BY <1>2, <1>4, <1>6 DEF IInv

\* A worker queues a packet that fits and moves.
LEMMA EnqueueStep ==
  ASSUME IInv, TypeOK', NEW p \in Packets, EnqueueSendBuffer(p),
         NEW w \in Workers, NEW l \in Labels \ {"send", "onsend"},
         ~ Posting(w), pc' = [pc EXCEPT ![w] = l],
         UNCHANGED <<sendVars, m_SendIoState, sendLock, transferred, resume,
                     sendFailed>>,
         WillFlush(w)',
         l = "echo" => resume[w] = "echo",
         l # "recvasync"
  PROVE  IInv'
<1>1. TypeOK /\ BufferInv /\ WireIsPrefixOfAccepted
  BY DEF IInv
<1>2. /\ BufferInv' /\ WireIsPrefixOfAccepted' /\ Sent' = Sent
      /\ Len(m_pSendBuffer) <= Len(m_pSendBuffer')
  BY <1>1, EnqueueBytes DEF sendVars
<1>3. LockInv' /\ OneOnItsWay' /\ PendingInv' /\ SentInv'
  BY <1>2, QuietStep
<1>4. resume[w] \in Resumes /\ resume' = [resume EXCEPT ![w] = resume[w]]
  BY <1>1 DEF TypeOK, ThreadType
<1>5. FlushInv'
  BY <1>4, QuietFlush
<1>6. QED
  BY <1>2, <1>3, <1>5 DEF IInv

\* The packets of a receive, and broadcasts.
LEMMA PacketSteps ==
  ASSUME IInv, TypeOK', NEW w \in Workers,
         \/ OnReceived(w) \/ OnReceiveEnded(w) \/ ProcessEcho(w)
         \/ ProcessUnknown(w) \/ EndOfPackets(w) \/ ProcessBroadcast(w)
         \/ WriteBroadcast(w) \/ RecvAsync(w)
  PROVE  IInv'
<1>0. UNCHANGED sendVars
  BY DEF OnReceived, OnReceiveEnded, ProcessEcho, ProcessUnknown, EndOfPackets,
         ProcessBroadcast, WriteBroadcast, RecvAsync, kernelVars, sendVars
<1>1. TypeOK /\ FlushInv
  BY DEF IInv
<1>2. pc \in [Workers -> Labels] /\ resume \in [Workers -> Resumes]
  BY <1>1 DEF TypeOK, ThreadType
<1>3. resume[w] \in Resumes /\ resume = [resume EXCEPT ![w] = resume[w]]
  BY <1>2
<1>4. pc[w] = "echo" => resume[w] = "echo"
  BY <1>1 DEF FlushInv
<1>5. pc[w] = "recvasync" => resume[w] = "recvasync"
  BY <1>1 DEF FlushInv
<1> USE DEF Labels, Resumes, Goto, Posting, WillFlush
<1>6. CASE OnReceived(w)
  <2>1. PICK l \in {"echo", "recvasync"} :
          resume' = [resume EXCEPT ![w] = l] /\ pc' = [pc EXCEPT ![w] = l]
    BY <1>6 DEF OnReceived
  <2>2. ~ WillFlush(w)
    BY <1>6 DEF OnReceived
  <2>3. ~ Posting(w)
    BY <1>6 DEF OnReceived
  <2>4. QED
    BY <1>0, <1>6, <2>1, <2>2, <2>3, ControlStep DEF OnReceived
<1>7. CASE OnReceiveEnded(w)
  <2>1. WillFlush(w)' /\ ~ Posting(w)
    BY <1>2, <1>7 DEF OnReceiveEnded
  <2>2. QED
    BY <1>0, <1>3, <1>7, <2>1, ControlStep DEF OnReceiveEnded
<1>8. CASE ProcessEcho(w)
  <2>1. ~ Posting(w) /\ pc[w] = "echo" /\ UNCHANGED resume
    BY <1>8 DEF ProcessEcho
  <2>2. WillFlush(w)'
    BY <1>4, <2>1
  <2>3. CASE UNCHANGED bufferVars /\ Goto(w, "closesocket")
    BY <1>0, <1>3, <1>8, <2>1, <2>2, <2>3, ControlStep DEF ProcessEcho
  <2>4. CASE \E p \in Packets : EnqueueSendBuffer(p) /\ UNCHANGED pc
    <3>1. pc' = [pc EXCEPT ![w] = "echo"]
      BY <1>2, <2>1, <2>4
    <3>2. QED
      BY <1>0, <1>4, <1>8, <2>1, <2>2, <2>4, <3>1, EnqueueStep DEF ProcessEcho
  <2>5. QED
    BY <1>8, <2>3, <2>4 DEF ProcessEcho
<1>9. CASE ProcessUnknown(w)
  <2>1. WillFlush(w)' /\ ~ Posting(w)
    BY <1>2, <1>9 DEF ProcessUnknown
  <2>2. QED
    BY <1>0, <1>3, <1>9, <2>1, ControlStep DEF ProcessUnknown
<1>10. CASE EndOfPackets(w)
  <2>1. WillFlush(w)' /\ ~ Posting(w)
    BY <1>2, <1>10 DEF EndOfPackets
  <2>2. QED
    BY <1>0, <1>10, <2>1, ControlStep DEF EndOfPackets
<1>11. CASE ProcessBroadcast(w)
  <2>1. ~ Posting(w) /\ (WillFlush(w) => resume[w] = "echo")
    BY <1>4, <1>11 DEF ProcessBroadcast
  <2>2. WillFlush(w)' \/ ~ WillFlush(w)
    BY <1>11, <2>1 DEF ProcessBroadcast
  <2>3. QED
    BY <1>0, <1>3, <1>11, <2>1, <2>2, ControlStep DEF ProcessBroadcast
<1>12. CASE WriteBroadcast(w)
  <2>1. ~ Posting(w) /\ (WillFlush(w) => resume[w] = "echo") /\ UNCHANGED resume
    BY <1>12 DEF WriteBroadcast
  <2>2. CASE \E p \in Packets : EnqueueSendBuffer(p) /\ Goto(w, "flush")
    <3>1. WillFlush(w)'
      BY <1>2, <2>2
    <3>2. QED
      BY <1>0, <1>12, <2>1, <2>2, <3>1, EnqueueStep, ZenonT(30) DEF WriteBroadcast
  <2>3. CASE UNCHANGED bufferVars /\
             Goto(w, IF resume[w] = "echo" THEN "closesocket" ELSE "idle")
    <3>1. WillFlush(w)' \/ ~ WillFlush(w)
      BY <2>1, <2>3
    <3>2. QED
      BY <1>0, <1>3, <1>12, <2>1, <2>3, <3>1, ControlStep, ZenonT(30) DEF WriteBroadcast
  <2>4. QED
    BY <1>12, <2>2, <2>3 DEF WriteBroadcast
<1>13. CASE RecvAsync(w)
  <2>1. ~ Posting(w) /\ ~ WillFlush(w)
    BY <1>5, <1>13 DEF RecvAsync
  <2>2. QED
    BY <1>0, <1>13, <2>1, ControlStep DEF RecvAsync
<1>14. QED
  BY <1>6, <1>7, <1>8, <1>9, <1>10, <1>11, <1>12, <1>13

\* The checks after a send and the last line of Close.
LEMMA CheckSteps ==
  ASSUME IInv, TypeOK', NEW w \in Workers, AfterSend(w) \/ SetClosing(w)
  PROVE  IInv'
<1>0. UNCHANGED sendVars
  BY DEF AfterSend, SetClosing, kernelVars, sendVars
<1>1. TypeOK
  BY DEF IInv
<1>2. pc \in [Workers -> Labels] /\ resume \in [Workers -> Resumes]
  BY <1>1 DEF TypeOK, ThreadType
<1>3. resume[w] \in Resumes /\ resume = [resume EXCEPT ![w] = resume[w]]
  BY <1>2
<1> USE DEF Labels, Resumes, Goto, Posting, WillFlush
<1>4. CASE AfterSend(w)
  <2>1. WillFlush(w)' /\ ~ Posting(w)
    BY <1>2, <1>4 DEF AfterSend
  <2>2. QED
    BY <1>0, <1>3, <1>4, <2>1, ControlStep DEF AfterSend
<1>5. CASE SetClosing(w)
  <2>1. ~ Posting(w) /\ (WillFlush(w)' \/ ~ WillFlush(w))
    BY <1>5 DEF SetClosing
  <2>2. QED
    BY <1>0, <1>3, <1>5, <2>1, ControlStep DEF SetClosing
<1>6. QED
  BY <1>4, <1>5

\* Setting IO_PENDING, or finding that there is nothing to send.
LEMMA FlushStep ==
  ASSUME IInv, TypeOK', NEW w \in Workers, FlushSendBuffer(w)
  PROVE  IInv'
<1>0. UNCHANGED sendVars
  BY DEF FlushSendBuffer, kernelVars, sendVars
<1>1. /\ TypeOK /\ LockInv /\ OneOnItsWay /\ PendingInv /\ BufferInv
      /\ WireIsPrefixOfAccepted /\ SentInv /\ FlushInv
  BY DEF IInv
<1>2. pc \in [Workers -> Labels] /\ resume \in [Workers -> Resumes]
  BY <1>1 DEF TypeOK, ThreadType
<1>3. resume[w] \in Resumes /\ resume = [resume EXCEPT ![w] = resume[w]]
  BY <1>2
<1>4. CASE NothingToSend /\ UNCHANGED <<m_SendIoState, sendLock>> /\ Goto(w, resume[w])
  <2>1. ~ Posting(w) /\ resume[w] \in Labels \ {"send", "onsend"}
    BY <1>3 DEF FlushSendBuffer, Posting, Labels, Resumes
  <2>2. m_SendIoState = "IO_PENDING" \/ m_pSendBuffer' = << >>
    BY <1>4 DEF FlushSendBuffer, NothingToSend, bufferVars
  <2>3. QED
    BY <1>0, <1>3, <1>4, <2>1, <2>2, ControlStep DEF FlushSendBuffer, Goto
<1>5. CASE ~ NothingToSend /\ m_SendIoState' = "IO_PENDING" /\ sendLock' = w
           /\ Goto(w, "send")
  <2>1. \A v \in Workers \ {w} : pc'[v] = pc[v]
    BY <1>2, <1>5 DEF Goto
  <2>2. pc'[w] = "send" /\ sendLock = NoWorker
    BY <1>2, <1>5 DEF Goto, FlushSendBuffer, LockFree
  <2>3. m_SendIoState # "IO_PENDING" /\ UNCHANGED <<kernelVars, bufferVars, transferred,
                                                   resume, sendFailed>>
    BY <1>5 DEF FlushSendBuffer, NothingToSend
  <2>4. \A v \in Workers : ~ Posting(v)
    BY <1>1, <2>3 DEF PendingInv
  <2>5. pendingSend = << >> /\ port = << >> /\ ~ (lostBytes > 0) /\ Sent = 0
    BY <1>1, <2>3 DEF PendingInv, SentInv
  <2>6. BufferInv' /\ WireIsPrefixOfAccepted' /\ Sent' = 0
    BY <1>1, <2>3, <2>5, SameBytes DEF kernelVars
  <2>7. \A v \in Workers : Posting(v)' => v = w
    BY <2>1, <2>4 DEF Posting
  <2>8. LockInv'
    BY <1>1, <1>5, <2>1, <2>2, <2>4, WorkersAssumption DEF LockInv, Posting
  <2>9. OneOnItsWay'
    BY <1>1, <2>3, <2>5, <2>7 DEF OneOnItsWay, kernelVars
  <2>10. PendingInv'
    BY <1>5, <2>3, <2>5 DEF PendingInv, kernelVars
  <2>11. SentInv'
    <3>1. \A v \in Workers : pc'[v] # "onsend"
      BY <2>1, <2>2, <2>4 DEF Posting
    <3>2. QED
      BY <1>5, <2>3, <2>5, <2>6, <3>1 DEF SentInv, kernelVars
  <2>12. FlushInv'
    <3>1. Posting(w)'
      BY <2>2 DEF Posting
    <3>2. QED
      BY <1>1, <1>5, <2>1, <2>2, <2>3, <2>5, <3>1 DEF FlushInv, kernelVars
  <2>13. QED
    BY <2>6, <2>8, <2>9, <2>10, <2>11, <2>12 DEF IInv
<1>6. QED
  BY <1>4, <1>5 DEF FlushSendBuffer

\* Handing the buffer to the kernel.
LEMMA WSASendStep ==
  ASSUME IInv, TypeOK', NEW w \in Workers, WSASend(w)
  PROVE  IInv'
<1>1. /\ TypeOK /\ LockInv /\ OneOnItsWay /\ PendingInv /\ BufferInv
      /\ WireIsPrefixOfAccepted /\ SentInv /\ FlushInv
  BY DEF IInv
<1>2. pc \in [Workers -> Labels] /\ resume \in [Workers -> Resumes]
  BY <1>1 DEF TypeOK, ThreadType
<1>3. pc[w] = "send" /\ Posting(w)
  BY DEF WSASend, Posting
<1>4. \A v \in Workers \ {w} : pc'[v] = pc[v] /\ ~ Posting(v)
  BY <1>1, <1>2, <1>3 DEF WSASend, Goto, OneOnItsWay
<1>5. pc'[w] = resume[w] /\ resume[w] \in Resumes
  BY <1>2 DEF WSASend, Goto
<1>6. \A v \in Workers : ~ Posting(v)' /\ pc'[v] # "send" /\ pc'[v] # "onsend"
  BY <1>4, <1>5 DEF Posting, Resumes
<1>7. /\ pendingSend = << >> /\ port = << >> /\ m_SendIoState = "IO_PENDING"
      /\ Sent = 0 /\ ~ (lostBytes > 0)
  BY <1>1, <1>3 DEF OneOnItsWay, PendingInv, SentInv
<1>8. UNCHANGED <<bufferVars, m_SendIoState, port, lostBytes, resume, wire, socket>>
  BY DEF WSASend
<1>9. BufferInv' /\ WireIsPrefixOfAccepted' /\ Sent' = 0
  BY <1>1, <1>7, <1>8, SameBytes
<1>10. LockInv'
  BY <1>6, WorkersAssumption DEF LockInv, WSASend
<1> DEFINE op == [len |-> Len(m_pSendBuffer), done |-> 0]
<1>11. \/ pendingSend' = << >> /\ sendFailed'
       \/ pendingSend' = <<op>> /\ UNCHANGED sendFailed
  BY <1>7 DEF WSASend
<1>12. /\ Len(pendingSend') <= 1
       /\ pendingSend' # << >> => pendingSend'[1] = op
  <2> HIDE DEF op
  <2>1. Len(<< >>) = 0 /\ Len(<<op>>) = 1 /\ <<op>>[1] = op
    OBVIOUS
  <2>2. QED
    BY <1>11, <2>1
<1>14. OneOnItsWay'
  BY <1>6, <1>7, <1>8, <1>12 DEF OneOnItsWay
<1>15. PendingInv'
  BY <1>6, <1>7, <1>8 DEF PendingInv
<1>16. SentInv'
  <2>1. op.done = 0 /\ op.len = Len(m_pSendBuffer) /\ Len(m_pSendBuffer) \in Nat
    BY <1>1, EmptyLen DEF TypeOK, BufferType
  <2> HIDE DEF op
  <2>2. m_pSendBuffer' = m_pSendBuffer
    BY <1>8 DEF bufferVars
  <2>3. QED
    BY <1>6, <1>7, <1>8, <1>9, <1>12, <2>1, <2>2 DEF SentInv
<1>17. FlushInv'
  <2>1. m_SendIoState' = "IO_PENDING" /\ socket' = "open" /\ ~ Wedged' => pendingSend' # << >>
    BY <1>11 DEF Wedged
  <2>2. QED
    BY <1>1, <1>4, <1>5, <1>7, <1>8, <2>1 DEF FlushInv
<1>18. QED
  BY <1>9, <1>10, <1>14, <1>15, <1>16, <1>17 DEF IInv

\* While a completion is queued nothing else of the send exists.
LEMMA QueuedCompletion ==
  ASSUME IInv, port # << >>
  PROVE  /\ Len(port) = 1 /\ Tail(port) = << >> /\ Head(port) = port[1]
         /\ pendingSend = << >> /\ m_SendIoState = "IO_PENDING"
         /\ ~ (lostBytes > 0)
         /\ \A v \in Workers : ~ Posting(v)
<1>1. pendingSend \in Seq(Op) /\ port \in Seq(Completion)
  BY DEF IInv, TypeOK, KernelType
<1>2. Len(port) \in Nat /\ Len(port) # 0 /\ Len(pendingSend) \in Nat
  BY <1>1, EmptyLen
<1>3. Len(pendingSend) + Len(port) <= 1
  BY DEF IInv, OneOnItsWay
<1> DEFINE m == Len(port)
           n == Len(pendingSend)
<1>4. m = 1 /\ n = 0
  <2>1. m \in Nat /\ n \in Nat /\ m # 0 /\ n + m <= 1
    BY <1>2, <1>3
  <2> HIDE DEF m, n
  <2>2. QED
    BY <2>1
<1>5. Tail(port) = << >> /\ Head(port) = port[1]
  BY <1>1, <1>4, OneElement
<1>6. pendingSend = << >>
  BY <1>1, <1>4, EmptyLen
<1>7. QED
  BY <1>4, <1>5, <1>6 DEF IInv, PendingInv, OneOnItsWay

\* Picking up a completion.
LEMMA CompletionStep ==
  ASSUME IInv, TypeOK', NEW w \in Workers, SendCompletion(w)
  PROVE  IInv'
<1>1. /\ TypeOK /\ LockInv /\ BufferInv
      /\ WireIsPrefixOfAccepted /\ SentInv /\ FlushInv
  BY DEF IInv
<1>2. pc \in [Workers -> Labels] /\ transferred \in [Workers -> Nat]
  BY <1>1 DEF TypeOK, ThreadType
<1>3. port # << >> /\ pc[w] = "idle"
  BY DEF SendCompletion
<1>4. /\ pendingSend = << >> /\ m_SendIoState = "IO_PENDING" /\ ~ (lostBytes > 0)
      /\ \A v \in Workers : ~ Posting(v)
  BY <1>3, QueuedCompletion
<1>5. Head(port) = port[1] /\ port' = << >>
  BY <1>3, QueuedCompletion DEF SendCompletion
<1>6. UNCHANGED <<bufferVars, m_SendIoState, sendLock, socket, pendingSend,
                  lostBytes, resume, sendFailed, wire>>
  BY DEF SendCompletion
<1>7. BufferInv' /\ WireIsPrefixOfAccepted' /\ Sent' = Sent
  BY <1>1, <1>6, SameBytes
<1>8. Len(<< >>) = 0
  OBVIOUS
<1>9. \A v \in Workers : pc[v] # "send" /\ pc[v] # "onsend"
  BY <1>4 DEF Posting
<1>10. CASE pc' = [pc EXCEPT ![w] = "onsend"] /\ port[1].ok
            /\ transferred' = [transferred EXCEPT ![w] = port[1].bytes]
  <2>1. \A v \in Workers \ {w} : pc'[v] = pc[v]
    BY <1>2, <1>10
  <2>2. pc'[w] = "onsend" /\ transferred'[w] = Sent
    BY <1>1, <1>2, <1>3, <1>10 DEF SentInv
  <2>3. \A v \in Workers : pc'[v] # "send" /\ (Posting(v)' => v = w)
    BY <1>9, <2>1, <2>2 DEF Posting
  <2>4. LockInv'
    BY <1>1, <1>6, <1>9, <2>3 DEF LockInv
  <2>5. OneOnItsWay' /\ PendingInv'
    BY <1>4, <1>5, <1>6, <1>8, <2>3 DEF OneOnItsWay, PendingInv
  <2>6. SentInv'
    <3>1. \A v \in Workers : pc'[v] = "onsend" => v = w
      BY <1>9, <2>1
    <3>2. QED
      BY <1>4, <1>5, <1>6, <1>7, <2>2, <2>3, <3>1 DEF SentInv
  <2>7. FlushInv'
    <3>1. Posting(w)' /\ WillFlush(w)'
      BY <2>2 DEF Posting, WillFlush
    <3>2. QED
      BY <1>1, <1>5, <1>6, <2>1, <2>2, <3>1 DEF FlushInv
  <2>8. QED
    BY <1>7, <2>4, <2>5, <2>6, <2>7 DEF IInv
<1>11. CASE /\ pc' = pc \/ pc' = [pc EXCEPT ![w] = "closesocket"]
            /\ socket # "open" /\ UNCHANGED transferred
  <2>1. \A v \in Workers : pc'[v] = pc[v] \/ pc'[v] = "closesocket"
    BY <1>2, <1>11
  <2>2. \A v \in Workers : pc'[v] # "send" /\ pc'[v] # "onsend" /\ ~ Posting(v)'
    BY <1>9, <2>1 DEF Posting
  <2>3. LockInv'
    BY <1>1, <1>6, <1>9, <2>2 DEF LockInv
  <2>4. OneOnItsWay' /\ PendingInv'
    BY <1>4, <1>5, <1>6, <1>8, <2>2 DEF OneOnItsWay, PendingInv
  <2>5. SentInv'
    BY <1>4, <1>5, <1>6, <2>2 DEF SentInv
  <2>6. FlushInv'
    BY <1>1, <1>5, <1>6, <1>11, <2>1 DEF FlushInv
  <2>7. QED
    BY <1>7, <2>3, <2>4, <2>5, <2>6 DEF IInv
<1>12. QED
  BY <1>1, <1>3, <1>4, <1>5, <1>10, <1>11 DEF SendCompletion, Goto, FlushInv

\* Throwing away what was sent.
LEMMA OnSendStep ==
  ASSUME IInv, TypeOK', NEW w \in Workers, OnSend(w)
  PROVE  IInv'
<1>1. /\ TypeOK /\ LockInv /\ OneOnItsWay /\ PendingInv /\ BufferInv
      /\ WireIsPrefixOfAccepted /\ SentInv /\ FlushInv
  BY DEF IInv
<1>2. pc \in [Workers -> Labels] /\ transferred \in [Workers -> Nat]
  BY <1>1 DEF TypeOK, ThreadType
<1>3. pc[w] = "onsend" /\ Posting(w) /\ transferred[w] = Sent
  BY <1>1 DEF OnSend, Posting, SentInv
<1>4. pendingSend = << >> /\ port = << >> /\ ~ (lostBytes > 0)
  BY <1>1, <1>3 DEF OneOnItsWay, PendingInv
<1>5. \A v \in Workers \ {w} : pc'[v] = pc[v] /\ ~ Posting(v)
  BY <1>1, <1>2, <1>3 DEF OnSend, Goto, OneOnItsWay
<1>6. pc'[w] = "isvalid"
  BY <1>2 DEF OnSend, Goto
<1>7. \A v \in Workers : ~ Posting(v)' /\ pc'[v] # "send" /\ pc'[v] # "onsend"
  BY <1>5, <1>6 DEF Posting
<1>8. UNCHANGED <<kernelVars, accepted, sendLock, resume>> /\ m_SendIoState' = "IO_CONNECTED"
  BY DEF OnSend
<1> DEFINE b == m_pSendBuffer
           a == accepted
<1>9. /\ b \in Seq(Byte) /\ a \in Seq(Byte) /\ wire \in Seq(Byte)
      /\ Len(b) \in Nat /\ Len(a) \in Nat /\ Len(wire) \in Nat
  BY <1>1, EmptyLen DEF TypeOK, BufferType
<1>10. Sent \in Nat /\ Sent <= Len(b)
  BY <1>1, <1>2, <1>3, <1>9 DEF Sent, WireIsPrefixOfAccepted
<1>11. b' = SubSeq(b, Sent + 1, Len(b))
  BY <1>3 DEF OnSend, ThrowAway
<1>12. /\ Len(b') = Len(b) - Sent
       /\ \A j \in 1 .. Len(b') : b'[j] = b[Sent + j]
  BY <1>9, <1>10, <1>11, SuffixFacts
<1>13. Sent' = 0
  BY <1>8, <1>9, <1>12 DEF Sent, kernelVars
<1>14. BufferInv'
  <2>1. Len(b') <= Len(a')
    BY <1>1, <1>8, <1>9, <1>10, <1>12 DEF BufferInv
  <2>2. ASSUME NEW j \in 1 .. Len(b') PROVE b'[j] = a'[Len(a') - Len(b') + j]
    <3>1. Sent + j \in 1 .. Len(b)
      BY <1>9, <1>10, <1>12
    <3>2. b[Sent + j] = a[Len(a) - Len(b) + (Sent + j)]
      BY <1>1, <3>1 DEF BufferInv
    <3>3. Len(a) - Len(b) + (Sent + j) = Len(a) - Len(b') + j
      BY <1>9, <1>10, <1>12
    <3>4. QED
      BY <1>8, <1>12, <3>2, <3>3
  <2>3. QED
    BY <1>13, <2>1, <2>2 DEF BufferInv
<1>15. WireIsPrefixOfAccepted'
  BY <1>1, <1>8 DEF WireIsPrefixOfAccepted, kernelVars
<1>16. LockInv'
  BY <1>1, <1>3, <1>5, <1>6, <1>8 DEF LockInv, Posting
<1>17. OneOnItsWay' /\ PendingInv'
  BY <1>1, <1>4, <1>7, <1>8 DEF OneOnItsWay, PendingInv, kernelVars
<1>18. SentInv'
  BY <1>4, <1>7, <1>8, <1>13 DEF SentInv, kernelVars
<1>19. FlushInv'
  <2>1. WillFlush(w)'
    BY <1>6 DEF WillFlush
  <2>2. QED
    BY <1>1, <1>4, <1>5, <1>6, <1>8, <2>1 DEF FlushInv, kernelVars
<1>20. QED
  BY <1>14, <1>15, <1>16, <1>17, <1>18, <1>19 DEF IInv

\* What Abort does to a send that is on its way: at most one failed completion.
LEMMA AbortFacts ==
  ASSUME IInv, Abort
  PROVE  /\ pendingSend' = << >>
         /\ Len(port') <= 1
         /\ port' # << >> => m_SendIoState = "IO_PENDING"
         /\ port' # << >> => ~ (lostBytes > 0) /\ \A v \in Workers : ~ Posting(v)
         /\ port' # << >> /\ port'[1].ok => port # << >> /\ port' = port
<1> DEFINE c == [ok |-> FALSE, bytes |-> 0]
           failed == [i \in DOMAIN pendingSend |-> c]
<1>1. pendingSend \in Seq(Op) /\ port \in Seq(Completion)
  BY DEF IInv, TypeOK, KernelType
<1>2. OneOnItsWay /\ PendingInv
  BY DEF IInv
<1>3. Len(pendingSend) \in Nat /\ Len(port) \in Nat /\ Len(pendingSend) + Len(port) <= 1
  BY <1>1, <1>2, EmptyLen DEF OneOnItsWay
<1>4. pendingSend' = << >> /\ (port' = port \/ port' = port \o failed)
  BY DEF Abort
<1>5. c \in Completion /\ c.ok = FALSE
  BY CompletionTypes
<1> HIDE DEF c
<1>6. failed \in Seq(Completion) /\ Len(failed) = Len(pendingSend)
  BY <1>1, <1>5, ConstantSeq
<1>7. CASE port' = port
  <2>1. Len(port) <= 1
    BY <1>3
  <2>2. QED
    BY <1>2, <1>4, <1>7, <2>1 DEF PendingInv, OneOnItsWay
<1>8. CASE port' = port \o failed /\ Len(pendingSend) = 0
  <2>1. failed = << >>
    BY <1>6, <1>8, EmptyLen
  <2> HIDE DEF failed
  <2>2. port' = port
    BY <1>1, <1>8, <2>1
  <2>3. QED
    BY <1>7, <2>2
<1>9. CASE port' = port \o failed /\ Len(pendingSend) = 1
  <2>1. port = << >> /\ pendingSend # << >>
    BY <1>1, <1>3, <1>9, EmptyLen
  <2>2. failed[1] = c
    BY <1>1, <1>9
  <2> HIDE DEF failed
  <2>3. port' = failed
    BY <1>6, <1>9, <2>1
  <2>4. Len(port') = 1 /\ port'[1] = c
    BY <1>6, <1>9, <2>2, <2>3
  <2>5. m_SendIoState = "IO_PENDING" /\ ~ (lostBytes > 0) /\ \A v \in Workers : ~ Posting(v)
    BY <1>2, <2>1 DEF PendingInv, OneOnItsWay
  <2>6. ~ port'[1].ok
    BY <1>5, <2>4
  <2>7. QED
    BY <1>4, <2>4, <2>5, <2>6
<1>10. Len(pendingSend) = 0 \/ Len(pendingSend) = 1
  <2> DEFINE m == Len(port)
             n == Len(pendingSend)
  <2>1. m \in Nat /\ n \in Nat /\ n + m <= 1
    BY <1>3
  <2> HIDE DEF m, n
  <2>2. n = 0 \/ n = 1
    BY <2>1
  <2>3. QED
    BY <2>2 DEF n
<1> HIDE DEF failed
<1>11. QED
  BY <1>4, <1>7, <1>8, <1>9, <1>10

\* The socket goes away, closed by a worker or reset by the peer.
LEMMA AbortStep ==
  ASSUME IInv, TypeOK',
         (\E w \in Workers : CloseSocket(w)) \/ PeerReset
  PROVE  IInv'
<1>1. /\ TypeOK /\ LockInv /\ OneOnItsWay /\ PendingInv /\ BufferInv
      /\ WireIsPrefixOfAccepted /\ SentInv /\ FlushInv
  BY DEF IInv
<1>2. pc \in [Workers -> Labels]
  BY <1>1 DEF TypeOK, ThreadType
<1>3. /\ Abort /\ socket' # "open"
      /\ UNCHANGED <<bufferVars, m_SendIoState, sendLock, lostBytes, transferred,
                     resume, sendFailed, wire>>
  BY DEF CloseSocket, PeerReset
<1>4. \A v \in Workers : \/ pc'[v] = pc[v]
                         \/ pc[v] = "closesocket" /\ pc'[v] = "closing"
  BY <1>2 DEF CloseSocket, PeerReset, Goto
<1>5. \A v \in Workers : /\ pc'[v] = "send" <=> pc[v] = "send"
                         /\ pc'[v] = "onsend" <=> pc[v] = "onsend"
                         /\ Posting(v)' <=> Posting(v)
  BY <1>4 DEF Posting
<1>6. BufferInv' /\ WireIsPrefixOfAccepted' /\ Sent' = Sent
  BY <1>1, <1>3, SameBytes
<1>7. /\ pendingSend' = << >>
      /\ Len(port') <= 1
      /\ port' # << >> => m_SendIoState = "IO_PENDING"
      /\ port' # << >> => ~ (lostBytes > 0) /\ \A v \in Workers : ~ Posting(v)
      /\ port' # << >> /\ port'[1].ok => port # << >> /\ port' = port
  BY <1>3, AbortFacts
<1>8. Len(<< >>) = 0 /\ Len(port') \in Nat
  BY EmptyLen DEF TypeOK, KernelType
<1>9. LockInv'
  BY <1>1, <1>3, <1>5 DEF LockInv
<1>10. OneOnItsWay'
  BY <1>1, <1>5, <1>7, <1>8 DEF OneOnItsWay
<1>11. PendingInv'
  BY <1>1, <1>3, <1>5, <1>7 DEF PendingInv
<1>12. SentInv'
  <2>1. port' # << >> /\ port'[1].ok => port'[1].bytes = Sent'
    BY <1>1, <1>6, <1>7 DEF SentInv
  <2>2. QED
    BY <1>1, <1>3, <1>5, <1>6, <1>7, <2>1 DEF SentInv
<1>13. FlushInv'
  BY <1>1, <1>3, <1>4 DEF FlushInv
<1>14. QED
  BY <1>6, <1>9, <1>10, <1>11, <1>12, <1>13 DEF IInv

\* One more byte on the wire.
LEMMA WireStep ==
  ASSUME IInv, TypeOK', ~ stale, Transmit
  PROVE  IInv'
<1>1. /\ TypeOK /\ LockInv /\ OneOnItsWay /\ PendingInv /\ BufferInv
      /\ WireIsPrefixOfAccepted /\ SentInv /\ FlushInv
  BY DEF IInv
<1> DEFINE op == pendingSend[1]
           new == [len |-> op.len, done |-> op.done + 1]
<1>2. /\ Len(pendingSend) = 1 /\ op \in Op
      /\ op.done + 1 \in 1 .. Len(m_pSendBuffer) /\ op.done < op.len
      /\ wire' = Append(wire, m_pSendBuffer[op.done + 1])
      /\ pendingSend' = [pendingSend EXCEPT ![1] = new]
  BY <1>1, TransmitStep
<1>3. pendingSend \in Seq(Op) /\ wire \in Seq(Byte)
  BY <1>1 DEF TypeOK, KernelType, BufferType
<1>4. /\ Len(m_pSendBuffer) \in Nat /\ Len(accepted) \in Nat /\ Len(wire) \in Nat
      /\ op.done \in Nat /\ op.len \in Nat
  BY <1>1, <1>2, EmptyLen DEF TypeOK, BufferType, Op
<1>5. pendingSend # << >>
  BY <1>2, <1>3, EmptyLen
<1>6. op.done = Sent /\ op.len <= Len(m_pSendBuffer)
  BY <1>1, <1>5 DEF SentInv
<1>7. /\ UNCHANGED <<bufferVars, m_SendIoState, sendLock, socket, port, lostBytes, pc,
                     transferred, resume, sendFailed>>
  BY DEF Transmit
<1>8. new.len = op.len /\ new.done = op.done + 1
  OBVIOUS
<1> HIDE DEF op, new
<1>9. Len(pendingSend') = 1 /\ pendingSend'[1] = new
  BY <1>2, <1>3
<1>10. pendingSend' # << >>
  <2>1. Len(<< >>) = 0
    OBVIOUS
  <2>2. QED
    BY <1>9, <2>1
<1> DEFINE x == m_pSendBuffer[op.done + 1]
<1>11. x = accepted[Len(wire) + 1]
  <2>1. x = accepted[Len(accepted) - Len(m_pSendBuffer) + (op.done + 1)]
    BY <1>1, <1>2 DEF BufferInv
  <2>2. Len(accepted) - Len(m_pSendBuffer) + (op.done + 1) = Len(wire) + 1
    BY <1>4, <1>6 DEF Sent
  <2>3. QED
    BY <2>1, <2>2
<1>12. /\ Len(wire') = Len(wire) + 1
       /\ \A j \in 1 .. Len(wire) : wire'[j] = wire[j]
       /\ wire'[Len(wire) + 1] = x
  <2>1. x \in Byte
    BY <1>1, <1>2, ElementOfSeq DEF TypeOK, BufferType
  <2>2. wire' = Append(wire, x)
    BY <1>2
  <2> HIDE DEF x
  <2>3. QED
    BY <1>3, <2>1, <2>2
<1>13. Sent' = Sent + 1
  BY <1>4, <1>7, <1>12 DEF Sent, bufferVars
<1>14. Sent < Len(m_pSendBuffer) /\ Sent \in Nat
  BY <1>2, <1>4, <1>6
<1>15. BufferInv'
  BY <1>1, <1>7, <1>13, <1>14 DEF BufferInv, bufferVars
<1>16. WireIsPrefixOfAccepted'
  <2>1. Len(wire') <= Len(accepted)
    BY <1>4, <1>12, <1>14 DEF Sent
  <2>2. ASSUME NEW j \in 1 .. Len(wire') PROVE wire'[j] = accepted[j]
    <3>1. CASE j \in 1 .. Len(wire)
      BY <1>1, <1>12, <3>1 DEF WireIsPrefixOfAccepted
    <3>2. CASE j = Len(wire) + 1
      BY <1>11, <1>12, <3>2
    <3>3. QED
      BY <1>4, <1>12, <3>1, <3>2
  <2>3. QED
    BY <1>7, <2>1, <2>2 DEF WireIsPrefixOfAccepted, bufferVars
<1>17. LockInv'
  BY <1>1, <1>7 DEF LockInv
<1>18. OneOnItsWay' /\ PendingInv'
  BY <1>1, <1>2, <1>5, <1>7, <1>9 DEF OneOnItsWay, PendingInv, Posting
<1>19. SentInv'
  <2>1. \A v \in Workers : ~ Posting(v)
    BY <1>1, <1>5 DEF OneOnItsWay
  <2>2. port = << >> /\ m_SendIoState = "IO_PENDING"
    <3>1. Len(port) \in Nat /\ 1 + Len(port) <= 1
      BY <1>1, <1>2, EmptyLen DEF OneOnItsWay, TypeOK, KernelType
    <3>2. Len(port) = 0
      BY <3>1
    <3>3. QED
      BY <1>1, <1>5, <3>2, EmptyLen DEF TypeOK, KernelType, PendingInv
  <2>3. /\ pendingSend'[1].done = Sent'
        /\ pendingSend'[1].done <= pendingSend'[1].len
        /\ pendingSend'[1].len <= Len(m_pSendBuffer')
    BY <1>2, <1>4, <1>6, <1>7, <1>8, <1>9, <1>13 DEF bufferVars
  <2>4. QED
    BY <1>7, <2>1, <2>2, <2>3 DEF SentInv, Posting
<1>20. FlushInv'
  BY <1>1, <1>7, <1>10 DEF FlushInv, WillFlush, bufferVars
<1>21. QED
  BY <1>15, <1>16, <1>17, <1>18, <1>19, <1>20 DEF IInv

\* The kernel finishes a send, heard of or not.
LEMMA CompleteStep ==
  ASSUME IInv, TypeOK', Complete
  PROVE  IInv'
<1>1. /\ TypeOK /\ LockInv /\ OneOnItsWay /\ PendingInv /\ BufferInv
      /\ WireIsPrefixOfAccepted /\ SentInv /\ FlushInv
  BY DEF IInv
<1>2. pendingSend \in Seq(Op) /\ port \in Seq(Completion) /\ pendingSend # << >>
  BY <1>1 DEF TypeOK, KernelType, Complete
<1> DEFINE m == Len(port)
           n == Len(pendingSend)
<1>3. n = 1 /\ m = 0
  <2>1. m \in Nat /\ n \in Nat /\ n # 0 /\ n + m <= 1
    BY <1>1, <1>2, EmptyLen DEF OneOnItsWay
  <2> HIDE DEF m, n
  <2>2. QED
    BY <2>1
<1>4. Tail(pendingSend) = << >> /\ Head(pendingSend) = pendingSend[1] /\ port = << >>
  BY <1>2, <1>3, OneElement, EmptyLen
<1>5. m_SendIoState = "IO_PENDING" /\ ~ (lostBytes > 0) /\ \A v \in Workers : ~ Posting(v)
  BY <1>1, <1>2 DEF PendingInv, OneOnItsWay
<1>6. pendingSend[1].done = Sent
  BY <1>1, <1>2 DEF SentInv
<1>7. UNCHANGED <<bufferVars, m_SendIoState, sendLock, socket, pc, transferred, resume,
                  sendFailed, wire>>
  BY DEF Complete
<1>8. BufferInv' /\ WireIsPrefixOfAccepted' /\ Sent' = Sent
  BY <1>1, <1>7, SameBytes
<1>9. pendingSend' = << >> /\ Len(<< >>) = 0
  BY <1>4 DEF Complete
<1>10. \A v \in Workers : ~ Posting(v)' /\ pc'[v] # "send" /\ pc'[v] # "onsend"
  BY <1>5, <1>7 DEF Posting
<1>11. LockInv'
  BY <1>1, <1>7 DEF LockInv
<1> DEFINE c == [ok |-> TRUE, bytes |-> pendingSend[1].done]
<1>12. CASE port' = Append(port, c) /\ UNCHANGED lostBytes
  <2>1. c.ok /\ c.bytes = Sent
    BY <1>6
  <2> HIDE DEF c
  <2>2. port' = <<c>>
    BY <1>4, <1>12
  <2>3. Len(port') = 1 /\ port'[1] = c /\ port' # << >>
    BY <2>2
  <2>4. OneOnItsWay' /\ PendingInv'
    BY <1>5, <1>7, <1>9, <1>10, <1>12, <2>3 DEF OneOnItsWay, PendingInv
  <2>5. SentInv'
    BY <1>5, <1>7, <1>8, <1>9, <1>10, <2>1, <2>3 DEF SentInv
  <2>6. FlushInv'
    BY <1>1, <1>5, <1>7, <2>1, <2>3 DEF FlushInv
  <2>7. QED
    BY <1>8, <1>11, <2>4, <2>5, <2>6 DEF IInv
<1>13. CASE port' = port /\ lostBytes' > 0
  <2>1. OneOnItsWay' /\ PendingInv'
    BY <1>4, <1>5, <1>7, <1>9, <1>10, <1>13 DEF OneOnItsWay, PendingInv
  <2>2. SentInv'
    BY <1>4, <1>5, <1>7, <1>9, <1>10, <1>13 DEF SentInv
  <2>3. FlushInv'
    BY <1>1, <1>4, <1>5, <1>7, <1>13 DEF FlushInv, Wedged
  <2>4. QED
    BY <1>8, <1>11, <2>1, <2>2, <2>3 DEF IInv
<1>14. lostBytes \in Nat /\ pendingSend[1] \in Op
  BY <1>1, <1>2, <1>3 DEF TypeOK, KernelType
<1>15. pendingSend[1].done \in Nat
  BY <1>14 DEF Op
<1>16. \/ port' = Append(port, c) /\ UNCHANGED lostBytes
       \/ port' = port /\ lostBytes' = lostBytes + pendingSend[1].done
          /\ pendingSend[1].done > 0
  BY <1>4 DEF Complete
<1>17. QED
  BY <1>12, <1>13, <1>14, <1>15, <1>16

\* The accepting thread binds the socket.
LEMMA BindStep ==
  ASSUME IInv, TypeOK', BindSocket
  PROVE  IInv'
  BY DEF IInv, BindSocket, LockInv, OneOnItsWay, PendingInv, BufferInv,
         WireIsPrefixOfAccepted, SentInv, FlushInv, Sent, Posting, Wedged, WillFlush,
         bufferVars

\* A former owner's completion that is not applied to the session, because no
\* send of it is pending or because it reports an error.
LEMMA FormerStep ==
  ASSUME IInv, TypeOK', NEW w \in Workers, FormerCompletion(w), ~ stale'
  PROVE  IInv'
<1>1. /\ pc[w] = "idle"
      /\ UNCHANGED <<sendVars, bufferVars, m_SendIoState, sendLock, transferred,
                     resume, sendFailed>>
      /\ pc' = pc \/ pc' = [pc EXCEPT ![w] = "closesocket"]
  BY DEF FormerCompletion, sendVars, Goto
<1>2. pc \in [Workers -> Labels] /\ resume \in [Workers -> Resumes]
  BY DEF IInv, TypeOK, ThreadType
<1>3. resume[w] \in Resumes /\ resume = [resume EXCEPT ![w] = resume[w]]
  BY <1>2
<1>4. CASE pc' = [pc EXCEPT ![w] = "closesocket"]
  <2>1. WillFlush(w)' /\ ~ Posting(w) /\ "closesocket" \in Labels \ {"send", "onsend"}
    BY <1>1, <1>2, <1>4 DEF WillFlush, Posting, Labels
  <2>2. QED
    BY <1>1, <1>3, <1>4, <2>1, ControlStep
<1>5. CASE pc' = pc
  BY <1>1, <1>5 DEF IInv, sendVars, LockInv, OneOnItsWay, PendingInv, BufferInv,
         WireIsPrefixOfAccepted, SentInv, FlushInv, Sent, Posting, Wedged, WillFlush,
         bufferVars
<1>6. QED
  BY <1>1, <1>4, <1>5

\* As long as only the session's own completions were applied, what was sent is
\* in the buffer still, and OnSend finds it there.
LEMMA NoExcess ==
  ASSUME IInv, NEW w \in Workers, pc[w] = "onsend"
  PROVE  transferred[w] <= Len(m_pSendBuffer)
<1>1. transferred[w] = Sent /\ Len(wire) <= Len(accepted)
  BY DEF IInv, SentInv, WireIsPrefixOfAccepted
<1>2. Len(wire) \in Nat /\ Len(accepted) \in Nat /\ Len(m_pSendBuffer) \in Nat
  BY EmptyLen DEF IInv, TypeOK, BufferType
<1>3. QED
  BY <1>1, <1>2 DEF Sent

\* OnSendThrows does not happen then.
LEMMA NoThrowStep ==
  ASSUME IInv, NEW w \in Workers
  PROVE  ~ OnSendThrows(w)
<1> SUFFICES ASSUME OnSendThrows(w) PROVE FALSE
  OBVIOUS
<1>1. transferred[w] <= Len(m_pSendBuffer)
  BY NoExcess DEF OnSendThrows
<1>2. transferred[w] \in Nat /\ Len(m_pSendBuffer) \in Nat
  BY EmptyLen DEF IInv, TypeOK, BufferType, ThreadType
<1>3. QED
  BY <1>1, <1>2 DEF OnSendThrows

\* A worker goes from one label to another; only OnSendThrows ends the process.
LEMMA KeepRunning ==
  ASSUME TypeOK, Running, [Next]_vars, \A w \in Workers : ~ OnSendThrows(w)
  PROVE  Running'
<1>1. pc \in [Workers -> Labels] /\ resume \in [Workers -> Resumes]
  BY DEF TypeOK, ThreadType
<1>2. ASSUME NEW w \in Workers,
             NEW l \in (Labels \ {"terminated"}) \cup Resumes,
             pc' = pc \/ pc' = [pc EXCEPT ![w] = l]
      PROVE  Running'
  BY <1>1, <1>2 DEF Running, Resumes
<1>3. CASE UNCHANGED pc
  BY <1>3 DEF Running
<1>4. ASSUME NEW w \in Workers,
             \/ OnReceived(w) \/ OnReceiveEnded(w) \/ ProcessEcho(w)
             \/ ProcessUnknown(w) \/ ProcessBroadcast(w) \/ SendCompletion(w)
             \/ FormerCompletion(w) \/ Proceed(w)
      PROVE  \/ pc' = pc
             \/ \E l \in (Labels \ {"terminated"}) \cup Resumes :
                  pc' = [pc EXCEPT ![w] = l]
  <2>1. resume[w] \in Resumes
    BY <1>1
  <2> USE DEF Labels, Goto
  <2>2. CASE OnReceived(w) \/ OnReceiveEnded(w) \/ ProcessUnknown(w)
             \/ ProcessBroadcast(w) \/ ProcessEcho(w)
    BY <2>2 DEF OnReceived, OnReceiveEnded, ProcessUnknown, ProcessBroadcast,
                ProcessEcho
  <2>3. CASE SendCompletion(w) \/ FormerCompletion(w)
    BY <2>3 DEF SendCompletion, FormerCompletion
  <2>4. CASE EndOfPackets(w) \/ WriteBroadcast(w) \/ OnSend(w) \/ AfterSend(w)
             \/ RecvAsync(w) \/ CloseSocket(w)
    BY <2>4 DEF EndOfPackets, WriteBroadcast, OnSend, AfterSend, RecvAsync,
                CloseSocket
  <2>5. CASE FlushSendBuffer(w) \/ WSASend(w) \/ SetClosing(w)
    BY <2>1, <2>5 DEF FlushSendBuffer, WSASend, SetClosing
  <2>6. QED
    BY <1>4, <2>2, <2>3, <2>4, <2>5 DEF Proceed
<1>5. CASE BindSocket \/ PeerReset \/ Transmit \/ Complete \/ UNCHANGED vars
  BY <1>3, <1>5 DEF BindSocket, PeerReset, Transmit, Complete, vars
<1>6. ASSUME NEW w \in Workers,
             \/ OnReceived(w) \/ OnReceiveEnded(w) \/ ProcessEcho(w)
             \/ ProcessUnknown(w) \/ ProcessBroadcast(w) \/ SendCompletion(w)
             \/ FormerCompletion(w) \/ Proceed(w)
      PROVE  Running'
  <2>1. CASE pc' = pc
    BY <1>3, <2>1
  <2>2. CASE pc' # pc
    <3>1. PICK l \in (Labels \ {"terminated"}) \cup Resumes :
             pc' = [pc EXCEPT ![w] = l]
      BY <1>4, <1>6, <2>2
    <3>2. QED
      BY <1>2, <3>1
  <2>3. QED
    BY <2>1, <2>2
<1>7. QED
  BY <1>5, <1>6 DEF Next

\* After a foreign completion the wire is no longer recorded, and what was
\* accepted only grows.
LEMMA StaleWire ==
  ASSUME TypeOK, WireIsPrefixOfAccepted, stale', [Next]_vars
  PROVE  WireIsPrefixOfAccepted' /\ UNCHANGED wire
<1>1. UNCHANGED wire
  BY DEF Next, Proceed, vars, OnReceived, OnReceiveEnded, ProcessEcho,
     ProcessUnknown, ProcessBroadcast, SendCompletion, FormerCompletion,
     EndOfPackets, WriteBroadcast, FlushSendBuffer, WSASend, OnSend,
     OnSendThrows, AfterSend, RecvAsync, CloseSocket, SetClosing, BindSocket,
     PeerReset, Transmit, Complete, kernelVars, formerVars
<1>2. \/ UNCHANGED accepted
      \/ \E p \in Packets : EnqueueSendBuffer(p)
  BY DEF Next, Proceed, vars, OnReceived, OnReceiveEnded, ProcessEcho,
     ProcessUnknown, ProcessBroadcast, SendCompletion, FormerCompletion,
     EndOfPackets, WriteBroadcast, FlushSendBuffer, WSASend, OnSend,
     OnSendThrows, AfterSend, RecvAsync, CloseSocket, SetClosing, BindSocket,
     PeerReset, Transmit, Complete, bufferVars
<1>3. CASE UNCHANGED accepted
  BY <1>1, <1>3 DEF WireIsPrefixOfAccepted
<1>4. ASSUME NEW p \in Packets, EnqueueSendBuffer(p) PROVE WireIsPrefixOfAccepted'
  <2>1. accepted \in Seq(Byte) /\ p \in Seq(Byte) /\ wire \in Seq(Byte)
    BY PacketsAssumption DEF TypeOK, BufferType
  <2>2. accepted' = accepted \o p
    BY <1>4 DEF EnqueueSendBuffer
  <2>3. QED
    BY <1>1, <2>1, <2>2 DEF WireIsPrefixOfAccepted
<1>5. QED
  BY <1>1, <1>2, <1>3, <1>4

\* Nothing happens.
LEMMA StutterStep ==
  ASSUME IInv, TypeOK', UNCHANGED vars
  PROVE  IInv'
  BY DEF IInv, vars, LockInv, OneOnItsWay, PendingInv, BufferInv,
         WireIsPrefixOfAccepted, SentInv, FlushInv, Sent, Posting, Wedged, WillFlush

-----------------------------------------------------------------------------
(* The theorems.                                                           *)

\* What was applied stays applied.
LEMMA StaleForEver ==
  ASSUME [Next]_vars, stale
  PROVE  stale'
  BY DEF Next, Proceed, vars, OnReceived, OnReceiveEnded, ProcessEcho,
     ProcessUnknown, ProcessBroadcast, SendCompletion, FormerCompletion,
     EndOfPackets, WriteBroadcast, FlushSendBuffer, WSASend, OnSend,
     OnSendThrows, AfterSend, RecvAsync, CloseSocket, SetClosing, BindSocket,
     PeerReset, Transmit, Complete, kernelVars, formerVars

\* Safe is inductive.
THEOREM Inductive == Spec => []Safe
<1>1. ASSUME IInv, TypeOK', ~ stale, ~ stale', [Next]_vars
      PROVE  IInv'
  <2>1. \A w \in Workers : ~ OnSendThrows(w)
    BY <1>1, NoThrowStep
  <2>2. CASE UNCHANGED vars
    BY <1>1, <2>2, StutterStep
  <2>3. CASE BindSocket
    BY <1>1, <2>3, BindStep
  <2>4. CASE PeerReset
    BY <1>1, <2>4, AbortStep
  <2>5. CASE Transmit
    BY <1>1, <2>5, WireStep
  <2>6. CASE Complete
    BY <1>1, <2>6, CompleteStep
  <2>7. ASSUME NEW w \in Workers,
               \/ OnReceived(w) \/ OnReceiveEnded(w) \/ ProcessEcho(w)
               \/ ProcessUnknown(w) \/ ProcessBroadcast(w) \/ SendCompletion(w)
               \/ FormerCompletion(w) \/ Proceed(w)
        PROVE  IInv'
    BY <1>1, <2>1, <2>7, PacketSteps, CheckSteps, FlushStep, WSASendStep,
       CompletionStep, FormerStep, OnSendStep, AbortStep
    DEF Proceed
  <2>8. QED
    BY <1>1, <2>2, <2>3, <2>4, <2>5, <2>6, <2>7 DEF Next
<1>2. Safe /\ [Next]_vars => Safe'
  <2> SUFFICES ASSUME Safe, [Next]_vars PROVE Safe'
    OBVIOUS
  <2>1. TypeOK'
    BY NextTypeOK DEF Safe, IInv
  <2>2. CASE stale'
    BY <2>1, <2>2, StaleWire DEF Safe
  <2>3. CASE ~ stale'
    <3>1. ~ stale /\ IInv /\ Running
      BY <2>3, StaleForEver DEF Safe
    <3>2. IInv'
      BY <1>1, <2>1, <2>3, <3>1
    <3>3. Running'
      BY <3>1, NoThrowStep, KeepRunning DEF IInv
    <3>4. QED
      BY <2>1, <2>3, <3>2, <3>3 DEF Safe, IInv
  <2>4. QED
    BY <2>2, <2>3
<1>3. Init => Safe
  BY InitIInv DEF Safe, IInv, Init, Running
<1>4. QED
  BY <1>2, <1>3, PTL DEF Spec

\* The types and the buffer's capacity hold in every reachable state.
THEOREM TypeCorrect == Spec => []TypeOK
<1>1. Safe => TypeOK
  BY DEF Safe
<1>2. QED
  BY <1>1, Inductive, PTL

\* SendAsync's IO_PENDING test keeps a session to one WSASend at a time, for any
\* number of worker threads, until a former owner's completion is taken for one
\* of the session's.
THEOREM AtMostOneSend == Spec => []OneSendInFlight
<1>1. Safe => OneSendInFlight
  BY DEF Safe, IInv, OneSendInFlight
<1>2. QED
  BY <1>1, Inductive, PTL

\* Whatever the workers do, the peer reads a prefix of the accepted bytes.
THEOREM WireCorrect == Spec => []WireIsPrefixOfAccepted
<1>1. Safe => WireIsPrefixOfAccepted
  BY DEF Safe
<1>2. QED
  BY <1>1, Inductive, PTL

\* The session's own completions never make PulledBuffer::ThrowAway throw: that
\* takes the completion of a send of the structure's former owner.
THEOREM NoThrow == Spec => []ThrowAwayInBounds
<1>1. Safe => ThrowAwayInBounds
  BY NoExcess DEF Safe, ThrowAwayInBounds
<1>2. QED
  BY <1>1, Inductive, PTL

\* Buffered bytes of an open session that is not wedged and got its own
\* completions only are in flight or about to be flushed.
THEOREM NothingStranded == Spec => []NoStrandedBytes
<1>1. Safe => NoStrandedBytes
  <2> SUFFICES ASSUME IInv, m_pSendBuffer # << >>, socket = "open", ~ Wedged
               PROVE  \/ pendingSend # << >> \/ port # << >>
                      \/ \E w \in Workers : WillFlush(w)
    BY DEF Safe, NoStrandedBytes
  <2>1. FlushInv
    BY DEF IInv
  <2>2. CASE m_SendIoState = "IO_PENDING"
    <3>1. \A w \in Workers : Posting(w) => WillFlush(w)
      BY DEF Posting, WillFlush
    <3>2. QED
      BY <2>1, <2>2, <3>1 DEF FlushInv
  <2>3. CASE m_SendIoState # "IO_PENDING"
    BY <2>1, <2>3 DEF FlushInv
  <2>4. QED
    BY <2>2, <2>3
<1>2. QED
  BY <1>1, Inductive, PTL

-----------------------------------------------------------------------------
(* The refinement.  The mapping of SendPath takes the bytes that are sent  *)
(* already off the front of the buffer, wherever the send is; to know how  *)
(* many these are when no send is on its way, IInv needs one part more.    *)


\* When nothing of a send is on its way, what is on the wire and still in the
\* buffer is what a completion nobody heard of had sent.
UnsentInv ==
  /\ socket = "open" /\ pendingSend = << >> /\ port = << >>
  /\ \A w \in Workers : pc[w] # "onsend"
  => lostBytes = Sent

RInv == IInv /\ UnsentInv

\* The abstract queue under the refinement mapping.
Unsent == IF socket = "open" /\ ~ stale
          THEN SubSeq(m_pSendBuffer, AlreadySent + 1, Len(m_pSendBuffer))
          ELSE << >>

\* The empty sequence has no elements.
LEMMA LenOfEmpty == Len(<< >>) = 0
  OBVIOUS

\* Dropping a prefix of a sequence and appending to it commute.
LEMMA SuffixConcat ==
  ASSUME NEW S, NEW s \in Seq(S), NEW t \in Seq(S), NEW n \in Nat, n <= Len(s)
  PROVE  SubSeq(s \o t, n + 1, Len(s \o t)) = SubSeq(s, n + 1, Len(s)) \o t
<1> DEFINE c == s \o t
           u == SubSeq(c, n + 1, Len(c))
           r == SubSeq(s, n + 1, Len(s))
           v == r \o t
           k == Len(s)
           l == Len(t)
<1>1. k \in Nat /\ l \in Nat /\ n <= k
  OBVIOUS
<1>2. c \in Seq(S) /\ Len(c) = k + l
  BY ConcatProperties
<1>3. \A j \in 1 .. k + l : c[j] = IF j <= k THEN s[j] ELSE t[j - k]
  BY ConcatProperties
<1>4. r \in Seq(S) /\ Len(r) = k - n
  BY <1>1, SuffixFacts
<1>5. \A j \in 1 .. k - n : r[j] = s[n + j]
  BY <1>1, <1>4, SuffixFacts
<1> HIDE DEF c, r, k, l
<1>6. n <= Len(c)
  BY <1>1, <1>2
<1>7. u \in Seq(S) /\ Len(u) = Len(c) - n
  BY <1>2, <1>6, SuffixFacts
<1>8. \A j \in 1 .. Len(u) : u[j] = c[n + j]
  BY <1>2, <1>6, SuffixFacts
<1>9. v \in Seq(S) /\ Len(v) = Len(r) + l
  BY <1>4, ConcatProperties DEF l
<1>10. \A j \in 1 .. Len(r) + l : v[j] = IF j <= Len(r) THEN r[j] ELSE t[j - Len(r)]
  BY <1>4, ConcatProperties DEF l
<1> HIDE DEF u, v
<1>11. Len(u) = (k + l) - n /\ Len(v) = (k - n) + l /\ Len(u) = Len(v)
  BY <1>1, <1>2, <1>4, <1>7, <1>9
<1>12. ASSUME NEW j \in 1 .. Len(u) PROVE u[j] = v[j]
  <2>1. j \in Nat /\ 1 <= j /\ n + j \in 1 .. k + l /\ j \in 1 .. (k - n) + l
    BY <1>1, <1>11
  <2>2. CASE j <= k - n
    <3>1. n + j <= k /\ j \in 1 .. k - n
      BY <1>1, <2>1, <2>2
    <3>2. u[j] = s[n + j]
      BY <1>3, <1>8, <2>1, <3>1
    <3>3. v[j] = r[j]
      BY <1>1, <1>4, <1>10, <2>1, <3>1
    <3>4. QED
      BY <1>5, <3>1, <3>2, <3>3
  <2>3. CASE ~ (j <= k - n)
    <3>1. ~ (n + j <= k) /\ (n + j) - k = j - (k - n)
      BY <1>1, <2>1, <2>3
    <3>2. u[j] = t[(n + j) - k]
      BY <1>3, <1>8, <2>1, <3>1
    <3>3. v[j] = t[j - (k - n)]
      BY <1>4, <1>10, <2>1, <2>3
    <3>4. QED
      BY <3>1, <3>2, <3>3
  <2>4. QED
    BY <2>2, <2>3
<1>13. u = v
  BY <1>7, <1>9, <1>11, <1>12, SeqEqual
<1>14. QED
  BY <1>13 DEF u, v, c, r

\* What is left of a sequence after one more element is dropped.
LEMMA SuffixTail ==
  ASSUME NEW S, NEW s \in Seq(S), NEW n \in Nat, n < Len(s)
  PROVE  /\ SubSeq(s, n + 1, Len(s)) # << >>
         /\ Head(SubSeq(s, n + 1, Len(s))) = s[n + 1]
         /\ Tail(SubSeq(s, n + 1, Len(s))) = SubSeq(s, n + 2, Len(s))
<1> DEFINE r == SubSeq(s, n + 1, Len(s))
           u == SubSeq(s, (n + 1) + 1, Len(s))
<1>1. Len(s) \in Nat /\ n <= Len(s) /\ n + 1 \in Nat /\ n + 1 <= Len(s)
  OBVIOUS
<1>2. r \in Seq(S) /\ Len(r) = Len(s) - n /\ \A j \in 1 .. Len(r) : r[j] = s[n + j]
  BY <1>1, SuffixFacts
<1>3. u \in Seq(S) /\ Len(u) = Len(s) - (n + 1) /\ \A j \in 1 .. Len(u) : u[j] = s[(n + 1) + j]
  BY <1>1, SuffixFacts
<1> HIDE DEF r, u
<1>4. Len(r) \in Nat /\ 1 <= Len(r) /\ r # << >>
  BY <1>1, <1>2
<1>5. Head(r) = s[n + 1]
  BY <1>2, <1>4
<1>6. Tail(r) \in Seq(S) /\ Len(Tail(r)) = Len(r) - 1 /\ \A j \in 1 .. Len(Tail(r)) : Tail(r)[j] = r[j + 1]
  BY <1>2, <1>4
<1>7. ASSUME NEW j \in 1 .. Len(Tail(r)) PROVE Tail(r)[j] = u[j]
  <2>1. j + 1 \in 1 .. Len(r) /\ j \in 1 .. Len(u) /\ n + (j + 1) = (n + 1) + j
    BY <1>1, <1>2, <1>3, <1>4, <1>6
  <2>2. Tail(r)[j] = s[n + (j + 1)] /\ u[j] = s[(n + 1) + j]
    BY <1>2, <1>3, <1>6, <2>1
  <2>3. QED
    BY <2>1, <2>2
<1>8. Len(Tail(r)) = Len(u)
  BY <1>1, <1>2, <1>3, <1>6
<1>9. Tail(r) = u
  BY <1>3, <1>6, <1>7, <1>8, SeqEqual
<1>10. (n + 1) + 1 = n + 2
  OBVIOUS
<1>11. QED
  BY <1>4, <1>5, <1>9, <1>10 DEF r, u

\* On an open session the bytes already sent are those the mapping takes off
\* the front of the buffer, wherever the send is.
LEMMA AlreadySentIsSent ==
  ASSUME RInv, socket = "open"
  PROVE  AlreadySent = Sent
<1>1. TypeOK /\ SentInv /\ FlushInv /\ UnsentInv
  BY DEF RInv, IInv
<1>2. pendingSend \in Seq(Op) /\ port \in Seq(Completion)
  BY <1>1 DEF TypeOK, KernelType
<1>3. CASE pendingSend # << >>
  <2>1. Head(pendingSend) = pendingSend[1]
    BY <1>2, <1>3
  <2>2. QED
    BY <1>1, <1>3, <2>1 DEF AlreadySent, SentInv
<1>4. CASE pendingSend = << >> /\ port # << >>
  <2>1. Head(port) = port[1]
    BY <1>2, <1>4
  <2>2. QED
    BY <1>1, <1>4, <2>1 DEF AlreadySent, SentInv, FlushInv
<1>5. CASE pendingSend = << >> /\ port = << >> /\ \E w \in Workers : pc[w] = "onsend"
  <2> DEFINE w0 == CHOOSE w \in Workers : pc[w] = "onsend"
  <2>1. w0 \in Workers /\ pc[w0] = "onsend"
    BY <1>5
  <2>2. AlreadySent = transferred[w0]
    BY <1>5 DEF AlreadySent
  <2> HIDE DEF w0
  <2>3. QED
    BY <1>1, <2>1, <2>2 DEF SentInv
<1>6. CASE pendingSend = << >> /\ port = << >> /\ ~ \E w \in Workers : pc[w] = "onsend"
  BY <1>1, <1>6 DEF AlreadySent, UnsentInv
<1>7. QED
  BY <1>3, <1>4, <1>5, <1>6

\* How many bytes are on the wire and still buffered.
LEMMA SentBounds ==
  ASSUME IInv
  PROVE  Sent \in Nat /\ Sent <= Len(m_pSendBuffer) /\ Len(m_pSendBuffer) \in Nat
<1>1. TypeOK /\ BufferInv /\ WireIsPrefixOfAccepted
  BY DEF IInv
<1>2. Len(m_pSendBuffer) \in Nat /\ Len(accepted) \in Nat /\ Len(wire) \in Nat
  BY <1>1, EmptyLen DEF TypeOK, BufferType
<1>3. QED
  BY <1>1, <1>2 DEF BufferInv, WireIsPrefixOfAccepted, Sent

\* The bytes not sent yet: what the buffer holds beyond the sent ones.
Rest == SubSeq(m_pSendBuffer, Sent + 1, Len(m_pSendBuffer))

\* The abstract queue, told by Sent.
LEMMA UnsentIsRest ==
  RInv /\ ~ stale => Unsent = IF socket = "open" THEN Rest ELSE << >>
  BY AlreadySentIsSent DEF Unsent, Rest

\* Steps that neither start nor finish a send, nor put a byte on the wire.
LEMMA KeepUnsent ==
  ASSUME UnsentInv, UNCHANGED <<socket, port, lostBytes>>, Sent' = Sent,
         pendingSend' = << >> => pendingSend = << >>,
         \A v \in Workers : pc[v] = "onsend" => pc'[v] = "onsend"
  PROVE  UnsentInv'
  BY DEF UnsentInv

\* A worker moves between labels other than "onsend".
LEMMA KeepOnSend ==
  ASSUME TypeOK, NEW w \in Workers, pc[w] # "onsend",
         pc' = pc \/ \E l \in Labels : pc' = [pc EXCEPT ![w] = l]
  PROVE  \A v \in Workers : pc[v] = "onsend" => pc'[v] = "onsend"
  BY DEF TypeOK, ThreadType

\* Before and after a step.
LEMMA UnsentAround ==
  ASSUME RInv, RInv', ~ stale, ~ stale'
  PROVE  /\ Unsent = IF socket = "open" THEN Rest ELSE << >>
         /\ Unsent' = IF socket' = "open" THEN Rest' ELSE << >>
<1>1. RInv' /\ ~ stale' => (Unsent = IF socket = "open" THEN Rest ELSE << >>)'
  BY UnsentIsRest, PTL
<1>2. QED
  BY <1>1, UnsentIsRest

\* The abstract steps under the refinement mapping.
LEMMA AbstractSteps ==
  ASSUME ~ stale, ~ stale',
         \/ UNCHANGED <<Unsent, wire, socket>>
         \/ /\ socket # "open" /\ socket' # "open"
            /\ UNCHANGED <<Unsent, wire>>
         \/ /\ socket = "open" /\ UNCHANGED <<wire, socket>>
            /\ \E p \in Packets : /\ Len(Unsent) + Len(p) <= BUFFER_SIZE
                                  /\ Unsent' = Unsent \o p
         \/ /\ socket = "open" /\ UNCHANGED socket
            /\ Unsent # << >>
            /\ wire' = Append(wire, Head(Unsent))
            /\ Unsent' = Tail(Unsent)
         \/ /\ socket = "open" /\ socket' # "open"
            /\ Unsent' = << >> /\ UNCHANGED wire
  PROVE  [Stream!StreamNext]_(Stream!streamVars)
  BY DEF Stream!StreamNext, Stream!streamVars, Stream!Accept, Stream!Deliver,
         Stream!Disconnect, Unsent

\* Steps that leave the send, the buffer and the wire alone.
LEMMA SilentStep ==
  ASSUME RInv, RInv', ~ stale, ~ stale', UNCHANGED <<socket, m_pSendBuffer, accepted, wire>>
  PROVE  [Stream!StreamNext]_(Stream!streamVars)
<1>1. Sent' = Sent
  BY DEF Sent
<1>2. Rest' = Rest
  BY <1>1 DEF Rest
<1>3. UNCHANGED <<Unsent, wire, socket>>
  BY <1>2, UnsentAround
<1>4. QED
  BY <1>3, AbstractSteps

\* Queueing a packet is Accept while the socket is open, and nothing after.
LEMMA EnqueueIsAccept ==
  ASSUME RInv, RInv', ~ stale, ~ stale', NEW p \in Packets, Fits(p), EnqueueSendBuffer(p),
         UNCHANGED <<socket, wire>>
  PROVE  [Stream!StreamNext]_(Stream!streamVars)
<1> DEFINE b == m_pSendBuffer
<1>1. b \in Seq(Byte) /\ p \in Seq(Byte) /\ TypeOK /\ BufferInv /\ WireIsPrefixOfAccepted
  BY PacketsAssumption DEF RInv, IInv, TypeOK, BufferType
<1>2. Sent \in Nat /\ Sent <= Len(b) /\ Len(b) \in Nat /\ Len(p) \in Nat
  BY <1>1, SentBounds DEF RInv
<1>3. Sent' = Sent
  BY <1>1, EnqueueBytes
<1>4. b' = b \o p /\ Len(b') = Len(b) + Len(p)
  BY <1>1 DEF EnqueueSendBuffer
<1>5. Rest' = Rest \o p
  BY <1>1, <1>2, <1>3, <1>4, SuffixConcat DEF Rest
<1>6. CASE socket = "open"
  <2>1. Unsent = Rest /\ Unsent' = Unsent \o p
    BY <1>5, <1>6, UnsentAround
  <2>2. Len(Rest) = Len(b) - Sent
    BY <1>1, <1>2, SuffixFacts DEF Rest
  <2>3. Len(Unsent) + Len(p) <= BUFFER_SIZE
    BY <1>2, <2>1, <2>2, SizeAssumption DEF Fits
  <2>4. QED
    BY <1>6, <2>1, <2>3, AbstractSteps
<1>7. CASE socket # "open"
  <2>1. UNCHANGED <<Unsent, wire, socket>>
    BY <1>7, UnsentAround
  <2>2. QED
    BY <2>1, AbstractSteps
<1>8. QED
  BY <1>6, <1>7

\* OnSend takes sent bytes out of the buffer: the unsent ones stay.
LEMMA OnSendIsSilent ==
  ASSUME RInv, RInv', ~ stale, ~ stale', NEW w \in Workers, OnSend(w)
  PROVE  [Stream!StreamNext]_(Stream!streamVars)
<1>1. pc[w] = "onsend" /\ transferred[w] = Sent
  BY DEF OnSend, RInv, IInv, SentInv
<1>2. UNCHANGED <<socket, wire, accepted>> /\ m_pSendBuffer' = Rest
  BY <1>1 DEF OnSend, ThrowAway, kernelVars, Rest
<1>3. /\ m_pSendBuffer \in Seq(Byte) /\ Sent \in Nat /\ Sent <= Len(m_pSendBuffer)
      /\ Len(m_pSendBuffer) \in Nat
  BY SentBounds DEF RInv, IInv, TypeOK, BufferType
<1>4. Rest \in Seq(Byte) /\ Len(Rest) = Len(m_pSendBuffer) - Sent
  BY <1>3, SuffixFacts DEF Rest
<1>5. Sent' = 0
  <2>1. Len(accepted) \in Nat /\ Len(wire) \in Nat
    BY EmptyLen DEF RInv, IInv, TypeOK, BufferType
  <2>2. Len(m_pSendBuffer') = Len(m_pSendBuffer) - Sent
    BY <1>2, <1>4
  <2>3. QED
    BY <1>2, <1>3, <2>1, <2>2 DEF Sent
<1>6. Rest' = SubSeq(Rest, 1, Len(Rest))
  BY <1>2, <1>5 DEF Rest
<1>7. Rest' = Rest
  <2>1. SubSeq(Rest, 1, Len(Rest)) = Rest
    <3> HIDE DEF Rest
    <3>1. QED
      BY <1>4
  <2>2. QED
    BY <1>6, <2>1
<1>8. UNCHANGED <<Unsent, wire, socket>>
  BY <1>2, <1>7, UnsentAround
<1>9. QED
  BY <1>8, AbstractSteps

\* The kernel's next byte is the oldest of the unsent ones.
LEMMA TransmitIsDeliver ==
  ASSUME RInv, RInv', ~ stale, ~ stale', Transmit
  PROVE  [Stream!StreamNext]_(Stream!streamVars)
<1>1. TypeOK /\ OneOnItsWay /\ SentInv
  BY DEF RInv, IInv
<1>2. /\ Len(pendingSend) = 1 /\ pendingSend[1].done + 1 \in 1 .. Len(m_pSendBuffer)
      /\ wire' = Append(wire, m_pSendBuffer[pendingSend[1].done + 1])
  BY <1>1, TransmitStep
<1>3. pendingSend # << >>
  <2>1. Len(pendingSend) = 1
    BY <1>2
  <2>2. QED
    BY <2>1, LenOfEmpty
<1>4. pendingSend[1].done = Sent
  BY <1>1, <1>3 DEF SentInv
<1>5. socket = "open" /\ UNCHANGED <<socket, m_pSendBuffer, accepted>>
  BY DEF Transmit, bufferVars
<1>6. /\ m_pSendBuffer \in Seq(Byte) /\ Sent \in Nat /\ Len(m_pSendBuffer) \in Nat
      /\ Len(wire) \in Nat /\ Len(accepted) \in Nat /\ wire \in Seq(Byte)
  BY SentBounds, EmptyLen DEF RInv, IInv, TypeOK, BufferType
<1>7. Sent < Len(m_pSendBuffer) /\ wire' = Append(wire, m_pSendBuffer[Sent + 1])
  BY <1>2, <1>4, <1>6
<1>8. Sent' = Sent + 1
  <2>1. Len(wire') = Len(wire) + 1
    BY <1>6, <1>7
  <2>2. QED
    BY <1>5, <1>6, <2>1 DEF Sent
<1>9. /\ Rest # << >> /\ Head(Rest) = m_pSendBuffer[Sent + 1]
      /\ Tail(Rest) = SubSeq(m_pSendBuffer, Sent + 2, Len(m_pSendBuffer))
  BY <1>6, <1>7, SuffixTail DEF Rest
<1>10. Rest' = Tail(Rest)
  <2>1. Sent' + 1 = Sent + 2
    BY <1>6, <1>8
  <2>2. QED
    BY <1>5, <1>9, <2>1 DEF Rest
<1>11. Unsent = Rest /\ Unsent' = Rest'
  BY <1>5, UnsentAround
<1>12. QED
  BY <1>5, <1>7, <1>9, <1>10, <1>11, AbstractSteps

\* The socket goes away: Disconnect, once.
LEMMA AbortIsDisconnect ==
  ASSUME RInv, RInv', ~ stale, ~ stale', (\E w \in Workers : CloseSocket(w)) \/ PeerReset
  PROVE  [Stream!StreamNext]_(Stream!streamVars)
<1>1. socket' # "open" /\ UNCHANGED wire
  BY DEF CloseSocket, PeerReset
<1>2. Unsent' = << >> /\ (socket # "open" => Unsent = << >>)
  BY <1>1, UnsentAround
<1>3. QED
  BY <1>1, <1>2, AbstractSteps

\* UnsentInv is preserved.
LEMMA UnsentStep ==
  ASSUME RInv, IInv', ~ stale, ~ stale', [Next]_vars
  PROVE  UnsentInv'
<1>1. /\ TypeOK /\ OneOnItsWay /\ PendingInv /\ SentInv /\ FlushInv /\ BufferInv
      /\ WireIsPrefixOfAccepted /\ UnsentInv
  BY DEF RInv, IInv
<1>2. pc \in [Workers -> Labels] /\ resume \in [Workers -> Resumes]
  BY <1>1 DEF TypeOK, ThreadType
<1>3. ASSUME NEW w \in Workers,
             \/ OnReceived(w) \/ OnReceiveEnded(w) \/ ProcessUnknown(w)
             \/ ProcessBroadcast(w) \/ EndOfPackets(w) \/ FlushSendBuffer(w)
             \/ WSASend(w) \/ RecvAsync(w) \/ AfterSend(w) \/ SetClosing(w)
      PROVE  UnsentInv'
  <2>1. UNCHANGED <<socket, port, lostBytes, bufferVars, wire>>
    BY <1>3 DEF OnReceived, OnReceiveEnded, ProcessUnknown, ProcessBroadcast,
                EndOfPackets, FlushSendBuffer, WSASend, RecvAsync, AfterSend,
                SetClosing, kernelVars
  <2>2. pendingSend' = << >> => pendingSend = << >>
    <3>1. CASE WSASend(w)
      BY <1>1, <3>1 DEF WSASend, OneOnItsWay, Posting
    <3>2. CASE ~ WSASend(w)
      BY <1>3, <3>2 DEF OnReceived, OnReceiveEnded, ProcessUnknown, ProcessBroadcast,
                EndOfPackets, FlushSendBuffer, RecvAsync, AfterSend, SetClosing,
                kernelVars
    <3>3. QED
      BY <3>1, <3>2
  <2>3. pc[w] # "onsend" /\ \E l : pc' = [pc EXCEPT ![w] = l]
    BY <1>3 DEF OnReceived, OnReceiveEnded, ProcessUnknown, ProcessBroadcast,
                EndOfPackets, FlushSendBuffer, WSASend, RecvAsync, AfterSend,
                SetClosing, Goto
  <2>4. \A v \in Workers : pc[v] = "onsend" => pc'[v] = "onsend"
    BY <1>2, <2>3
  <2>5. QED
    BY <1>1, <2>1, <2>2, <2>4, SameBytes, KeepUnsent
<1>4. ASSUME NEW w \in Workers, ProcessEcho(w) \/ WriteBroadcast(w)
      PROVE  UnsentInv'
  <2>1. UNCHANGED kernelVars
    BY <1>4 DEF ProcessEcho, WriteBroadcast
  <2>2. UNCHANGED bufferVars \/ \E p \in Packets : EnqueueSendBuffer(p)
    BY <1>4 DEF ProcessEcho, WriteBroadcast
  <2>3. Sent' = Sent
    BY <1>1, <2>1, <2>2, SameBytes, EnqueueBytes DEF kernelVars
  <2>4. pc[w] # "onsend" /\ (pc' = pc \/ \E l : pc' = [pc EXCEPT ![w] = l])
    BY <1>4 DEF ProcessEcho, WriteBroadcast, Goto
  <2>5. \A v \in Workers : pc[v] = "onsend" => pc'[v] = "onsend"
    BY <1>2, <2>4
  <2>6. QED
    BY <1>1, <2>1, <2>3, <2>5, KeepUnsent DEF kernelVars
<1>5. ASSUME NEW w \in Workers, SendCompletion(w) PROVE UnsentInv'
  <2>1. port # << >> /\ UNCHANGED <<socket, m_SendIoState>>
    BY <1>5 DEF SendCompletion
  <2>2. m_SendIoState = "IO_PENDING" /\ Head(port) = port[1]
    BY <2>1, QueuedCompletion DEF RInv
  <2>3. socket = "open" => pc' = [pc EXCEPT ![w] = "onsend"]
    BY <1>1, <1>5, <2>1, <2>2 DEF SendCompletion, FlushInv, Goto
  <2>4. socket' = "open" => pc'[w] = "onsend"
    BY <1>2, <2>1, <2>3
  <2>5. QED
    BY <2>4 DEF UnsentInv
<1>6. ASSUME NEW w \in Workers, OnSend(w) PROVE UnsentInv'
  <2>1. Posting(w) /\ UNCHANGED lostBytes /\ m_SendIoState' = "IO_CONNECTED"
    BY <1>6 DEF OnSend, Posting, kernelVars
  <2>2. lostBytes' = 0
    BY <1>1, <2>1 DEF PendingInv, TypeOK, KernelType
  <2>3. Sent' = 0
    BY <2>1 DEF IInv, SentInv
  <2>4. QED
    BY <2>2, <2>3 DEF UnsentInv
<1>7. CASE (\E w \in Workers : CloseSocket(w)) \/ PeerReset
  BY <1>7 DEF CloseSocket, PeerReset, UnsentInv
<1>8. CASE Transmit
  <2>1. Len(pendingSend') = 1
    BY <1>1, <1>8, TransmitStep DEF TypeOK, KernelType
  <2>2. pendingSend' # << >>
    BY <2>1, LenOfEmpty
  <2>3. QED
    BY <2>2 DEF UnsentInv
<1>9. CASE Complete
  <2>1. pendingSend # << >> /\ pendingSend \in Seq(Op)
    BY <1>1, <1>9 DEF Complete, TypeOK, KernelType
  <2>2. Head(pendingSend).done = Sent /\ lostBytes = 0
    <3>1. Head(pendingSend) = pendingSend[1]
      BY <2>1
    <3>2. QED
      BY <1>1, <2>1, <3>1 DEF SentInv, PendingInv, TypeOK, KernelType
  <2>3. Sent' = Sent /\ Sent \in Nat
    BY <1>1, <1>9, SameBytes, SentBounds DEF Complete, RInv
  <2>4. CASE bound
    <3> DEFINE c == [ok |-> TRUE, bytes |-> Head(pendingSend).done]
    <3>1. port' = Append(port, c) /\ port \in Seq(Completion)
      BY <1>1, <1>9, <2>4 DEF Complete, TypeOK, KernelType
    <3> HIDE DEF c
    <3>2. port' # << >>
      BY <3>1
    <3>3. QED
      BY <3>2 DEF UnsentInv
  <2>5. CASE ~ bound
    <3>1. lostBytes' = Sent'
      BY <1>9, <2>2, <2>3, <2>5 DEF Complete
    <3>2. QED
      BY <3>1 DEF UnsentInv
  <2>6. QED
    BY <2>4, <2>5
<1>10. CASE BindSocket \/ UNCHANGED vars
  <2>1. UNCHANGED <<socket, pendingSend, port, lostBytes, bufferVars, wire, pc>>
    BY <1>10 DEF BindSocket, vars, bufferVars
  <2>2. QED
    BY <1>1, <2>1, SameBytes, KeepUnsent
<1>11. ASSUME NEW w \in Workers, FormerCompletion(w) PROVE UnsentInv'
  <2>1. UNCHANGED <<socket, pendingSend, port, lostBytes, bufferVars, wire>>
    BY <1>11 DEF FormerCompletion
  <2>2. pc[w] # "onsend" /\ (pc' = pc \/ \E l : pc' = [pc EXCEPT ![w] = l])
    BY <1>11 DEF FormerCompletion, Goto
  <2>3. \A v \in Workers : pc[v] = "onsend" => pc'[v] = "onsend"
    BY <1>2, <2>2
  <2>4. QED
    BY <1>1, <2>1, <2>3, SameBytes, KeepUnsent
<1>12. \A w \in Workers : ~ OnSendThrows(w)
  BY NoThrowStep DEF RInv
<1>13. QED
  BY <1>3, <1>4, <1>5, <1>6, <1>7, <1>8, <1>9, <1>10, <1>11, <1>12 DEF Next, Proceed

\* Each step of the workers and the kernel is a step of the stream, or none.
LEMMA StepImplements ==
  ASSUME RInv, RInv', ~ stale, ~ stale', [Next]_vars
  PROVE  [Stream!StreamNext]_(Stream!streamVars)
<1>1. ASSUME NEW w \in Workers,
             \/ OnReceived(w) \/ OnReceiveEnded(w) \/ ProcessUnknown(w)
             \/ ProcessBroadcast(w) \/ EndOfPackets(w) \/ FlushSendBuffer(w)
             \/ WSASend(w) \/ RecvAsync(w) \/ AfterSend(w) \/ SetClosing(w)
             \/ SendCompletion(w) \/ FormerCompletion(w)
      PROVE  [Stream!StreamNext]_(Stream!streamVars)
  <2>1. UNCHANGED <<socket, bufferVars, wire>>
    BY <1>1 DEF OnReceived, OnReceiveEnded, ProcessUnknown, ProcessBroadcast,
                EndOfPackets, FlushSendBuffer, WSASend, RecvAsync, AfterSend,
                SetClosing, SendCompletion, FormerCompletion, kernelVars
  <2>2. QED
    BY <2>1, SilentStep DEF bufferVars
<1>2. ASSUME NEW w \in Workers, ProcessEcho(w) \/ WriteBroadcast(w)
      PROVE  [Stream!StreamNext]_(Stream!streamVars)
  <2>1. UNCHANGED <<socket, wire>>
    BY <1>2 DEF ProcessEcho, WriteBroadcast, kernelVars
  <2>2. UNCHANGED bufferVars \/ \E p \in Packets : Fits(p) /\ EnqueueSendBuffer(p)
    BY <1>2 DEF ProcessEcho, WriteBroadcast
  <2>3. QED
    BY <2>1, <2>2, SilentStep, EnqueueIsAccept DEF bufferVars
<1>3. CASE BindSocket \/ Complete \/ UNCHANGED vars
  <2>1. UNCHANGED <<socket, bufferVars, wire>>
    BY <1>3 DEF BindSocket, Complete, vars, bufferVars
  <2>2. QED
    BY <2>1, SilentStep DEF bufferVars
<1>4. \A w \in Workers : ~ OnSendThrows(w)
  BY NoThrowStep DEF RInv
<1>5. QED
  BY <1>1, <1>2, <1>3, <1>4, OnSendIsSilent, TransmitIsDeliver, AbortIsDisconnect
  DEF Next, Proceed

\* To the stream, a foreign completion that is applied is the end of the
\* connection; whatever the workers do after it is not seen there.
LEMMA StaleImplements ==
  ASSUME TypeOK, WireIsPrefixOfAccepted, stale', [Next]_vars
  PROVE  [Stream!StreamNext]_(Stream!streamVars)
<1>1. UNCHANGED wire
  BY StaleWire
<1>2. Unsent' = << >>
  BY DEF Unsent
<1>3. CASE stale \/ socket # "open"
  <2>1. Unsent = << >>
    BY <1>3 DEF Unsent
  <2>2. QED
    BY <1>1, <1>2, <1>3, <2>1 DEF Stream!streamVars, Unsent
<1>4. CASE ~ stale /\ socket = "open"
  BY <1>1, <1>2, <1>4
  DEF Stream!StreamNext, Stream!streamVars, Stream!Disconnect, Unsent
<1>5. QED
  BY <1>3, <1>4

\* The workers, the lock, IO_STATE and the overlapped sends of a TcpClient
\* together implement the byte stream of SendStream, for any number of workers,
\* any packets and any buffer size, up to the first completion that was not the
\* session's own.
THEOREM SendRefinement == Spec => ImplementsSendStream
<1>1. Init => (~ stale => UnsentInv) /\ Stream!StreamInit
  <2> SUFFICES ASSUME Init PROVE (~ stale => UnsentInv) /\ Stream!StreamInit
    OBVIOUS
  <2>1. Sent = 0
    BY LenOfEmpty DEF Init, Sent
  <2>2. UnsentInv
    BY <2>1 DEF Init, UnsentInv
  <2>3. Unsent = Rest
    BY <2>2, InitIInv, UnsentIsRest DEF Init, RInv
  <2>4. Rest = << >>
    BY <2>1 DEF Init, Rest
  <2>5. QED
    BY <2>2, <2>3, <2>4 DEF Stream!StreamInit, Unsent, Init
<1>2. Safe /\ Safe' /\ (~ stale => UnsentInv) /\ [Next]_vars
        => (~ stale' => UnsentInv')
  BY UnsentStep, StaleForEver DEF RInv, Safe
<1>3. Safe /\ Safe' /\ (~ stale => UnsentInv) /\ (~ stale' => UnsentInv') /\ [Next]_vars
        => [Stream!StreamNext]_(Stream!streamVars)
  <2> SUFFICES ASSUME Safe, Safe', ~ stale => UnsentInv, ~ stale' => UnsentInv',
                      [Next]_vars
               PROVE  [Stream!StreamNext]_(Stream!streamVars)
    OBVIOUS
  <2>1. CASE stale'
    BY <2>1, StaleImplements DEF Safe
  <2>2. CASE ~ stale'
    <3>1. ~ stale
      BY <2>2, StaleForEver
    <3>2. QED
      BY <2>2, <3>1, StepImplements DEF RInv, Safe
  <2>3. QED
    BY <2>1, <2>2
<1>4. QED
  BY <1>1, <1>2, <1>3, Inductive, PTL
  DEF Spec, ImplementsSendStream, Stream!StreamSpec
=============================================================================
