---------------------------- MODULE PulledBuffer ----------------------------
(***************************************************************************)
(* The memory of a PulledBuffer.  The receive side hands the kernel a      *)
(* pointer behind the data (GetEmptyPtr), takes over what was put there    *)
(* (ForceAddLength) and reads packets from the front; the send side writes *)
(* behind the data while the kernel reads from the front (GetPtr).  Both   *)
(* pull the rest to the front through a temporary copy.                    *)
(*                                                                         *)
(* SendPath and RecvPath use the buffer as the byte queue it is shown to   *)
(* be here.                                                                *)
(***************************************************************************)
EXTENDS Integers, Sequences

CONSTANTS
  BUFFER_SIZE,
  Bytes,         \* the values of a byte, 0 among them
  MaxBytes       \* bound: bytes put into the buffer

VARIABLES
  m_Buffer, m_Length,
  side,          \* "recv" or "send": which buffer of a TcpClient it is
  io,            \* the operation the kernel has: its pointer and its length
  moved,         \* bytes the kernel has read or written for it
  terminated,    \* a throw with nothing to rethrow
  accepted,      \* history: the bytes put in
  taken          \* history: the bytes got out

vars == <<m_Buffer, m_Length, side, io, moved, terminated, accepted, taken>>

Index   == 1 .. BUFFER_SIZE
Chunks(n) == UNION {[1 .. k -> Bytes] : k \in 1 .. n}
NoIo    == [at |-> 0, len |-> 0]
NoBytes == << >>

\* memset and memcpy_s: s stored behind the first `at' bytes of mem.
Zeroes == [i \in Index |-> 0]
Stored(mem, at, s) == [i \in Index |-> IF i - at \in 1 .. Len(s) THEN s[i - at] ELSE mem[i]]

Contents == [i \in 1 .. m_Length |-> m_Buffer[i]]
GetEmptyLength == BUFFER_SIZE - m_Length

Init ==
  /\ m_Buffer = Zeroes /\ m_Length = 0
  /\ side \in {"recv", "send"}
  /\ io = NoIo /\ moved = NoBytes
  /\ terminated = FALSE
  /\ accepted = << >> /\ taken = << >>

PullFrom_Zero(n) == 0
PullFrom(n) == n

\* What Read and ThrowAway have in common: shorten, copy out, clear, write back.
Pull(n) ==
  LET left == m_Length - n
      temp == [i \in 1 .. left |-> m_Buffer[PullFrom(n) + i]] IN
  /\ m_Length' = left
  /\ m_Buffer' = IF left > 0 THEN Stored(Zeroes, 0, temp) ELSE m_Buffer

-----------------------------------------------------------------------------
(* The send buffer.                                                        *)

Write(s) ==
  /\ side = "send" /\ ~ terminated /\ Len(accepted) + Len(s) <= MaxBytes
  /\ IF m_Length + Len(s) > BUFFER_SIZE THEN UNCHANGED <<m_Buffer, m_Length, accepted>>
     ELSE /\ m_Buffer' = Stored(m_Buffer, m_Length, s)
          /\ m_Length' = m_Length + Len(s)
          /\ accepted' = accepted \o s
  /\ UNCHANGED <<side, io, moved, terminated, taken>>

\* WSASend of GetPtr and GetLength.
SendAsync ==
  /\ side = "send" /\ io = NoIo /\ m_Length > 0 /\ ~ terminated
  /\ io' = [at |-> 0, len |-> m_Length]
  /\ UNCHANGED <<m_Buffer, m_Length, side, moved, terminated, accepted, taken>>

\* The kernel reads the buffer a byte at a time.
Transmit ==
  /\ side = "send" /\ Len(moved) < io.len
  /\ moved' = Append(moved, m_Buffer[Len(moved) + 1])
  /\ UNCHANGED <<m_Buffer, m_Length, side, io, terminated, accepted, taken>>

\* OnSend: ThrowAway what was transferred.
ThrowAway ==
  /\ side = "send" /\ moved # NoBytes /\ ~ terminated
  /\ IF Len(moved) > m_Length THEN terminated' = TRUE /\ UNCHANGED <<m_Buffer, m_Length>>
     ELSE Pull(Len(moved)) /\ UNCHANGED terminated
  /\ io' = NoIo /\ moved' = NoBytes
  /\ taken' = taken \o moved
  /\ UNCHANGED <<side, accepted>>

-----------------------------------------------------------------------------
(* The receive buffer.                                                     *)

RecvAsync ==
  /\ side = "recv" /\ io = NoIo /\ GetEmptyLength > 0 /\ ~ terminated
  /\ io' = [at |-> m_Length, len |-> GetEmptyLength]
  /\ UNCHANGED <<m_Buffer, m_Length, side, moved, terminated, accepted, taken>>

\* The kernel writes behind the pointer it was given.
Deliver(s) ==
  /\ side = "recv" /\ moved = NoBytes /\ Len(s) <= io.len /\ Len(accepted) + Len(s) <= MaxBytes
  /\ m_Buffer' = Stored(m_Buffer, io.at, s)
  /\ moved' = s
  /\ UNCHANGED <<m_Length, side, io, terminated, accepted, taken>>

\* OnReceived.
ForceAddLength ==
  /\ side = "recv" /\ moved # NoBytes
  /\ m_Length' = m_Length + Len(moved)
  /\ accepted' = accepted \o moved
  /\ io' = NoIo /\ moved' = NoBytes
  /\ UNCHANGED <<m_Buffer, side, terminated, taken>>

\* TryProcessPacket reads between a receive and the next.
Read(n) ==
  /\ side = "recv" /\ io = NoIo /\ ~ terminated
  /\ IF n > m_Length THEN terminated' = TRUE /\ UNCHANGED <<m_Buffer, m_Length, taken>>
     ELSE Pull(n) /\ taken' = taken \o SubSeq(m_Buffer, 1, n) /\ UNCHANGED terminated
  /\ UNCHANGED <<side, io, moved, accepted>>

Next ==
  \/ \E s \in Chunks(BUFFER_SIZE) : Write(s) \/ Deliver(s)
  \/ SendAsync \/ Transmit \/ ThrowAway \/ RecvAsync \/ ForceAddLength
  \/ \E n \in Index : Read(n)

Spec == Init /\ [][Next]_vars

-----------------------------------------------------------------------------

\* The buffer is a byte queue: what was read, or sent by the kernel while the
\* buffer was written to, followed by what it holds is what was put in, whatever
\* the cuts, however often the rest was pulled, and with the kernel's pointers
\* taken before.
IsByteQueue ==
  /\ m_Length \in 0 .. BUFFER_SIZE
  /\ taken \o Contents = accepted
=============================================================================
