----------------------------- MODULE PartsProofs ------------------------------
(***************************************************************************)
(* Proofs about the small parts, one at a time: the memory of a            *)
(* PulledBuffer is a byte queue; the pools hand each element to one        *)
(* thread; the sample client stays in step with its echo; the factory      *)
(* registry owns each factory once.  For any sizes, bytes, lines, names    *)
(* and threads.                                                            *)
(***************************************************************************)
EXTENDS MCParts, FiniteSetTheorems, SequenceTheorems, TLAPS

-----------------------------------------------------------------------------
(* PulledBuffer.                                                           *)

\* What a cell of the buffer can hold: memset clears with 0.
Cell == Bytes \cup {0}

\* The first k bytes of mem.
Front(mem, k) == [j \in 1 .. k |-> mem[j]]

TypeInv ==
  /\ m_Buffer \in [Index -> Cell]
  /\ m_Length \in 0 .. BUFFER_SIZE
  /\ side \in {"recv", "send"}
  /\ io \in [at : Nat, len : Nat]
  /\ moved \in Seq(Cell) /\ accepted \in Seq(Cell) /\ taken \in Seq(Cell)

\* The kernel never moves more than it was asked to, and nothing between two
\* operations.
IoInv ==
  /\ Len(moved) <= io.len
  /\ io # NoIo => io.len > 0

\* A pending send reads bytes the buffer still holds, from the front.
SendInv ==
  side = "send" => /\ io.len <= m_Length
                   /\ \A j \in 1 .. Len(moved) : moved[j] = m_Buffer[j]

\* A pending receive has the whole of the empty part, and what it got is there.
RecvInv ==
  side = "recv" /\ io # NoIo =>
    /\ io.at = m_Length /\ io.len = GetEmptyLength
    /\ \A j \in 1 .. Len(moved) : moved[j] = m_Buffer[m_Length + j]

BInv == TypeInv /\ IoInv /\ SendInv /\ RecvInv /\ IsByteQueue

-----------------------------------------------------------------------------
(* Facts about the memory.                                                 *)

\* The front of the buffer is a sequence.
LEMMA FrontFacts ==
  ASSUME BUFFER_SIZE \in Nat, NEW mem \in [Index -> Cell], NEW k \in 0 .. BUFFER_SIZE
  PROVE  /\ Front(mem, k) \in Seq(Cell)
         /\ Len(Front(mem, k)) = k
         /\ \A j \in 1 .. k : Front(mem, k)[j] = mem[j]
<1>1. \A j \in 1 .. k : mem[j] \in Cell
  BY DEF Index
<1>2. Front(mem, k) \in [1 .. k -> Cell]
  BY <1>1 DEF Front
<1>3. k \in Nat
  OBVIOUS
<1>4. QED
  BY <1>2, <1>3 DEF Front

\* Two fronts that agree are one sequence and the next behind it.
LEMMA FrontSplit ==
  ASSUME BUFFER_SIZE \in Nat, NEW mem \in [Index -> Cell], NEW k \in 0 .. BUFFER_SIZE,
         NEW s \in Seq(Cell), NEW t \in Seq(Cell), k = Len(s) + Len(t),
         \A j \in 1 .. Len(s) : s[j] = mem[j],
         \A j \in 1 .. Len(t) : t[j] = mem[Len(s) + j]
  PROVE  Front(mem, k) = s \o t
<1> DEFINE f == Front(mem, k)
           c == s \o t
           a == Len(s)
           b == Len(t)
<1>1. a \in Nat /\ b \in Nat /\ k = a + b
  OBVIOUS
<1>2. f \in Seq(Cell) /\ Len(f) = k /\ \A j \in 1 .. k : f[j] = mem[j]
  BY FrontFacts
<1>3. c \in Seq(Cell) /\ Len(c) = a + b
  BY ConcatProperties
<1>4. \A j \in 1 .. a + b : c[j] = IF j <= a THEN s[j] ELSE t[j - a]
  BY ConcatProperties
<1>5. /\ \A j \in 1 .. a : s[j] = mem[j]
      /\ \A j \in 1 .. b : t[j] = mem[a + j]
  OBVIOUS
<1> HIDE DEF f, c, a, b
<1>6. ASSUME NEW j \in 1 .. Len(f) PROVE f[j] = c[j]
  <2>1. j \in 1 .. a + b /\ j \in Nat /\ f[j] = mem[j]
    BY <1>1, <1>2
  <2>2. CASE j <= a
    BY <1>1, <1>4, <1>5, <2>1, <2>2
  <2>3. CASE ~ (j <= a)
    <3>1. j - a \in 1 .. b /\ a + (j - a) = j
      BY <1>1, <2>1, <2>3
    <3>2. c[j] = t[j - a] /\ t[j - a] = mem[a + (j - a)]
      BY <1>4, <1>5, <2>1, <2>3, <3>1
    <3>3. QED
      BY <2>1, <3>1, <3>2
  <2>4. QED
    BY <2>2, <2>3
<1>7. Len(f) = Len(c)
  BY <1>1, <1>2, <1>3
<1>8. f = c
  BY <1>2, <1>3, <1>6, <1>7, SeqEqual
<1>9. QED
  BY <1>8 DEF f, c

\* memcpy_s behind the first k bytes.
LEMMA StoredFacts ==
  ASSUME BUFFER_SIZE \in Nat, NEW mem \in [Index -> Cell], NEW k \in 0 .. BUFFER_SIZE,
         NEW s \in Seq(Cell), k + Len(s) <= BUFFER_SIZE
  PROVE  /\ Stored(mem, k, s) \in [Index -> Cell]
         /\ \A j \in 1 .. k : Stored(mem, k, s)[j] = mem[j]
         /\ \A j \in 1 .. Len(s) : Stored(mem, k, s)[k + j] = s[j]
<1> DEFINE n == Len(s)
<1>1. n \in Nat /\ k \in Nat /\ \A j \in 1 .. n : s[j] \in Cell
  OBVIOUS
<1>2. Stored(mem, k, s) = [j \in Index |-> IF j - k \in 1 .. n THEN s[j - k] ELSE mem[j]]
  BY DEF Stored
<1> HIDE DEF n
<1>3. Stored(mem, k, s) \in [Index -> Cell]
  BY <1>1, <1>2
<1>4. ASSUME NEW j \in 1 .. k PROVE Stored(mem, k, s)[j] = mem[j]
  <2>1. j \in Index /\ j - k \notin 1 .. n
    BY <1>1 DEF Index
  <2>2. QED
    BY <1>2, <2>1
<1>5. ASSUME NEW j \in 1 .. n PROVE Stored(mem, k, s)[k + j] = s[j]
  <2>1. k + j \in Index /\ (k + j) - k = j
    BY <1>1 DEF Index, n
  <2>2. QED
    BY <1>2, <2>1
<1>6. QED
  BY <1>3, <1>4, <1>5 DEF n

\* Pulling the rest to the front leaves the rest.
LEMMA PullFacts ==
  ASSUME BUFFER_SIZE \in Nat, m_Buffer \in [Index -> Cell], m_Length \in 0 .. BUFFER_SIZE,
         NEW n \in 0 .. m_Length, Pull(n)
  PROVE  /\ m_Buffer' \in [Index -> Cell]
         /\ m_Length' = m_Length - n /\ m_Length' \in 0 .. BUFFER_SIZE
         /\ Contents = Front(m_Buffer, n) \o Contents'
<1> DEFINE left == m_Length - n
           temp == [j \in 1 .. left |-> m_Buffer[n + j]]
<1>1. /\ m_Length' = left
      /\ m_Buffer' = IF left > 0 THEN Stored(Zeroes, 0, temp) ELSE m_Buffer
  BY DEF Pull, PullFrom
<1>2. left \in 0 .. BUFFER_SIZE /\ left \in Nat /\ n \in Nat /\ n \in 0 .. BUFFER_SIZE
  OBVIOUS
<1>3. \A j \in 1 .. left : n + j \in Index
  BY <1>2 DEF Index
<1>4. \A j \in 1 .. left : m_Buffer[n + j] \in Cell
  BY <1>3
<1>5. temp \in Seq(Cell) /\ Len(temp) = left /\ \A j \in 1 .. left : temp[j] = m_Buffer[n + j]
  BY <1>2, <1>4
<1> HIDE DEF temp
<1>6. /\ m_Buffer' \in [Index -> Cell]
      /\ \A j \in 1 .. left : m_Buffer'[j] = m_Buffer[n + j]
  <2>1. CASE left > 0
    <3>1. Zeroes \in [Index -> Cell] /\ 0 \in 0 .. BUFFER_SIZE /\ 0 + Len(temp) <= BUFFER_SIZE
      BY <1>2, <1>5 DEF Zeroes, Cell
    <3>2. /\ m_Buffer' \in [Index -> Cell]
          /\ \A j \in 1 .. Len(temp) : m_Buffer'[0 + j] = temp[j]
      BY <1>1, <1>5, <2>1, <3>1, StoredFacts
    <3>3. \A j \in 1 .. left : 0 + j = j
      BY <1>2
    <3>4. QED
      BY <1>5, <3>2, <3>3
  <2>2. CASE ~ (left > 0)
    BY <1>1, <1>2, <2>2
  <2>3. QED
    BY <2>1, <2>2
<1>7. /\ Contents' = Front(m_Buffer', left) /\ Contents' \in Seq(Cell)
      /\ Len(Contents') = left
  BY <1>1, <1>2, <1>6, FrontFacts DEF Contents, Front
<1>8. \A j \in 1 .. left : Contents'[j] = m_Buffer[n + j]
  BY <1>2, <1>6, <1>7, FrontFacts
<1>9. /\ Front(m_Buffer, n) \in Seq(Cell) /\ Len(Front(m_Buffer, n)) = n
      /\ \A j \in 1 .. n : Front(m_Buffer, n)[j] = m_Buffer[j]
  BY <1>2, FrontFacts
<1>10. Contents = Front(m_Buffer, m_Length)
  BY DEF Contents, Front
<1>11. m_Length = Len(Front(m_Buffer, n)) + Len(Contents')
  BY <1>2, <1>7, <1>9
<1>12. Front(m_Buffer, m_Length) = Front(m_Buffer, n) \o Contents'
  <2> DEFINE f == Front(m_Buffer, n)
             c == Contents'
  <2>1. f \in Seq(Cell) /\ c \in Seq(Cell) /\ m_Length = Len(f) + Len(c)
    BY <1>7, <1>9, <1>11
  <2>2. /\ \A j \in 1 .. Len(f) : f[j] = m_Buffer[j]
        /\ \A j \in 1 .. Len(c) : c[j] = m_Buffer[Len(f) + j]
    BY <1>7, <1>8, <1>9
  <2> HIDE DEF f, c
  <2>3. Front(m_Buffer, m_Length) = f \o c
    BY <2>1, <2>2, FrontSplit
  <2>4. QED
    BY <2>3 DEF f, c
<1>13. QED
  BY <1>1, <1>2, <1>6, <1>10, <1>12

\* Bytes are appended in any grouping.
LEMMA Regroup == \A s, t, u \in Seq(Cell) : (s \o t) \o u = s \o (t \o u)
  BY ConcatAssociative

\* Taking from the front what goes to the taken bytes.
LEMMA Take ==
  ASSUME BUFFER_SIZE \in Nat, TypeInv, IsByteQueue,
         NEW n \in 0 .. m_Length, Pull(n), taken' = taken \o Front(m_Buffer, n),
         UNCHANGED accepted
  PROVE  /\ m_Buffer' \in [Index -> Cell] /\ m_Length' = m_Length - n
         /\ taken' \in Seq(Cell) /\ IsByteQueue'
<1>1. /\ m_Buffer \in [Index -> Cell] /\ m_Length \in 0 .. BUFFER_SIZE
      /\ taken \in Seq(Cell) /\ taken \o Contents = accepted
  BY DEF TypeInv, IsByteQueue
<1>2. /\ m_Buffer' \in [Index -> Cell]
      /\ m_Length' = m_Length - n /\ m_Length' \in 0 .. BUFFER_SIZE
      /\ Contents = Front(m_Buffer, n) \o Contents'
  BY <1>1, PullFacts
<1>3. n \in 0 .. BUFFER_SIZE
  BY <1>1
<1>4. Front(m_Buffer, n) \in Seq(Cell)
  BY <1>1, <1>3, FrontFacts
<1>5. Contents' \in Seq(Cell)
  <2>1. Front(m_Buffer', m_Length') \in Seq(Cell)
    BY <1>2, FrontFacts
  <2>2. QED
    BY <2>1 DEF Contents, Front
<1>6. taken' \in Seq(Cell)
  BY <1>1, <1>4, ConcatProperties
<1>7. taken' \o Contents' = taken \o (Front(m_Buffer, n) \o Contents')
  BY <1>1, <1>4, <1>5, Regroup
<1>8. QED
  BY <1>1, <1>2, <1>6, <1>7 DEF IsByteQueue

\* Putting behind the contents what goes to the accepted bytes.
LEMMA Put ==
  ASSUME BUFFER_SIZE \in Nat, TypeInv, IsByteQueue, NEW s \in Seq(Cell),
         m_Length + Len(s) <= BUFFER_SIZE, m_Length' = m_Length + Len(s),
         m_Buffer' \in [Index -> Cell],
         \A j \in 1 .. m_Length : m_Buffer'[j] = m_Buffer[j],
         \A j \in 1 .. Len(s) : m_Buffer'[m_Length + j] = s[j],
         accepted' = accepted \o s, UNCHANGED taken
  PROVE  accepted' \in Seq(Cell) /\ IsByteQueue'
<1>1. /\ m_Buffer \in [Index -> Cell] /\ m_Length \in 0 .. BUFFER_SIZE
      /\ taken \in Seq(Cell) /\ taken \o Contents = accepted /\ accepted \in Seq(Cell)
  BY DEF TypeInv, IsByteQueue
<1>2. Len(s) \in Nat /\ m_Length' \in 0 .. BUFFER_SIZE
  BY <1>1
<1>3. /\ Contents = Front(m_Buffer, m_Length) /\ Contents \in Seq(Cell)
      /\ Len(Contents) = m_Length /\ \A j \in 1 .. m_Length : Contents[j] = m_Buffer[j]
  BY <1>1, FrontFacts DEF Contents, Front
<1>4. Contents' = Front(m_Buffer', m_Length')
  BY DEF Contents, Front
<1> DEFINE c == Contents
<1>5. Contents' = c \o s
  <2>1. c \in Seq(Cell) /\ m_Length' = Len(c) + Len(s)
    BY <1>3
  <2>2. /\ \A j \in 1 .. Len(c) : c[j] = m_Buffer'[j]
        /\ \A j \in 1 .. Len(s) : s[j] = m_Buffer'[Len(c) + j]
    BY <1>3
  <2> HIDE DEF c
  <2>3. Front(m_Buffer', m_Length') = c \o s
    BY <1>2, <2>1, <2>2, FrontSplit
  <2>4. QED
    BY <1>4, <2>3
<1>6. taken \o (c \o s) = accepted \o s
  <2>1. c \in Seq(Cell) /\ taken \in Seq(Cell)
    BY <1>1, <1>3
  <2>2. taken \o c = accepted
    BY <1>1
  <2> HIDE DEF c
  <2>3. (taken \o c) \o s = taken \o (c \o s)
    BY <2>1, Regroup, Zenon
  <2>4. QED
    BY <2>2, <2>3, Zenon
<1>7. accepted' \in Seq(Cell)
  BY <1>1, ConcatProperties
<1>8. QED
  BY <1>2, <1>5, <1>6, <1>7 DEF IsByteQueue

\* What is written or delivered.
LEMMA ChunkFacts ==
  ASSUME BUFFER_SIZE \in Nat, NEW s \in Chunks(BUFFER_SIZE)
  PROVE  s \in Seq(Cell) /\ Len(s) \in Nat /\ Len(s) > 0
<1>1. PICK k \in 1 .. BUFFER_SIZE : s \in [1 .. k -> Bytes]
  BY DEF Chunks
<1>2. s \in [1 .. k -> Cell] /\ k \in Nat
  BY <1>1 DEF Cell
<1>3. s \in Seq(Cell) /\ Len(s) = k
  BY <1>2
<1>4. QED
  BY <1>1, <1>3

\* No operation, and one that is pending.
LEMMA NoIoFacts ==
  /\ NoIo \in [at : Nat, len : Nat] /\ NoIo.len = 0
  /\ \A a, l \in Nat : /\ [at |-> a, len |-> l] \in [at : Nat, len : Nat]
                       /\ l > 0 => [at |-> a, len |-> l] # NoIo
  BY DEF NoIo

-----------------------------------------------------------------------------
(* The steps.                                                              *)

\* PulledBuffer::Write behind what the kernel is reading.
LEMMA WriteStep ==
  ASSUME BUFFER_SIZE \in Nat, BInv, NEW s \in Chunks(BUFFER_SIZE), Write(s)
  PROVE  BInv'
<1>1. TypeInv /\ IoInv /\ SendInv /\ IsByteQueue
  BY DEF BInv
<1>2. s \in Seq(Cell) /\ Len(s) \in Nat
  BY ChunkFacts
<1>3. /\ m_Buffer \in [Index -> Cell] /\ m_Length \in 0 .. BUFFER_SIZE
      /\ io \in [at : Nat, len : Nat] /\ moved \in Seq(Cell)
      /\ Len(moved) \in Nat /\ io.len \in Nat
  BY <1>1 DEF TypeInv
<1>4. side = "send" /\ UNCHANGED <<side, io, moved, taken>>
  BY DEF Write
<1>5. CASE UNCHANGED <<m_Buffer, m_Length, accepted>>
  BY <1>1, <1>4, <1>5 DEF BInv, TypeInv, IoInv, SendInv, RecvInv, IsByteQueue, Contents
<1>6. CASE /\ ~ (m_Length + Len(s) > BUFFER_SIZE)
           /\ m_Buffer' = Stored(m_Buffer, m_Length, s)
           /\ m_Length' = m_Length + Len(s) /\ accepted' = accepted \o s
  <2>1. m_Length + Len(s) <= BUFFER_SIZE
    BY <1>2, <1>3, <1>6
  <2>2. /\ m_Buffer' \in [Index -> Cell]
        /\ \A j \in 1 .. m_Length : m_Buffer'[j] = m_Buffer[j]
        /\ \A j \in 1 .. Len(s) : m_Buffer'[m_Length + j] = s[j]
    BY <1>2, <1>3, <1>6, <2>1, StoredFacts
  <2>3. accepted' \in Seq(Cell) /\ IsByteQueue'
    BY <1>1, <1>2, <1>4, <1>6, <2>1, <2>2, Put
  <2>4. TypeInv'
    <3>1. m_Length' \in 0 .. BUFFER_SIZE
      BY <1>2, <1>3, <1>6, <2>1
    <3>2. QED
      BY <1>1, <1>4, <2>2, <2>3, <3>1 DEF TypeInv
  <2>5. io.len <= m_Length' /\ \A j \in 1 .. Len(moved) : j \in 1 .. m_Length
    BY <1>1, <1>2, <1>3, <1>4, <1>6 DEF IoInv, SendInv
  <2>6. \A j \in 1 .. Len(moved) : moved[j] = m_Buffer'[j]
    BY <1>1, <1>4, <2>2, <2>5 DEF SendInv
  <2>7. SendInv' /\ RecvInv' /\ IoInv'
    BY <1>1, <1>4, <2>5, <2>6 DEF SendInv, RecvInv, IoInv
  <2>8. QED
    BY <2>3, <2>4, <2>7 DEF BInv
<1>7. QED
  BY <1>5, <1>6 DEF Write

\* The operations are posted.
LEMMA PostStep ==
  ASSUME BUFFER_SIZE \in Nat, BInv, SendAsync \/ RecvAsync
  PROVE  BInv'
<1>1. TypeInv /\ IoInv /\ IsByteQueue
  BY DEF BInv
<1>2. m_Length \in 0 .. BUFFER_SIZE /\ moved \in Seq(Cell) /\ io = NoIo
      /\ UNCHANGED <<m_Buffer, m_Length, side, moved, accepted, taken>>
  BY <1>1 DEF TypeInv, SendAsync, RecvAsync
<1>3. moved = << >> /\ Len(moved) = 0
  <2>1. Len(moved) \in Nat /\ Len(moved) <= 0
    BY <1>1, <1>2, NoIoFacts DEF IoInv
  <2>2. QED
    BY <1>2, <2>1
<1>4. IsByteQueue'
  BY <1>1, <1>2 DEF IsByteQueue, Contents
<1>5. CASE SendAsync
  <2>1. side = "send" /\ m_Length > 0 /\ io' = [at |-> 0, len |-> m_Length]
    BY <1>5 DEF SendAsync
  <2>2. io' \in [at : Nat, len : Nat] /\ io'.len = m_Length
    BY <1>2, <2>1
  <2>3. TypeInv' /\ IoInv'
    BY <1>1, <1>2, <1>3, <2>1, <2>2 DEF TypeInv, IoInv
  <2>4. SendInv' /\ RecvInv'
    BY <1>2, <1>3, <2>1, <2>2 DEF SendInv, RecvInv
  <2>5. QED
    BY <1>4, <2>3, <2>4 DEF BInv
<1>6. CASE RecvAsync
  <2>1. side = "recv" /\ GetEmptyLength > 0 /\ io' = [at |-> m_Length, len |-> GetEmptyLength]
    BY <1>6 DEF RecvAsync
  <2>2. GetEmptyLength \in Nat
    BY <1>2 DEF GetEmptyLength
  <2>3. io' \in [at : Nat, len : Nat] /\ io'.at = m_Length /\ io'.len = GetEmptyLength
    BY <1>2, <2>1, <2>2
  <2>4. TypeInv' /\ IoInv'
    BY <1>1, <1>2, <1>3, <2>1, <2>2, <2>3 DEF TypeInv, IoInv
  <2>5. SendInv' /\ RecvInv'
    BY <1>2, <1>3, <2>1, <2>3 DEF SendInv, RecvInv, GetEmptyLength
  <2>6. QED
    BY <1>4, <2>4, <2>5 DEF BInv
<1>7. QED
  BY <1>5, <1>6

\* The kernel reads one byte more.
LEMMA TransmitStep ==
  ASSUME BUFFER_SIZE \in Nat, BInv, Transmit
  PROVE  BInv'
<1>1. TypeInv /\ IoInv /\ SendInv /\ IsByteQueue
  BY DEF BInv
<1>2. /\ m_Buffer \in [Index -> Cell] /\ m_Length \in 0 .. BUFFER_SIZE
      /\ moved \in Seq(Cell) /\ Len(moved) \in Nat /\ io.len \in Nat
  BY <1>1 DEF TypeInv
<1>3. /\ side = "send" /\ Len(moved) < io.len
      /\ moved' = Append(moved, m_Buffer[Len(moved) + 1])
      /\ UNCHANGED <<m_Buffer, m_Length, side, io, accepted, taken>>
  BY DEF Transmit
<1>4. Len(moved) + 1 \in Index
  BY <1>1, <1>2, <1>3 DEF SendInv, Index
<1>5. m_Buffer[Len(moved) + 1] \in Cell
  BY <1>2, <1>4
<1>6. /\ moved' \in Seq(Cell) /\ Len(moved') = Len(moved) + 1
      /\ \A j \in 1 .. Len(moved) : moved'[j] = moved[j]
      /\ moved'[Len(moved) + 1] = m_Buffer[Len(moved) + 1]
  BY <1>2, <1>3, <1>5, AppendProperties
<1>7. \A j \in 1 .. Len(moved') : moved'[j] = m_Buffer[j]
  <2> SUFFICES ASSUME NEW j \in 1 .. Len(moved') PROVE moved'[j] = m_Buffer[j]
    OBVIOUS
  <2>1. j \in 1 .. Len(moved) \/ j = Len(moved) + 1
    BY <1>2, <1>6
  <2>2. QED
    BY <1>1, <1>3, <1>6, <2>1 DEF SendInv
<1>8. TypeInv' /\ IoInv'
  BY <1>1, <1>2, <1>3, <1>6 DEF TypeInv, IoInv
<1>9. SendInv' /\ RecvInv' /\ IsByteQueue'
  BY <1>1, <1>3, <1>7 DEF SendInv, RecvInv, IsByteQueue, Contents
<1>10. QED
  BY <1>8, <1>9 DEF BInv

\* OnSend throws away what the kernel read, which is at the front.
LEMMA ThrowAwayStep ==
  ASSUME BUFFER_SIZE \in Nat, BInv, ThrowAway
  PROVE  BInv'
<1>1. TypeInv /\ IoInv /\ SendInv /\ IsByteQueue
  BY DEF BInv
<1>2. /\ m_Buffer \in [Index -> Cell] /\ m_Length \in 0 .. BUFFER_SIZE
      /\ moved \in Seq(Cell) /\ Len(moved) \in Nat /\ io.len \in Nat
  BY <1>1 DEF TypeInv
<1>3. /\ side = "send" /\ io' = NoIo /\ moved' = NoBytes
      /\ taken' = taken \o moved /\ UNCHANGED <<side, accepted>>
  BY DEF ThrowAway
<1>4. Len(moved) \in 0 .. m_Length /\ Len(moved) \in 0 .. BUFFER_SIZE
  BY <1>1, <1>2, <1>3 DEF IoInv, SendInv
<1>5. Pull(Len(moved))
  BY <1>2, <1>4 DEF ThrowAway
<1>6. moved = Front(m_Buffer, Len(moved))
  <2> DEFINE n == Len(moved)
             f == Front(m_Buffer, n)
  <2>1. f \in Seq(Cell) /\ Len(f) = n /\ \A j \in 1 .. n : f[j] = m_Buffer[j]
    BY <1>2, <1>4, FrontFacts
  <2>2. \A j \in 1 .. n : moved[j] = f[j]
    BY <1>1, <1>3, <2>1 DEF SendInv
  <2> HIDE DEF f
  <2>3. moved = f
    BY <1>2, <2>1, <2>2, SeqEqual
  <2>4. QED
    BY <2>3 DEF f
<1>7. taken' = taken \o Front(m_Buffer, Len(moved))
  BY <1>3, <1>6
<1>8. /\ m_Buffer' \in [Index -> Cell] /\ m_Length' = m_Length - Len(moved)
      /\ taken' \in Seq(Cell) /\ IsByteQueue'
  BY <1>1, <1>3, <1>4, <1>5, <1>7, Take
<1>9. m_Length' \in 0 .. BUFFER_SIZE /\ moved' \in Seq(Cell) /\ Len(moved') = 0
  BY <1>2, <1>3, <1>4, <1>8 DEF NoBytes
<1>10. TypeInv' /\ IoInv'
  BY <1>1, <1>3, <1>8, <1>9, NoIoFacts DEF TypeInv, IoInv
<1>11. SendInv' /\ RecvInv'
  BY <1>3, <1>9, NoIoFacts DEF SendInv, RecvInv
<1>12. QED
  BY <1>8, <1>10, <1>11 DEF BInv

\* The kernel fills the empty part.
LEMMA DeliverStep ==
  ASSUME BUFFER_SIZE \in Nat, BInv, NEW s \in Chunks(BUFFER_SIZE), Deliver(s)
  PROVE  BInv'
<1>1. TypeInv /\ IoInv /\ RecvInv /\ IsByteQueue
  BY DEF BInv
<1>2. s \in Seq(Cell) /\ Len(s) \in Nat /\ Len(s) > 0
  BY ChunkFacts
<1>3. /\ m_Buffer \in [Index -> Cell] /\ m_Length \in 0 .. BUFFER_SIZE /\ io.len \in Nat
  BY <1>1 DEF TypeInv
<1>4. /\ side = "recv" /\ Len(s) <= io.len /\ m_Buffer' = Stored(m_Buffer, io.at, s)
      /\ moved' = s /\ UNCHANGED <<m_Length, side, io, accepted, taken>>
  BY DEF Deliver
<1>5. io # NoIo
  BY <1>2, <1>3, <1>4, NoIoFacts
<1>6. io.at = m_Length /\ io.len = BUFFER_SIZE - m_Length
  BY <1>1, <1>4, <1>5 DEF RecvInv, GetEmptyLength
<1>7. m_Length + Len(s) <= BUFFER_SIZE
  BY <1>2, <1>3, <1>4, <1>6
<1>8. /\ m_Buffer' \in [Index -> Cell]
      /\ \A j \in 1 .. m_Length : m_Buffer'[j] = m_Buffer[j]
      /\ \A j \in 1 .. Len(s) : m_Buffer'[m_Length + j] = s[j]
  BY <1>2, <1>3, <1>4, <1>6, <1>7, StoredFacts
<1>9. Contents' = Contents
  BY <1>4, <1>8 DEF Contents
<1>10. TypeInv' /\ IoInv' /\ IsByteQueue'
  BY <1>1, <1>2, <1>4, <1>8, <1>9 DEF TypeInv, IoInv, IsByteQueue
<1>11. SendInv' /\ RecvInv'
  BY <1>1, <1>4, <1>5, <1>8 DEF SendInv, RecvInv, GetEmptyLength
<1>12. QED
  BY <1>10, <1>11 DEF BInv

\* OnReceived takes over what is behind the data.
LEMMA ForceAddLengthStep ==
  ASSUME BUFFER_SIZE \in Nat, BInv, ForceAddLength
  PROVE  BInv'
<1>1. TypeInv /\ IoInv /\ RecvInv /\ IsByteQueue
  BY DEF BInv
<1>2. /\ m_Buffer \in [Index -> Cell] /\ m_Length \in 0 .. BUFFER_SIZE
      /\ moved \in Seq(Cell) /\ Len(moved) \in Nat /\ io.len \in Nat
  BY <1>1 DEF TypeInv
<1>3. /\ side = "recv" /\ moved # << >> /\ m_Length' = m_Length + Len(moved)
      /\ accepted' = accepted \o moved /\ io' = NoIo /\ moved' = << >>
      /\ UNCHANGED <<m_Buffer, side, taken>>
  BY DEF ForceAddLength, NoBytes
<1>4. Len(moved) # 0
  BY <1>2, <1>3
<1>5. io # NoIo
  BY <1>1, <1>2, <1>4, NoIoFacts DEF IoInv
<1>6. /\ io.len = BUFFER_SIZE - m_Length
      /\ \A j \in 1 .. Len(moved) : m_Buffer'[m_Length + j] = moved[j]
  BY <1>1, <1>3, <1>5 DEF RecvInv, GetEmptyLength
<1>7. m_Length + Len(moved) <= BUFFER_SIZE
  BY <1>1, <1>2, <1>6 DEF IoInv
<1>8. m_Buffer' \in [Index -> Cell] /\ \A j \in 1 .. m_Length : m_Buffer'[j] = m_Buffer[j]
  BY <1>2, <1>3
<1>9. accepted' \in Seq(Cell) /\ IsByteQueue'
  BY <1>1, <1>2, <1>3, <1>6, <1>7, <1>8, Put
<1>10. m_Length' \in 0 .. BUFFER_SIZE /\ moved' \in Seq(Cell) /\ Len(moved') = 0
  BY <1>2, <1>3, <1>7
<1>11. TypeInv' /\ IoInv'
  BY <1>1, <1>3, <1>9, <1>10, NoIoFacts DEF TypeInv, IoInv
<1>12. SendInv' /\ RecvInv'
  BY <1>3 DEF SendInv, RecvInv
<1>13. QED
  BY <1>9, <1>11, <1>12 DEF BInv

\* PulledBuffer::Read, between two receives.
LEMMA ReadStep ==
  ASSUME BUFFER_SIZE \in Nat, BInv, NEW n \in Index, Read(n)
  PROVE  BInv'
<1>1. TypeInv /\ IoInv /\ RecvInv /\ IsByteQueue
  BY DEF BInv
<1>2. m_Buffer \in [Index -> Cell] /\ m_Length \in 0 .. BUFFER_SIZE
  BY <1>1 DEF TypeInv
<1>3. side = "recv" /\ io = NoIo /\ UNCHANGED <<side, io, moved, accepted>>
  BY DEF Read
<1>4. CASE UNCHANGED <<m_Buffer, m_Length, taken>>
  BY <1>1, <1>3, <1>4 DEF BInv, TypeInv, IoInv, SendInv, RecvInv, IsByteQueue, Contents
<1>5. CASE ~ (n > m_Length) /\ Pull(n) /\ taken' = taken \o SubSeq(m_Buffer, 1, n)
  <2>1. n \in 0 .. m_Length /\ n \in 0 .. BUFFER_SIZE
    BY <1>2, <1>5 DEF Index
  <2>2. SubSeq(m_Buffer, 1, n) = Front(m_Buffer, n)
    <3>1. 1 \in Int /\ n \in Int /\ n - 1 + 1 = n
      BY <2>1
    <3>2. SubSeq(m_Buffer, 1, n) = [j \in 1 .. n |-> m_Buffer[j]]
      BY <1>2, <2>1, <3>1 DEF Index
    <3>3. QED
      BY <3>2 DEF Front
  <2>3. /\ m_Buffer' \in [Index -> Cell] /\ m_Length' = m_Length - n
        /\ taken' \in Seq(Cell) /\ IsByteQueue'
    BY <1>1, <1>3, <1>5, <2>1, <2>2, Take
  <2>4. m_Length' \in 0 .. BUFFER_SIZE
    BY <1>2, <2>1, <2>3
  <2>5. TypeInv' /\ IoInv'
    BY <1>1, <1>3, <2>3, <2>4 DEF TypeInv, IoInv
  <2>6. SendInv' /\ RecvInv'
    BY <1>3 DEF SendInv, RecvInv
  <2>7. QED
    BY <2>3, <2>5, <2>6 DEF BInv
<1>6. QED
  BY <1>4, <1>5 DEF Read

-----------------------------------------------------------------------------

\* The memory of a PulledBuffer is a byte queue, whatever its size, the cuts of
\* the stream and the operations the kernel has pending on it.
THEOREM BufferIsQueue ==
  ASSUME BUFFER_SIZE \in Nat
  PROVE  Spec => []IsByteQueue
<1>1. Init => BInv
  <2> SUFFICES ASSUME Init PROVE BInv
    OBVIOUS
  <2>1. TypeInv
    BY NoIoFacts DEF Init, TypeInv, Zeroes, Cell, NoBytes
  <2>2. Len(<< >>) = 0 /\ moved = << >>
    BY DEF Init, NoBytes
  <2>3. IoInv /\ SendInv /\ RecvInv
    BY <2>2, NoIoFacts DEF Init, IoInv, SendInv, RecvInv
  <2>4. Contents = << >>
    <3>1. Front(m_Buffer, 0) \in Seq(Cell) /\ Len(Front(m_Buffer, 0)) = 0
      BY <2>1, FrontFacts DEF TypeInv
    <3>2. QED
      BY <3>1 DEF Init, Contents, Front
  <2>5. IsByteQueue
    BY <2>4 DEF Init, IsByteQueue
  <2>6. QED
    BY <2>1, <2>3, <2>5 DEF BInv
<1>2. BInv /\ [Next]_vars => BInv'
  <2> SUFFICES ASSUME BInv, [Next]_vars PROVE BInv'
    OBVIOUS
  <2>1. CASE UNCHANGED vars
    BY <2>1 DEF vars, BInv, TypeInv, IoInv, SendInv, RecvInv, IsByteQueue, Contents,
                GetEmptyLength
  <2>2. QED
    BY <2>1, WriteStep, PostStep, TransmitStep, ThrowAwayStep, DeliverStep,
       ForceAddLengthStep, ReadStep
    DEF Next
<1>3. BInv => IsByteQueue
  BY DEF BInv
<1>4. QED
  BY <1>1, <1>2, <1>3, PTL DEF Spec

-----------------------------------------------------------------------------
(* The pools.                                                              *)

Places == {"idle", "test", "take", "dequeued", "grow", "alloc", "each", "push", "pushed", "grown"}

\* What the first a arrays hold.
Issued(a) == (1 .. a) \X (1 .. ElementCount)

ElementsOf(q) == {q[k] : k \in 1 .. Len(q)}
Distinct(q) == \A a, b \in 1 .. Len(q) : q[a] = q[b] => a = b

PoolTypeInv ==
  /\ owner \in Threads \cup {NoThread} /\ depth \in Nat
  /\ pc \in [Threads -> Places] /\ i \in [Threads -> Nat]
  /\ arrays \in Nat /\ m_dataPool \in SUBSET (1 .. arrays)
  /\ m_waitingQueue \in Seq(Issued(arrays))
  /\ out \in [Threads -> SUBSET Issued(arrays)]

\* The CRITICAL_SECTION is its owner's alone, and held as often as the owner
\* has entered it.
PoolLockInv ==
  /\ \A t \in Threads : pc[t] # "idle" <=> owner = t
  /\ owner = NoThread => depth = 0
  /\ \A t \in Threads :
       /\ pc[t] \in {"test", "take", "dequeued", "grow"} => depth = 1
       /\ pc[t] \in {"alloc", "each", "grown"} => depth = 2
       /\ pc[t] \in {"push", "pushed"} => depth = 3

\* There is something to take, and while the pool grows something to push.
PoolStepInv ==
  \A t \in Threads :
    /\ pc[t] \in {"take", "pushed", "grown"} => m_waitingQueue # << >>
    /\ pc[t] \in {"each", "push", "pushed"} => i[t] \in 1 .. ElementCount /\ arrays \in m_dataPool

\* Of the sets an element can be in no two meet.
Apart(q, o, u) ==
  /\ \A t \in Threads : q \cap o[t] = {} /\ u \cap o[t] = {}
  /\ \A t, s \in Threads : t # s => o[t] \cap o[s] = {}
  /\ u \cap q = {}

\* They hold every element there is.
AllThere(all, q, o, u) == \A e : e \in all <=> e \in q \/ e \in u \/ \E t \in Threads : e \in o[t]

PoolInv ==
  /\ PoolTypeInv /\ PoolLockInv /\ PoolStepInv /\ ~ emptyFront
  /\ Distinct(m_waitingQueue)
  /\ Apart(ElementsOf(m_waitingQueue), out, IP!Unpushed)
  /\ ~ clearedInUse => AllThere(IP!Elements, ElementsOf(m_waitingQueue), out, IP!Unpushed)

LEMMA PoolSequence ==
  ASSUME NEW S, NEW q \in Seq(S)
  PROVE  IP!ToSet(q) = ElementsOf(q) /\ (IP!IsInjective(q) <=> Distinct(q)) /\ ElementsOf(q) \in SUBSET S
<1>1. DOMAIN q = 1 .. Len(q) /\ \A k \in 1 .. Len(q) : q[k] \in S
  OBVIOUS
<1>2. IP!ToSet(q) = ElementsOf(q)
  BY <1>1 DEF IP!ToSet, ElementsOf
<1>3. IP!IsInjective(q) <=> Distinct(q)
  BY <1>1, Zenon DEF IP!IsInjective, Distinct
<1>4. ElementsOf(q) \in SUBSET S
  BY <1>1 DEF ElementsOf
<1>. QED
  BY <1>2, <1>3, <1>4

LEMMA AppendedElements ==
  ASSUME NEW S, NEW q \in Seq(S), NEW e \in S
  PROVE  /\ Append(q, e) \in Seq(S) /\ Append(q, e) # << >>
         /\ ElementsOf(Append(q, e)) = ElementsOf(q) \cup {e}
         /\ Distinct(q) /\ e \notin ElementsOf(q) => Distinct(Append(q, e))
<1> DEFINE p == Append(q, e)
<1>1. /\ p \in Seq(S) /\ p # << >> /\ Len(q) \in Nat /\ Len(p) = Len(q) + 1
      /\ \A k \in 1 .. Len(q) : p[k] = q[k]
      /\ p[Len(q) + 1] = e
  BY AppendProperties
<1> HIDE DEF p
<1>2. \A k \in 1 .. Len(p) : k \in 1 .. Len(q) \/ k = Len(q) + 1
  BY <1>1
<1>2a. (\A k \in 1 .. Len(q) : k \in 1 .. Len(p)) /\ Len(q) + 1 \in 1 .. Len(p)
  BY <1>1
<1>3. ElementsOf(p) = ElementsOf(q) \cup {e}
  <2>1. ASSUME NEW x \in ElementsOf(p) PROVE x \in ElementsOf(q) \cup {e}
    <3>1. PICK k \in 1 .. Len(p) : x = p[k]
      BY <2>1, Zenon DEF ElementsOf
    <3>. QED
      BY <1>1, <1>2, <3>1 DEF ElementsOf
  <2>2. ASSUME NEW x \in ElementsOf(q) PROVE x \in ElementsOf(p)
    <3>1. PICK k \in 1 .. Len(q) : x = q[k]
      BY <2>2, Zenon DEF ElementsOf
    <3>. QED
      BY <1>1, <1>2a, <3>1 DEF ElementsOf
  <2>3. e \in ElementsOf(p)
    BY <1>1, <1>2a DEF ElementsOf
  <2>. QED
    BY <2>1, <2>2, <2>3
<1>4. ASSUME Distinct(q), e \notin ElementsOf(q) PROVE Distinct(p)
  <2> SUFFICES ASSUME NEW a \in 1 .. Len(p), NEW b \in 1 .. Len(p), p[a] = p[b] PROVE a = b
    BY Zenon DEF Distinct
  <2>1. \A k \in 1 .. Len(q) : q[k] # e
    BY <1>4 DEF ElementsOf
  <2>2. CASE a \in 1 .. Len(q) /\ b \in 1 .. Len(q)
    BY <1>1, <1>4, <2>2, Zenon DEF Distinct
  <2>3. CASE a \in 1 .. Len(q) /\ b = Len(q) + 1
    BY <1>1, <2>1, <2>3
  <2>4. CASE b \in 1 .. Len(q) /\ a = Len(q) + 1
    BY <1>1, <2>1, <2>4
  <2>. QED
    BY <1>2, <2>2, <2>3, <2>4
<1>. QED
  BY <1>1, <1>3, <1>4 DEF p

LEMMA HeadElements ==
  ASSUME NEW S, NEW q \in Seq(S), q # << >>, Distinct(q)
  PROVE  /\ Head(q) \in ElementsOf(q) /\ Tail(q) \in Seq(S)
         /\ ElementsOf(Tail(q)) = ElementsOf(q) \ {Head(q)}
         /\ Distinct(Tail(q))
<1> DEFINE p == Tail(q)
<1>1. /\ p \in Seq(S) /\ Len(q) \in Nat \ {0} /\ Len(p) = Len(q) - 1
      /\ \A k \in 1 .. Len(p) : p[k] = q[k + 1]
  BY HeadTailProperties, EmptySeq
<1>h. Head(q) = q[1]
  OBVIOUS
<1> HIDE DEF p
<1>2. \A k \in 1 .. Len(p) : k + 1 \in 1 .. Len(q) /\ k \in Int /\ k + 1 # 1
  BY <1>1
<1>3. \A k \in 1 .. Len(q) : k = 1 \/ (k - 1 \in 1 .. Len(p) /\ (k - 1) + 1 = k)
  BY <1>1
<1>4. 1 \in 1 .. Len(q)
  BY <1>1
<1>5. Head(q) \in ElementsOf(q)
  BY <1>4, <1>h DEF ElementsOf
<1>6. ElementsOf(p) = ElementsOf(q) \ {Head(q)}
  <2>1. ASSUME NEW x \in ElementsOf(p) PROVE x \in ElementsOf(q) /\ x # Head(q)
    <3>1. PICK k \in 1 .. Len(p) : x = p[k]
      BY <2>1, Zenon DEF ElementsOf
    <3>2. x = q[k + 1] /\ k + 1 \in 1 .. Len(q) /\ k + 1 # 1
      BY <1>1, <1>2, <3>1
    <3>3. x \in ElementsOf(q)
      BY <3>2, Zenon DEF ElementsOf
    <3>4. q[k + 1] # q[1]
      BY <1>4, <3>2, Zenon DEF Distinct
    <3>. QED
      BY <1>h, <3>2, <3>3, <3>4, Zenon
  <2>2. ASSUME NEW x \in ElementsOf(q), x # Head(q) PROVE x \in ElementsOf(p)
    <3>1. PICK k \in 1 .. Len(q) : x = q[k]
      BY <2>2, Zenon DEF ElementsOf
    <3>2. k - 1 \in 1 .. Len(p) /\ p[k - 1] = q[k]
      BY <1>1, <1>3, <1>h, <2>2, <3>1
    <3>. QED
      BY <3>1, <3>2 DEF ElementsOf
  <2>. QED
    BY <2>1, <2>2
<1>7. Distinct(p)
  <2> SUFFICES ASSUME NEW a \in 1 .. Len(p), NEW b \in 1 .. Len(p), p[a] = p[b] PROVE a = b
    BY Zenon DEF Distinct
  <2>1. q[a + 1] = q[b + 1]
    BY <1>1, Zenon
  <2>2. a + 1 = b + 1
    BY <1>2, <2>1, Zenon DEF Distinct
  <2>. QED
    BY <2>2
<1>. QED
  BY <1>1, <1>5, <1>6, <1>7 DEF p

\* An element goes from the queue to a thread, and back; one is pushed.
LEMMA TakeApart ==
  ASSUME NEW all, NEW q, NEW o, NEW u, NEW t \in Threads, NEW e \in q, NEW p,
         Apart(q, o, u),
         \A s \in Threads : s # t => p[s] = o[s], p[t] = o[t] \cup {e}
  PROVE  /\ Apart(q \ {e}, p, u)
         /\ AllThere(all, q, o, u) => AllThere(all, q \ {e}, p, u)
<1>1. Apart(q \ {e}, p, u)
  <2>1. ASSUME NEW s \in Threads PROVE (q \ {e}) \cap p[s] = {} /\ u \cap p[s] = {}
    BY DEF Apart
  <2>2. ASSUME NEW s \in Threads, NEW r \in Threads, s # r PROVE p[s] \cap p[r] = {}
    BY <2>2 DEF Apart
  <2>3. u \cap (q \ {e}) = {}
    BY DEF Apart
  <2>. QED
    BY <2>1, <2>2, <2>3, Zenon DEF Apart
<1>2. ASSUME AllThere(all, q, o, u) PROVE AllThere(all, q \ {e}, p, u)
  <2> SUFFICES ASSUME NEW x PROVE x \in all <=> x \in q \ {e} \/ x \in u \/ \E s \in Threads : x \in p[s]
    BY DEF AllThere
  <2>1. x \in all <=> x \in q \/ x \in u \/ \E s \in Threads : x \in o[s]
    BY <1>2 DEF AllThere
  <2>2. (\E s \in Threads : x \in p[s]) <=> x = e \/ \E s \in Threads : x \in o[s]
    OBVIOUS
  <2>. QED
    BY <2>1, <2>2
<1>. QED
  BY <1>1, <1>2

LEMMA GiveApart ==
  ASSUME NEW all, NEW q, NEW o, NEW u, NEW t \in Threads, NEW e \in o[t], NEW p,
         Apart(q, o, u),
         \A s \in Threads : s # t => p[s] = o[s], p[t] = o[t] \ {e}
  PROVE  /\ Apart(q \cup {e}, p, u)
         /\ AllThere(all, q, o, u) => AllThere(all, q \cup {e}, p, u)
<1>1. Apart(q \cup {e}, p, u)
  <2>1. ASSUME NEW s \in Threads PROVE (q \cup {e}) \cap p[s] = {} /\ u \cap p[s] = {}
    BY DEF Apart
  <2>2. ASSUME NEW s \in Threads, NEW r \in Threads, s # r PROVE p[s] \cap p[r] = {}
    BY <2>2 DEF Apart
  <2>3. u \cap (q \cup {e}) = {}
    BY DEF Apart
  <2>. QED
    BY <2>1, <2>2, <2>3, Zenon DEF Apart
<1>2. ASSUME AllThere(all, q, o, u) PROVE AllThere(all, q \cup {e}, p, u)
  <2> SUFFICES ASSUME NEW x PROVE x \in all <=> x \in q \cup {e} \/ x \in u \/ \E s \in Threads : x \in p[s]
    BY DEF AllThere
  <2>1. x \in all <=> x \in q \/ x \in u \/ \E s \in Threads : x \in o[s]
    BY <1>2 DEF AllThere
  <2>2. (\E s \in Threads : x \in o[s]) <=> x = e \/ \E s \in Threads : x \in p[s]
    OBVIOUS
  <2>. QED
    BY <2>1, <2>2
<1>. QED
  BY <1>1, <1>2

LEMMA PushApart ==
  ASSUME NEW all, NEW q, NEW o, NEW u, NEW e \in u, Apart(q, o, u)
  PROVE  /\ Apart(q \cup {e}, o, u \ {e})
         /\ AllThere(all, q, o, u) => AllThere(all, q \cup {e}, o, u \ {e})
<1>1. Apart(q \cup {e}, o, u \ {e})
  <2>1. ASSUME NEW s \in Threads PROVE (q \cup {e}) \cap o[s] = {} /\ (u \ {e}) \cap o[s] = {}
    BY DEF Apart
  <2>2. ASSUME NEW s \in Threads, NEW r \in Threads, s # r PROVE o[s] \cap o[r] = {}
    BY <2>2 DEF Apart
  <2>3. (u \ {e}) \cap (q \cup {e}) = {}
    BY DEF Apart
  <2>. QED
    BY <2>1, <2>2, <2>3, Zenon DEF Apart
<1>2. ASSUME AllThere(all, q, o, u) PROVE AllThere(all, q \cup {e}, o, u \ {e})
  BY <1>2 DEF AllThere
<1>. QED
  BY <1>1, <1>2

Growing == {"each", "push", "pushed"}

\* The elements of array a that threads at p, with counters c, are still to push.
Pending(a, p, c) ==
  {e \in IP!Array(a) : \E t \in Threads : \/ p[t] \in {"each", "push"} /\ e[2] >= c[t]
                                          \/ p[t] = "pushed" /\ e[2] > c[t]}

LastOf(a, k) == {<<a, n>> : n \in k .. ElementCount}

LEMMA UnpushedIsPending ==
  IP!Unpushed = Pending(arrays, pc, i) /\ IP!Unpushed' = Pending(arrays', pc', i')
<1>1. IP!Array(arrays)' = IP!Array(arrays')
  BY Zenon DEF IP!Array
<1>. QED
  BY <1>1, Zenon DEF IP!Unpushed, Pending

LEMMA PendingFacts ==
  ASSUME NEW a, NEW p, NEW c, NEW t \in Threads, c[t] \in Nat,
         \A s \in Threads : s # t => p[s] \notin Growing
  PROVE  /\ p[t] \in {"each", "push"} /\ c[t] > 0 => Pending(a, p, c) = LastOf(a, c[t])
         /\ p[t] = "pushed" => Pending(a, p, c) = LastOf(a, c[t] + 1)
         /\ p[t] \notin Growing => Pending(a, p, c) = {}
<1>1. \A e \in IP!Array(a) : e[2] \in 1 .. ElementCount /\ e = <<a, e[2]>>
  BY DEF IP!Array
<1>2. \A n \in 1 .. ElementCount : <<a, n>> \in IP!Array(a) /\ <<a, n>>[2] = n
  BY DEF IP!Array
<1>3. \A s \in Threads : s # t => ~ (p[s] \in {"each", "push"}) /\ p[s] # "pushed"
  BY DEF Growing
<1>4. \A e \in IP!Array(a) : e \in Pending(a, p, c) <=>
        \/ p[t] \in {"each", "push"} /\ e[2] >= c[t]
        \/ p[t] = "pushed" /\ e[2] > c[t]
  BY <1>3, Zenon DEF Pending
<1>5. Pending(a, p, c) \subseteq IP!Array(a)
  BY Zenon DEF Pending
<1>e. ElementCount \in Nat
  BY PoolAssumption
<1>6. \A e, k : k \in Nat /\ k > 0 => (e \in LastOf(a, k) <=> e \in IP!Array(a) /\ e[2] >= k)
  <2> SUFFICES ASSUME NEW e, NEW k \in Nat, k > 0
               PROVE  e \in LastOf(a, k) <=> e \in IP!Array(a) /\ e[2] >= k
    OBVIOUS
  <2>1. ASSUME e \in LastOf(a, k) PROVE e \in IP!Array(a) /\ e[2] >= k
    <3>1. PICK n \in k .. ElementCount : e = <<a, n>>
      BY <2>1, Zenon DEF LastOf
    <3>2. n \in 1 .. ElementCount /\ n >= k
      BY <1>e
    <3>. QED
      BY <1>2, <3>1, <3>2
  <2>2. ASSUME e \in IP!Array(a), e[2] >= k PROVE e \in LastOf(a, k)
    <3>1. e[2] \in k .. ElementCount /\ e = <<a, e[2]>>
      BY <1>1, <1>e, <2>2
    <3>. QED
      BY <3>1, Zenon DEF LastOf
  <2>. QED
    BY <2>1, <2>2
<1>7. ASSUME p[t] \in {"each", "push"}, c[t] > 0 PROVE Pending(a, p, c) = LastOf(a, c[t])
  <2>1. \A e : e \in Pending(a, p, c) <=> e \in LastOf(a, c[t])
    BY <1>4, <1>5, <1>6, <1>7
  <2>. QED
    BY <2>1
<1>8. ASSUME p[t] = "pushed" PROVE Pending(a, p, c) = LastOf(a, c[t] + 1)
  <2>0. c[t] + 1 \in Nat /\ c[t] + 1 > 0 /\ \A e \in IP!Array(a) : e[2] > c[t] <=> e[2] >= c[t] + 1
    BY <1>1, <1>e
  <2>1. \A e : e \in Pending(a, p, c) <=> e \in LastOf(a, c[t] + 1)
    BY <1>4, <1>5, <1>6, <1>8, <2>0
  <2>. QED
    BY <2>1
<1>9. ASSUME p[t] \notin Growing PROVE Pending(a, p, c) = {}
  BY <1>4, <1>5, <1>9 DEF Growing
<1>. QED
  BY <1>7, <1>8, <1>9

\* A thread past Enter is alone, and so is whoever enters.
LEMMA OthersIdle ==
  ASSUME PoolTypeInv, PoolLockInv, NEW t \in Threads, owner \in {NoThread, t}
  PROVE  \A s \in Threads : s # t => pc[s] = "idle"
  BY PoolAssumption, Zenon DEF PoolLockInv

DepthAt(p) ==
  IF p = "idle" THEN 0
  ELSE IF p \in {"test", "take", "dequeued", "grow"} THEN 1
  ELSE IF p \in {"alloc", "each", "grown"} THEN 2 ELSE 3

\* A step of a thread that has the lock, or gets it.
LEMMA LockStep ==
  ASSUME PoolTypeInv, PoolLockInv, NEW t \in Threads, owner \in {NoThread, t}, NEW p \in Places,
         pc' = [pc EXCEPT ![t] = p],
         owner' = IF p = "idle" THEN NoThread ELSE t,
         depth' = DepthAt(p)
  PROVE  /\ PoolLockInv' /\ pc' \in [Threads -> Places] /\ owner' \in Threads \cup {NoThread} /\ depth' \in Nat
         /\ pc'[t] = p /\ \A s \in Threads : s # t => pc'[s] = "idle"
<1>1. \A s \in Threads : s # t => pc[s] = "idle"
  BY OthersIdle, Zenon
<1>2. pc' \in [Threads -> Places] /\ pc'[t] = p /\ \A s \in Threads : s # t => pc'[s] = "idle"
  BY <1>1 DEF PoolTypeInv
<1>3. owner' \in Threads \cup {NoThread} /\ depth' \in Nat
  BY DEF DepthAt
<1>4. \A s \in Threads : pc'[s] # "idle" <=> owner' = s
  BY <1>2, PoolAssumption, Zenon
<1>5. owner' = NoThread => depth' = 0
  BY PoolAssumption DEF DepthAt
<1>6. \A s \in Threads :
        /\ pc'[s] \in {"test", "take", "dequeued", "grow"} => depth' = 1
        /\ pc'[s] \in {"alloc", "each", "grown"} => depth' = 2
        /\ pc'[s] \in {"push", "pushed"} => depth' = 3
  BY <1>2 DEF DepthAt
<1>. QED
  BY <1>2, <1>3, <1>4, <1>5, <1>6, Zenon DEF PoolLockInv

\* The thread that is somewhere has the lock, as deep as that is.
LEMMA Holds ==
  ASSUME PoolTypeInv, PoolLockInv, NEW t \in Threads
  PROVE  /\ pc[t] # "idle" => owner = t /\ depth = DepthAt(pc[t])
         /\ pc[t] = "idle" /\ owner \in {NoThread, t} => owner = NoThread /\ depth = 0
<1>1. pc[t] \in Places
  BY DEF PoolTypeInv
<1>2. pc[t] # "idle" => owner = t
  BY DEF PoolLockInv
<1>3. ASSUME pc[t] # "idle" PROVE depth = DepthAt(pc[t])
  BY <1>1, <1>3 DEF PoolLockInv, DepthAt, Places
<1>4. pc[t] = "idle" /\ owner \in {NoThread, t} => owner = NoThread /\ depth = 0
  BY DEF PoolLockInv
<1>. QED
  BY <1>2, <1>3, <1>4

\* Of a step only the place of the thread that takes it matters to the step invariant.
LEMMA StepInvFor ==
  ASSUME NEW t \in Threads, NEW p \in Places,
         pc'[t] = p, \A s \in Threads : s # t => pc'[s] = "idle",
         p \in {"take", "pushed", "grown"} => m_waitingQueue' # << >>,
         p \in {"each", "push", "pushed"} => i'[t] \in 1 .. ElementCount /\ arrays' \in m_dataPool'
  PROVE  PoolStepInv'
<1> SUFFICES ASSUME NEW s \in Threads
             PROVE  /\ pc'[s] \in {"take", "pushed", "grown"} => m_waitingQueue' # << >>
                    /\ pc'[s] \in {"each", "push", "pushed"} => i'[s] \in 1 .. ElementCount /\ arrays' \in m_dataPool'
  BY Zenon DEF PoolStepInv
<1>1. CASE s = t
  BY <1>1, Zenon
<1>2. CASE s # t
  <2>1. pc'[s] = "idle"
    BY <1>2, Zenon
  <2>. QED
    BY ONLY <2>1
<1>. QED
  BY <1>1, <1>2, Zenon

\* Steps that move nothing: the lock changes hands, a test is made.
LEMMA PoolQuietStep ==
  ASSUME PoolInv, NEW t \in Threads, owner \in {NoThread, t}, NEW p \in Places,
         pc' = [pc EXCEPT ![t] = p],
         owner' = IF p = "idle" THEN NoThread ELSE t, depth' = DepthAt(p),
         UNCHANGED <<m_waitingQueue, m_dataPool, arrays, out, emptyFront, clearedInUse>>,
         i' \in [Threads -> Nat],
         p \in {"take", "pushed", "grown"} => m_waitingQueue # << >>,
         p \in {"each", "push", "pushed"} => i'[t] \in 1 .. ElementCount /\ arrays \in m_dataPool,
         Pending(arrays, pc', i') = Pending(arrays, pc, i)
  PROVE  PoolInv'
<1>0. PoolTypeInv /\ PoolLockInv
  BY DEF PoolInv
<1>1. /\ PoolLockInv' /\ pc' \in [Threads -> Places] /\ owner' \in Threads \cup {NoThread} /\ depth' \in Nat
      /\ pc'[t] = p /\ \A s \in Threads : s # t => pc'[s] = "idle"
  BY <1>0, LockStep, Zenon
<1>2. PoolTypeInv'
  BY <1>0, <1>1, Zenon DEF PoolTypeInv
<1>3. PoolStepInv'
  BY <1>1, StepInvFor, Zenon
<1>4. IP!Unpushed' = IP!Unpushed
  BY UnpushedIsPending, Zenon
<1>5. IP!Elements' = IP!Elements
  BY Zenon DEF IP!Elements, IP!Array
<1>. QED
  BY <1>1, <1>2, <1>3, <1>4, <1>5, Zenon DEF PoolInv

LEMMA PoolFacts ==
  ASSUME PoolInv, NEW t \in Threads
  PROVE  /\ PoolTypeInv /\ PoolLockInv /\ PoolStepInv
         /\ pc[t] \in Places /\ i[t] \in Nat
         /\ pc[t] # "idle" => owner = t /\ depth = DepthAt(pc[t])
         /\ owner \in {NoThread, t} => \A s \in Threads : s # t => pc[s] = "idle"
         /\ pc[t] = "idle" /\ owner \in {NoThread, t} => owner = NoThread /\ depth = 0
<1>1. PoolTypeInv /\ PoolLockInv /\ PoolStepInv
  BY DEF PoolInv
<1>2. pc[t] \in Places /\ i[t] \in Nat
  BY <1>1 DEF PoolTypeInv
<1>. QED
  BY <1>1, <1>2, Holds, OthersIdle, Zenon

\* What is pending does not change unless the thread that takes the step grows the pool.
LEMMA PendingSame ==
  ASSUME PoolInv, NEW t \in Threads, owner \in {NoThread, t}, NEW p \in Places,
         pc' = [pc EXCEPT ![t] = p], i'[t] \in Nat,
         \/ pc[t] \notin Growing /\ p \notin Growing
         \/ pc[t] = "each" /\ p = "push" /\ i'[t] = i[t]
         \/ pc[t] = "pushed" /\ p = "each" /\ i'[t] = i[t] + 1
         \/ pc[t] = "pushed" /\ p = "grown" /\ i[t] = ElementCount
  PROVE  Pending(arrays, pc', i') = Pending(arrays, pc, i)
<1>1. /\ PoolTypeInv /\ PoolStepInv /\ pc[t] \in Places /\ i[t] \in Nat
      /\ \A s \in Threads : s # t => pc[s] = "idle"
  BY PoolFacts, Zenon
<1>2. pc'[t] = p /\ \A s \in Threads : s # t => pc'[s] = "idle"
  BY <1>1 DEF PoolTypeInv
<1>3. "idle" \notin Growing
  BY DEF Growing
<1>a. (\A s \in Threads : s # t => pc[s] \notin Growing) /\ (\A s \in Threads : s # t => pc'[s] \notin Growing)
  BY <1>1, <1>2, <1>3, Zenon
<1> DEFINE A == Pending(arrays, pc, i)
           B == Pending(arrays, pc', i')
<1>4. /\ pc[t] \in {"each", "push"} /\ i[t] > 0 => A = LastOf(arrays, i[t])
      /\ pc[t] = "pushed" => A = LastOf(arrays, i[t] + 1)
      /\ pc[t] \notin Growing => A = {}
  BY <1>1, <1>a, PendingFacts, Zenon
<1>b. i'[t] \in Nat
  OBVIOUS
<1>5. /\ p \in {"each", "push"} /\ i'[t] > 0 => B = LastOf(arrays, i'[t])
      /\ p = "pushed" => B = LastOf(arrays, i'[t] + 1)
      /\ p \notin Growing => B = {}
  <2>1. /\ pc'[t] \in {"each", "push"} /\ i'[t] > 0 => B = LastOf(arrays, i'[t])
        /\ pc'[t] = "pushed" => B = LastOf(arrays, i'[t] + 1)
        /\ pc'[t] \notin Growing => B = {}
    BY ONLY <1>a, <1>b, t \in Threads, PendingFacts, Zenon
  <2>. QED
    BY ONLY <1>2, <2>1, Zenon
<1>6. pc[t] \in {"each", "push", "pushed"} => i[t] \in 1 .. ElementCount
  BY <1>1, Zenon DEF PoolStepInv
<1> HIDE DEF A, B
<1>n. ElementCount \in Nat
  BY PoolAssumption
<1>7. CASE pc[t] \notin Growing /\ p \notin Growing
  <2>. QED
    BY <1>4, <1>5, <1>7, Zenon DEF A, B
<1>8. CASE pc[t] = "each" /\ p = "push" /\ i'[t] = i[t]
  <2>1. i[t] > 0
    BY <1>6, <1>8, <1>n
  <2>2. A = LastOf(arrays, i[t]) /\ B = LastOf(arrays, i[t])
    BY ONLY <1>4, <1>5, <1>8, <2>1
  <2>. QED
    BY <2>2, Zenon DEF A, B
<1>9. CASE pc[t] = "pushed" /\ p = "each" /\ i'[t] = i[t] + 1
  <2>1. i[t] + 1 > 0
    BY <1>1
  <2>2. A = LastOf(arrays, i[t] + 1) /\ B = LastOf(arrays, i[t] + 1)
    BY ONLY <1>4, <1>5, <1>9, <2>1
  <2>. QED
    BY <2>2, Zenon DEF A, B
<1>10. CASE pc[t] = "pushed" /\ p = "grown" /\ i[t] = ElementCount
  <2>1. LastOf(arrays, ElementCount + 1) = {}
    BY <1>n DEF LastOf
  <2>2. A = {}
    BY ONLY <1>4, <1>10, <2>1
  <2>3. B = {}
    BY <1>5, <1>10 DEF Growing
  <2>. QED
    BY <2>2, <2>3, Zenon DEF A, B
<1>. QED
  BY <1>7, <1>8, <1>9, <1>10, Zenon

LEMMA PoolEnterStep ==
  ASSUME PoolInv, NEW t \in Threads, NEW p \in Places,
         IP!Entering(t, pc[t], p), IP!data' = IP!data,
         \/ pc[t] = "idle" /\ p = "test"
         \/ pc[t] = "grow" /\ p = "alloc"
         \/ pc[t] = "each" /\ p = "push"
  PROVE  PoolInv'
<1>1. /\ owner \in {NoThread, t} /\ owner' = t /\ depth' = depth + 1 /\ pc' = [pc EXCEPT ![t] = p]
      /\ UNCHANGED <<m_waitingQueue, m_dataPool, arrays, i, out, emptyFront, clearedInUse>>
  BY DEF IP!Entering, IP!Enter, IP!Goto, IP!data
<1>2. /\ PoolTypeInv /\ PoolStepInv /\ i[t] \in Nat
      /\ pc[t] # "idle" => owner = t /\ depth = DepthAt(pc[t])
      /\ pc[t] = "idle" => owner = NoThread /\ depth = 0
  BY <1>1, PoolFacts, Zenon
<1>3. depth' = DepthAt(p) /\ owner' = IF p = "idle" THEN NoThread ELSE t
  BY <1>1, <1>2 DEF DepthAt
<1>4. i' \in [Threads -> Nat] /\ i'[t] = i[t] /\ i'[t] \in Nat
  BY <1>1, <1>2 DEF PoolTypeInv
<1>5. /\ p \notin {"take", "pushed", "grown"}
      /\ p \in {"each", "push", "pushed"} => pc[t] = "each"
  OBVIOUS
<1>6. p \in {"each", "push", "pushed"} => i'[t] \in 1 .. ElementCount /\ arrays \in m_dataPool
  <2>1. pc[t] = "each" => i[t] \in 1 .. ElementCount /\ arrays \in m_dataPool
    BY <1>2, Zenon DEF PoolStepInv
  <2>. QED
    BY <1>4, <1>5, <2>1, Zenon
<1>7. \/ pc[t] \notin Growing /\ p \notin Growing
      \/ pc[t] = "each" /\ p = "push" /\ i'[t] = i[t]
  BY <1>4 DEF Growing
<1>8. Pending(arrays, pc', i') = Pending(arrays, pc, i)
  BY <1>1, <1>4, <1>7, PendingSame, Zenon
<1>. QED
  BY <1>1, <1>3, <1>4, <1>5, <1>6, <1>8, PoolQuietStep, Zenon

LEMMA PoolLeaveStep ==
  ASSUME PoolInv, NEW t \in Threads, NEW p \in Places,
         IP!Leaving(t, pc[t], p),
         UNCHANGED <<m_waitingQueue, m_dataPool, arrays, out, emptyFront, clearedInUse>>,
         i' \in [Threads -> Nat],
         \/ pc[t] = "dequeued" /\ p = "idle"
         \/ pc[t] = "pushed" /\ p = "each" /\ i[t] # ElementCount /\ i'[t] = i[t] + 1
         \/ pc[t] = "pushed" /\ p = "grown" /\ i[t] = ElementCount
         \/ pc[t] = "grown" /\ p = "take"
  PROVE  PoolInv'
<1>1. /\ depth' = depth - 1 /\ owner' = (IF depth = 1 THEN NoThread ELSE t) /\ pc' = [pc EXCEPT ![t] = p]
  BY DEF IP!Leaving, IP!Leave, IP!Goto
<1>2. PoolTypeInv /\ PoolStepInv /\ i[t] \in Nat /\ (pc[t] # "idle" => owner = t /\ depth = DepthAt(pc[t]))
  BY PoolFacts, Zenon
<1>3. owner = t /\ depth' = DepthAt(p) /\ owner' = IF p = "idle" THEN NoThread ELSE t
  BY <1>1, <1>2 DEF DepthAt
<1>4. i'[t] \in Nat
  OBVIOUS
<1>5. p \in {"take", "pushed", "grown"} => m_waitingQueue # << >>
  BY <1>2, Zenon DEF PoolStepInv
<1>6. p \in {"each", "push", "pushed"} => i'[t] \in 1 .. ElementCount /\ arrays \in m_dataPool
  <2>1. pc[t] = "pushed" => i[t] \in 1 .. ElementCount /\ arrays \in m_dataPool
    BY <1>2, Zenon DEF PoolStepInv
  <2>2. ElementCount \in Nat
    BY PoolAssumption
  <2>. QED
    BY <1>2, <2>1, <2>2
<1>7. \/ pc[t] \notin Growing /\ p \notin Growing
      \/ pc[t] = "pushed" /\ p = "each" /\ i'[t] = i[t] + 1
      \/ pc[t] = "pushed" /\ p = "grown" /\ i[t] = ElementCount
  BY DEF Growing
<1>8. Pending(arrays, pc', i') = Pending(arrays, pc, i)
  BY <1>1, <1>3, <1>4, <1>7, PendingSame, Zenon
<1>9. owner \in {NoThread, t}
  BY <1>3
<1>. QED
  BY <1>1, <1>3, <1>5, <1>6, <1>8, <1>9, PoolQuietStep, Zenon

LEMMA TestEmptyStep ==
  ASSUME PoolInv, NEW t \in Threads, IP!TestEmpty(t) PROVE PoolInv'
<1> DEFINE p == IF m_waitingQueue = << >> THEN "grow" ELSE "take"
<1>1. /\ pc[t] = "test" /\ pc' = [pc EXCEPT ![t] = p]
      /\ UNCHANGED <<owner, depth, m_waitingQueue, m_dataPool, arrays, i, out, emptyFront, clearedInUse>>
  BY DEF IP!TestEmpty, IP!Goto, IP!data
<1>2. PoolTypeInv /\ i[t] \in Nat /\ (pc[t] # "idle" => owner = t /\ depth = DepthAt(pc[t]))
  BY PoolFacts, Zenon
<1>3. p \in Places /\ p \notin Growing /\ pc[t] \notin Growing /\ (p = "take" => m_waitingQueue # << >>)
  BY <1>1 DEF Places, Growing
<1>4. p \in {"grow", "take"}
  OBVIOUS
<1> HIDE DEF p
<1>5. owner \in {NoThread, t} /\ depth' = DepthAt(p) /\ owner' = IF p = "idle" THEN NoThread ELSE t
  BY <1>1, <1>2, <1>4 DEF DepthAt
<1>6. i' \in [Threads -> Nat] /\ i'[t] \in Nat
  BY <1>1, <1>2 DEF PoolTypeInv
<1>7. Pending(arrays, pc', i') = Pending(arrays, pc, i)
  BY <1>1, <1>3, <1>5, <1>6, PendingSame, Zenon
<1>8. p \in {"take", "pushed", "grown"} => m_waitingQueue # << >>
  BY <1>3, <1>4
<1>9. p \notin {"each", "push", "pushed"}
  BY <1>4
<1>. QED
  BY <1>1, <1>3, <1>5, <1>6, <1>7, <1>8, <1>9, PoolQuietStep, Zenon

\* Nothing is pending when the thread at work is not growing the pool.
LEMMA NonePending ==
  ASSUME PoolInv, NEW t \in Threads, owner \in {NoThread, t}, pc[t] \notin Growing
  PROVE  IP!Unpushed = {}
<1>1. i[t] \in Nat /\ \A s \in Threads : s # t => pc[s] = "idle"
  BY PoolFacts, Zenon
<1>2. "idle" \notin Growing
  BY DEF Growing
<1>3. \A s \in Threads : s # t => pc[s] \notin Growing
  BY <1>1, <1>2, Zenon
<1>. QED
  BY <1>1, <1>3, PendingFacts, UnpushedIsPending, Zenon

LEMMA TakeStep ==
  ASSUME PoolInv, NEW t \in Threads, IP!Take(t) PROVE PoolInv'
<1> DEFINE q == m_waitingQueue
           e == Head(q)
<1>0. /\ PoolTypeInv /\ PoolLockInv /\ PoolStepInv /\ ~ emptyFront
      /\ Distinct(q)
      /\ Apart(ElementsOf(q), out, IP!Unpushed)
      /\ ~ clearedInUse => AllThere(IP!Elements, ElementsOf(q), out, IP!Unpushed)
  BY Zenon DEF PoolInv
<1>1. pc[t] = "take" /\ pc[t] # "idle" /\ pc[t] \notin Growing
  BY DEF IP!Take, Growing
<1>2. q # << >>
  BY <1>0, <1>1 DEF PoolStepInv
<1>3. /\ out' = [out EXCEPT ![t] = @ \cup {e}] /\ q' = Tail(q)
      /\ pc' = [pc EXCEPT ![t] = "dequeued"]
      /\ UNCHANGED <<owner, depth, m_dataPool, arrays, i, emptyFront, clearedInUse>>
  BY <1>2 DEF IP!Take, IP!Goto
<1>4. owner = t /\ depth = 1 /\ owner \in {NoThread, t}
  BY <1>1, PoolFacts DEF DepthAt
<1>5. /\ e \in ElementsOf(q) /\ q' \in Seq(Issued(arrays)) /\ Distinct(q')
      /\ ElementsOf(q') = ElementsOf(q) \ {e}
  <2>1. q \in Seq(Issued(arrays))
    BY <1>0 DEF PoolTypeInv
  <2>2. /\ Head(q) \in ElementsOf(q) /\ Tail(q) \in Seq(Issued(arrays))
        /\ ElementsOf(Tail(q)) = ElementsOf(q) \ {Head(q)} /\ Distinct(Tail(q))
    BY <1>0, <1>2, <2>1, HeadElements
  <2>. QED
    BY <1>3, <2>2
<1>6. e \in Issued(arrays)
  <2>1. q \in Seq(Issued(arrays))
    BY <1>0 DEF PoolTypeInv
  <2>. QED
    BY <1>5, <2>1, PoolSequence
<1>7. out' \in [Threads -> SUBSET Issued(arrays)] /\ out'[t] = out[t] \cup {e} /\ \A s \in Threads : s # t => out'[s] = out[s]
  BY <1>0, <1>3, <1>6 DEF PoolTypeInv
<1>p. "dequeued" \in Places /\ "dequeued" # "idle" /\ DepthAt("dequeued") = 1 /\ "dequeued" \notin Growing
  BY DEF Places, DepthAt, Growing
<1>8. /\ PoolLockInv' /\ pc' \in [Threads -> Places] /\ owner' \in Threads \cup {NoThread} /\ depth' \in Nat
      /\ pc'[t] = "dequeued" /\ \A s \in Threads : s # t => pc'[s] = "idle"
  <2>1. owner' = (IF "dequeued" = "idle" THEN NoThread ELSE t) /\ depth' = DepthAt("dequeued")
    BY <1>3, <1>4, <1>p
  <2>. QED
    BY <1>0, <1>3, <1>4, <1>p, <2>1, LockStep, Zenon
<1>9. PoolTypeInv'
  <2>1. /\ i' \in [Threads -> Nat] /\ arrays' \in Nat /\ m_dataPool' \in SUBSET (1 .. arrays')
        /\ m_waitingQueue' \in Seq(Issued(arrays')) /\ out' \in [Threads -> SUBSET Issued(arrays')]
    BY <1>0, <1>3, <1>5, <1>7, Zenon DEF PoolTypeInv
  <2>. QED
    BY <1>8, <2>1, Zenon DEF PoolTypeInv
<1>10. PoolStepInv'
  <2>1. "dequeued" \notin {"take", "pushed", "grown"} /\ "dequeued" \notin {"each", "push", "pushed"}
    OBVIOUS
  <2>. QED
    BY <1>8, <1>p, <2>1, StepInvFor, Zenon
<1>11. IP!Unpushed' = IP!Unpushed
  <2>1. i'[t] \in Nat
    BY <1>9 DEF PoolTypeInv
  <2>2. Pending(arrays, pc', i') = Pending(arrays, pc, i)
    BY <1>1, <1>3, <1>4, <1>p, <2>1, PendingSame, Zenon
  <2>. QED
    BY <1>3, <2>2, UnpushedIsPending, Zenon
<1>12. IP!Elements' = IP!Elements
  BY <1>3, Zenon DEF IP!Elements, IP!Array
<1> DEFINE E == IP!Elements
           u == IP!Unpushed
           z == ElementsOf(q)
           o == out'
<1>13. Apart(z \ {e}, o, u) /\ (AllThere(E, z, out, u) => AllThere(E, z \ {e}, o, u))
  <2> HIDE DEF E, u, z, o, e
  <2>1. Apart(z, out, u) /\ e \in z /\ o[t] = out[t] \cup {e} /\ \A s \in Threads : s # t => o[s] = out[s]
    BY <1>0, <1>5, <1>7, Zenon DEF u, z, o
  <2>. QED
    BY ONLY <2>1, t \in Threads, TakeApart, Zenon
<1>14. Apart(ElementsOf(q'), out', IP!Unpushed')
       /\ (~ clearedInUse' => AllThere(IP!Elements', ElementsOf(q'), out', IP!Unpushed'))
  <2>1. ElementsOf(q') = z \ {e} /\ IP!Unpushed' = u /\ IP!Elements' = E /\ clearedInUse' = clearedInUse
    BY <1>3, <1>5, <1>11, <1>12, Zenon
  <2>2. ~ clearedInUse => AllThere(E, z, out, u)
    BY <1>0, Zenon
  <2> HIDE DEF E, u, z, o, e, q
  <2>3. Apart(z \ {e}, out', u) /\ (AllThere(E, z, out, u) => AllThere(E, z \ {e}, out', u))
    BY <1>13, Zenon DEF o
  <2>. QED
    BY ONLY <2>1, <2>2, <2>3, Zenon
<1>15. ~ emptyFront'
  BY <1>0, <1>3
<1>16. Distinct(m_waitingQueue')
  BY <1>5
<1>. QED
  BY <1>8, <1>9, <1>10, <1>14, <1>15, <1>16, Zenon DEF PoolInv

LEMMA EachPushStep ==
  ASSUME PoolInv, NEW t \in Threads, IP!EachPush(t) PROVE PoolInv'
<1> DEFINE q == m_waitingQueue
           e == <<arrays, i[t]>>
<1>0. /\ PoolTypeInv /\ PoolLockInv /\ PoolStepInv /\ ~ emptyFront
      /\ Distinct(q)
      /\ Apart(ElementsOf(q), out, IP!Unpushed)
      /\ ~ clearedInUse => AllThere(IP!Elements, ElementsOf(q), out, IP!Unpushed)
  BY Zenon DEF PoolInv
<1>1. /\ pc[t] = "push" /\ pc[t] # "idle" /\ pc[t] \in {"each", "push"}
      /\ q' = Append(q, e) /\ pc' = [pc EXCEPT ![t] = "pushed"]
      /\ UNCHANGED <<owner, depth, m_dataPool, arrays, i, out, emptyFront, clearedInUse>>
  BY DEF IP!EachPush, IP!Goto
<1>2. /\ owner = t /\ depth = 3 /\ owner \in {NoThread, t} /\ i[t] \in Nat
      /\ \A s \in Threads : s # t => pc[s] = "idle"
  BY <1>1, PoolFacts DEF DepthAt
<1>3. i[t] \in 1 .. ElementCount /\ arrays \in m_dataPool
  BY <1>0, <1>1, Zenon DEF PoolStepInv
<1>n. ElementCount \in Nat /\ arrays \in Nat /\ i[t] > 0
  BY <1>0, <1>3, PoolAssumption DEF PoolTypeInv
<1>4. e \in Issued(arrays)
  <2>1. arrays \in 1 .. arrays
    BY <1>0, <1>3 DEF PoolTypeInv
  <2>. QED
    BY <1>3, <2>1 DEF Issued
<1>p. "pushed" \in Places /\ "pushed" # "idle" /\ DepthAt("pushed") = 3
  BY DEF Places, DepthAt
<1>5. /\ PoolLockInv' /\ pc' \in [Threads -> Places] /\ owner' \in Threads \cup {NoThread} /\ depth' \in Nat
      /\ pc'[t] = "pushed" /\ \A s \in Threads : s # t => pc'[s] = "idle"
  <2>1. owner' = (IF "pushed" = "idle" THEN NoThread ELSE t) /\ depth' = DepthAt("pushed")
    BY <1>1, <1>2, <1>p
  <2>. QED
    BY <1>0, <1>1, <1>2, <1>p, <2>1, LockStep, Zenon
<1>g. (\A s \in Threads : s # t => pc[s] \notin Growing) /\ (\A s \in Threads : s # t => pc'[s] \notin Growing)
  <2>1. "idle" \notin Growing
    BY DEF Growing
  <2>. QED
    BY <1>2, <1>5, <2>1, Zenon
<1>6. IP!Unpushed = LastOf(arrays, i[t])
  <2>1. /\ pc[t] \in {"each", "push"} /\ i[t] > 0 => Pending(arrays, pc, i) = LastOf(arrays, i[t])
        /\ pc[t] = "pushed" => Pending(arrays, pc, i) = LastOf(arrays, i[t] + 1)
        /\ pc[t] \notin Growing => Pending(arrays, pc, i) = {}
    BY ONLY <1>2, <1>g, t \in Threads, PendingFacts, Zenon
  <2>2. Pending(arrays, pc, i) = LastOf(arrays, i[t])
    BY ONLY <1>1, <1>n, <2>1
  <2>. QED
    BY <2>2, UnpushedIsPending, Zenon
<1>7. IP!Unpushed' = LastOf(arrays, i[t] + 1)
  <2>1. /\ pc'[t] \in {"each", "push"} /\ i[t] > 0 => Pending(arrays, pc', i) = LastOf(arrays, i[t])
        /\ pc'[t] = "pushed" => Pending(arrays, pc', i) = LastOf(arrays, i[t] + 1)
        /\ pc'[t] \notin Growing => Pending(arrays, pc', i) = {}
    BY ONLY <1>2, <1>g, t \in Threads, PendingFacts, Zenon
  <2>2. Pending(arrays, pc', i) = LastOf(arrays, i[t] + 1)
    BY ONLY <1>5, <2>1
  <2>. QED
    BY <1>1, <2>2, UnpushedIsPending, Zenon
<1>8. e \in LastOf(arrays, i[t]) /\ LastOf(arrays, i[t] + 1) = LastOf(arrays, i[t]) \ {e}
  <2>1. i[t] \in i[t] .. ElementCount
    BY <1>3, <1>n
  <2>2. e \in LastOf(arrays, i[t])
    BY <2>1 DEF LastOf
  <2>3. ASSUME NEW x \in LastOf(arrays, i[t] + 1) PROVE x \in LastOf(arrays, i[t]) /\ x # e
    <3>1. PICK n \in (i[t] + 1) .. ElementCount : x = <<arrays, n>>
      BY <2>3, Zenon DEF LastOf
    <3>2. n \in i[t] .. ElementCount /\ n # i[t]
      BY <1>n, <1>2
    <3>. QED
      BY <3>1, <3>2 DEF LastOf
  <2>4. ASSUME NEW x \in LastOf(arrays, i[t]), x # e PROVE x \in LastOf(arrays, i[t] + 1)
    <3>1. PICK n \in i[t] .. ElementCount : x = <<arrays, n>>
      BY <2>4, Zenon DEF LastOf
    <3>2. n \in (i[t] + 1) .. ElementCount
      BY <1>n, <1>2, <2>4, <3>1
    <3>. QED
      BY <3>1, <3>2 DEF LastOf
  <2>. QED
    BY <2>2, <2>3, <2>4
<1>9. e \notin ElementsOf(q)
  BY <1>0, <1>6, <1>8 DEF Apart
<1>10. /\ q' \in Seq(Issued(arrays)) /\ q' # << >> /\ Distinct(q')
       /\ ElementsOf(q') = ElementsOf(q) \cup {e}
  <2>1. q \in Seq(Issued(arrays))
    BY <1>0 DEF PoolTypeInv
  <2> HIDE DEF e
  <2>2. /\ Append(q, e) \in Seq(Issued(arrays)) /\ Append(q, e) # << >>
        /\ ElementsOf(Append(q, e)) = ElementsOf(q) \cup {e}
        /\ Distinct(q) /\ e \notin ElementsOf(q) => Distinct(Append(q, e))
    BY <1>4, <2>1, AppendedElements
  <2>. QED
    BY <1>0, <1>1, <1>9, <2>2
<1>11. PoolTypeInv'
  <2>1. /\ i' \in [Threads -> Nat] /\ arrays' \in Nat /\ m_dataPool' \in SUBSET (1 .. arrays')
        /\ m_waitingQueue' \in Seq(Issued(arrays')) /\ out' \in [Threads -> SUBSET Issued(arrays')]
    BY <1>0, <1>1, <1>10, Zenon DEF PoolTypeInv
  <2>. QED
    BY <1>5, <2>1, Zenon DEF PoolTypeInv
<1>12. PoolStepInv'
  <2>1. i'[t] \in 1 .. ElementCount /\ arrays' \in m_dataPool' /\ m_waitingQueue' # << >>
    BY <1>1, <1>3, <1>10, Zenon
  <2>. QED
    BY <1>5, <1>p, <2>1, StepInvFor, Zenon
<1>13. IP!Elements' = IP!Elements
  BY <1>1, Zenon DEF IP!Elements, IP!Array
<1> DEFINE E == IP!Elements
           u == IP!Unpushed
           z == ElementsOf(q)
<1>14. Apart(z \cup {e}, out, u \ {e}) /\ (AllThere(E, z, out, u) => AllThere(E, z \cup {e}, out, u \ {e}))
  <2> HIDE DEF E, u, z, e
  <2>1. Apart(z, out, u) /\ e \in u
    BY <1>0, <1>6, <1>8, Zenon DEF u, z
  <2>. QED
    BY ONLY <2>1, PushApart, Zenon
<1>15. Apart(ElementsOf(q'), out', IP!Unpushed')
       /\ (~ clearedInUse' => AllThere(IP!Elements', ElementsOf(q'), out', IP!Unpushed'))
  <2>1. IP!Unpushed' = u \ {e}
    BY ONLY <1>6, <1>7, <1>8
  <2>2. ElementsOf(q') = z \cup {e} /\ IP!Elements' = E /\ clearedInUse' = clearedInUse /\ out' = out
    BY <1>1, <1>10, <1>13, Zenon
  <2>3. ~ clearedInUse => AllThere(E, z, out, u)
    BY <1>0, Zenon
  <2> HIDE DEF E, u, z, e, q
  <2>. QED
    BY ONLY <1>14, <2>1, <2>2, <2>3, Zenon
<1>16. ~ emptyFront'
  BY <1>0, <1>1
<1>17. Distinct(m_waitingQueue')
  BY <1>10
<1>. QED
  BY <1>5, <1>11, <1>12, <1>15, <1>16, <1>17, Zenon DEF PoolInv

LEMMA EnqueueStep ==
  ASSUME PoolInv, NEW t \in Threads, NEW e \in out[t], IP!Enqueue(t, e) PROVE PoolInv'
<1> DEFINE q == m_waitingQueue
<1>0. /\ PoolTypeInv /\ PoolLockInv /\ PoolStepInv /\ ~ emptyFront
      /\ Distinct(q)
      /\ Apart(ElementsOf(q), out, IP!Unpushed)
      /\ ~ clearedInUse => AllThere(IP!Elements, ElementsOf(q), out, IP!Unpushed)
  BY Zenon DEF PoolInv
<1>1. /\ owner = NoThread
      /\ out' = [out EXCEPT ![t] = @ \ {e}] /\ q' = Append(q, e)
      /\ UNCHANGED <<owner, depth, m_dataPool, arrays, pc, i, emptyFront, clearedInUse>>
  BY DEF IP!Enqueue
<1>2. e \in Issued(arrays) /\ q \in Seq(Issued(arrays)) /\ out[t] \in SUBSET Issued(arrays)
  BY <1>0 DEF PoolTypeInv
<1>3. e \notin ElementsOf(q)
  BY <1>0 DEF Apart
<1>4. /\ q' \in Seq(Issued(arrays)) /\ q' # << >> /\ Distinct(q')
      /\ ElementsOf(q') = ElementsOf(q) \cup {e}
  BY <1>0, <1>1, <1>2, <1>3, AppendedElements
<1>5. out' \in [Threads -> SUBSET Issued(arrays)] /\ out'[t] = out[t] \ {e} /\ \A s \in Threads : s # t => out'[s] = out[s]
  BY <1>0, <1>1 DEF PoolTypeInv
<1>6. PoolTypeInv'
  BY <1>0, <1>1, <1>4, <1>5, Zenon DEF PoolTypeInv
<1>7. PoolLockInv'
  BY <1>0, <1>1, Zenon DEF PoolLockInv
<1>8. PoolStepInv'
  <2>1. \A s \in Threads : pc[s] = "idle"
    BY <1>0, <1>1, PoolAssumption, Zenon DEF PoolLockInv
  <2>2. \A s \in Threads : pc'[s] = "idle"
    BY <1>1, <2>1, Zenon
  <2>3. "idle" \notin {"take", "pushed", "grown"} /\ "idle" \notin {"each", "push", "pushed"}
    OBVIOUS
  <2>. QED
    BY <2>2, <2>3, Zenon DEF PoolStepInv
<1>9. IP!Unpushed' = IP!Unpushed /\ IP!Elements' = IP!Elements
  BY <1>1, Zenon DEF IP!Unpushed, IP!Elements, IP!Array
<1> DEFINE E == IP!Elements
           u == IP!Unpushed
           z == ElementsOf(q)
           o == out'
<1>10. Apart(z \cup {e}, o, u) /\ (AllThere(E, z, out, u) => AllThere(E, z \cup {e}, o, u))
  <2> HIDE DEF E, u, z, o
  <2>1. Apart(z, out, u) /\ o[t] = out[t] \ {e} /\ \A s \in Threads : s # t => o[s] = out[s]
    BY <1>0, <1>5, Zenon DEF u, z, o
  <2>. QED
    BY ONLY <2>1, t \in Threads, e \in out[t], GiveApart, Zenon
<1>11. Apart(ElementsOf(q'), out', IP!Unpushed')
       /\ (~ clearedInUse' => AllThere(IP!Elements', ElementsOf(q'), out', IP!Unpushed'))
  <2>1. ElementsOf(q') = z \cup {e} /\ IP!Unpushed' = u /\ IP!Elements' = E /\ clearedInUse' = clearedInUse
    BY <1>1, <1>4, <1>9, Zenon
  <2>2. ~ clearedInUse => AllThere(E, z, out, u)
    BY <1>0, Zenon
  <2> HIDE DEF E, u, z, o, q
  <2>3. Apart(z \cup {e}, out', u) /\ (AllThere(E, z, out, u) => AllThere(E, z \cup {e}, out', u))
    BY <1>10, Zenon DEF o
  <2>. QED
    BY ONLY <2>1, <2>2, <2>3, Zenon
<1>12. ~ emptyFront'
  BY <1>0, <1>1
<1>13. Distinct(m_waitingQueue')
  BY <1>4
<1>. QED
  BY <1>6, <1>7, <1>8, <1>11, <1>12, <1>13, Zenon DEF PoolInv

\* Every element of a new array is new.
LEMMA AllocStep ==
  ASSUME PoolInv, NEW t \in Threads, IP!Alloc(t) PROVE PoolInv'
<1> DEFINE q == m_waitingQueue
           a == arrays + 1
<1>0. /\ PoolTypeInv /\ PoolLockInv /\ PoolStepInv /\ ~ emptyFront
      /\ Distinct(q)
      /\ Apart(ElementsOf(q), out, IP!Unpushed)
      /\ ~ clearedInUse => AllThere(IP!Elements, ElementsOf(q), out, IP!Unpushed)
  BY Zenon DEF PoolInv
<1>1. /\ pc[t] = "alloc" /\ pc[t] # "idle" /\ pc[t] \notin Growing
      /\ pc' = [pc EXCEPT ![t] = "each"] /\ i' = [i EXCEPT ![t] = 1]
      /\ arrays' = a /\ m_dataPool' = m_dataPool \cup {a}
      /\ UNCHANGED <<owner, depth, m_waitingQueue, out, emptyFront, clearedInUse>>
  BY DEF IP!Alloc, IP!Goto, Growing
<1>2. /\ owner = t /\ depth = 2 /\ owner \in {NoThread, t}
  BY <1>1, PoolFacts DEF DepthAt
<1>n. ElementCount \in Nat \ {0} /\ arrays \in Nat /\ a \in Nat /\ a \notin 1 .. arrays /\ a \in 1 .. a
  BY <1>0, PoolAssumption DEF PoolTypeInv
<1>p. "each" \in Places /\ "each" # "idle" /\ DepthAt("each") = 2
  BY DEF Places, DepthAt
<1>3. /\ PoolLockInv' /\ pc' \in [Threads -> Places] /\ owner' \in Threads \cup {NoThread} /\ depth' \in Nat
      /\ pc'[t] = "each" /\ \A s \in Threads : s # t => pc'[s] = "idle"
  <2>1. owner' = (IF "each" = "idle" THEN NoThread ELSE t) /\ depth' = DepthAt("each")
    BY <1>1, <1>2, <1>p
  <2>. QED
    BY <1>0, <1>1, <1>2, <1>p, <2>1, LockStep, Zenon
<1>4. i' \in [Threads -> Nat] /\ i'[t] = 1
  BY <1>0, <1>1 DEF PoolTypeInv
<1>5. Issued(arrays) \subseteq Issued(a) /\ 1 .. arrays \subseteq 1 .. a
  BY <1>n DEF Issued
<1>6. q \in Seq(Issued(a)) /\ out \in [Threads -> SUBSET Issued(a)] /\ m_dataPool' \in SUBSET (1 .. a)
  <2>1. /\ q \in Seq(Issued(arrays)) /\ out \in [Threads -> SUBSET Issued(arrays)]
        /\ m_dataPool \in SUBSET (1 .. arrays)
    BY <1>0 DEF PoolTypeInv
  <2> HIDE DEF a
  <2>2. q \in Seq(Issued(a))
    BY <1>5, <2>1, SeqMonotonic
  <2>3. out \in [Threads -> SUBSET Issued(a)]
    BY <1>5, <2>1
  <2>4. m_dataPool' \in SUBSET (1 .. a)
    BY <1>1, <1>n, <1>5, <2>1
  <2>. QED
    BY <2>2, <2>3, <2>4
<1>7. PoolTypeInv'
  <2> HIDE DEF a
  <2>1. /\ arrays' \in Nat /\ m_dataPool' \in SUBSET (1 .. arrays')
        /\ m_waitingQueue' \in Seq(Issued(arrays')) /\ out' \in [Threads -> SUBSET Issued(arrays')]
    BY <1>1, <1>n, <1>6, Zenon
  <2>. QED
    BY <1>3, <1>4, <2>1, Zenon DEF PoolTypeInv
<1>8. PoolStepInv'
  <2>1. i'[t] \in 1 .. ElementCount /\ arrays' \in m_dataPool'
    BY <1>1, <1>4, <1>n
  <2>2. "each" \notin {"take", "pushed", "grown"}
    OBVIOUS
  <2>. QED
    BY <1>3, <1>p, <2>1, <2>2, StepInvFor, Zenon
<1>9. IP!Unpushed = {}
  BY <1>1, <1>2, NonePending, Zenon
<1>10. IP!Unpushed' = IP!Array(a)
  <2>1. \A s \in Threads : s # t => pc'[s] \notin Growing
    <3>1. "idle" \notin Growing
      BY DEF Growing
    <3>. QED
      BY <1>3, <3>1, Zenon
  <2>2. i'[t] \in Nat /\ i'[t] > 0
    BY <1>4
  <2> HIDE DEF a
  <2>3. pc'[t] \in {"each", "push"} /\ i'[t] > 0 => Pending(a, pc', i') = LastOf(a, i'[t])
    BY ONLY <2>1, <2>2, t \in Threads, PendingFacts, ZenonT(30)
  <2>4. Pending(a, pc', i') = LastOf(a, 1)
    BY ONLY <1>3, <1>4, <2>2, <2>3
  <2>5. LastOf(a, 1) = IP!Array(a)
    BY Zenon DEF LastOf, IP!Array
  <2>6. IP!Unpushed' = Pending(arrays', pc', i')
    BY UnpushedIsPending, Zenon
  <2>. QED
    BY ONLY <2>4, <2>5, <2>6, <1>1
<1>11. IP!Elements' = IP!Elements \cup IP!Array(a)
  <2> DEFINE P == IP!Elements'
             Q == IP!Elements
             R == IP!Array(a)
  <2> HIDE DEF a
  <2>1. \A x : x \in P <=> \E k \in m_dataPool \cup {a} : x \in IP!Array(k)
    BY <1>1, ZenonT(30) DEF IP!Elements, IP!Array
  <2>2. \A x : x \in Q <=> \E k \in m_dataPool : x \in IP!Array(k)
    BY Zenon DEF IP!Elements
  <2>3. \A x : x \in P <=> x \in Q \/ x \in R
    <3> HIDE DEF P, Q
    <3>1. \A x : (\E k \in m_dataPool \cup {a} : x \in IP!Array(k)) <=> (\E k \in m_dataPool : x \in IP!Array(k)) \/ x \in IP!Array(a)
      BY Zenon
    <3>. QED
      BY <2>1, <2>2, <3>1, Zenon
  <2>4. P = Q \cup R
    <3> HIDE DEF P, Q, R
    <3>. QED
      BY ONLY <2>3
  <2>. QED
    BY <2>4
<1>12. IP!Array(a) \cap Issued(arrays) = {}
  BY <1>n DEF IP!Array, Issued
<1>13. ElementsOf(q) \in SUBSET Issued(arrays) /\ \A s \in Threads : out[s] \in SUBSET Issued(arrays)
  BY <1>0, PoolSequence DEF PoolTypeInv
<1> DEFINE E == IP!Elements
           w == IP!Array(a)
           z == ElementsOf(q)
<1>14. Apart(z, out, w)
  <2>1. \A s, v \in Threads : s # v => out[s] \cap out[v] = {}
    BY <1>0, Zenon DEF Apart
  <2>2. \A s \in Threads : z \cap out[s] = {}
    BY <1>0, Zenon DEF Apart
  <2> HIDE DEF w, z
  <2>3. w \cap z = {} /\ \A s \in Threads : w \cap out[s] = {}
    BY <1>12, <1>13 DEF w, z
  <2>. QED
    BY <2>1, <2>2, <2>3, Zenon DEF Apart
<1>15. ASSUME AllThere(E, z, out, {}) PROVE AllThere(E \cup w, z, out, w)
  <2> HIDE DEF E, w, z
  <2>. QED
    BY <1>15 DEF AllThere
<1>16. Apart(ElementsOf(q'), out', IP!Unpushed')
       /\ (~ clearedInUse' => AllThere(IP!Elements', ElementsOf(q'), out', IP!Unpushed'))
  <2>1. ElementsOf(q') = z /\ clearedInUse' = clearedInUse /\ out' = out
    BY <1>1, Zenon
  <2>2. ~ clearedInUse => AllThere(E, z, out, {})
    BY <1>0, <1>9, Zenon
  <2>3. IP!Unpushed' = w /\ IP!Elements' = E \cup w
    BY <1>10, <1>11
  <2> HIDE DEF E, w, z, q
  <2>. QED
    BY ONLY <1>14, <1>15, <2>1, <2>2, <2>3, Zenon
<1>17. ~ emptyFront' /\ Distinct(m_waitingQueue')
  BY <1>0, <1>1, Zenon
<1>. QED
  BY <1>3, <1>7, <1>8, <1>16, <1>17, Zenon DEF PoolInv

LEMMA ClearStep ==
  ASSUME PoolInv, NEW t \in Threads, IP!Clear(t) PROVE PoolInv'
<1>0. /\ PoolTypeInv /\ PoolLockInv /\ PoolStepInv /\ ~ emptyFront
      /\ Apart(ElementsOf(m_waitingQueue), out, IP!Unpushed)
  BY Zenon DEF PoolInv
<1>1. /\ owner = NoThread /\ pc[t] = "idle" /\ pc[t] \notin Growing /\ owner \in {NoThread, t}
      /\ m_dataPool' = {} /\ m_waitingQueue' = << >>
      /\ clearedInUse' = (clearedInUse \/ \E u \in Threads : out[u] # {})
      /\ UNCHANGED <<owner, depth, arrays, pc, i, out, emptyFront>>
  BY DEF IP!Clear, Growing
<1>2. PoolTypeInv'
  <2>1. m_waitingQueue' \in Seq(Issued(arrays)) /\ m_dataPool' \in SUBSET (1 .. arrays)
    BY <1>1
  <2>. QED
    BY <1>0, <1>1, <2>1, Zenon DEF PoolTypeInv
<1>3. PoolLockInv'
  BY <1>0, <1>1, Zenon DEF PoolLockInv
<1>4. PoolStepInv'
  <2>1. \A s \in Threads : pc[s] = "idle"
    BY <1>0, <1>1, PoolAssumption, Zenon DEF PoolLockInv
  <2>2. \A s \in Threads : pc'[s] = "idle"
    BY <1>1, <2>1, Zenon
  <2>3. "idle" \notin {"take", "pushed", "grown"} /\ "idle" \notin {"each", "push", "pushed"}
    OBVIOUS
  <2>. QED
    BY <2>2, <2>3, Zenon DEF PoolStepInv
<1>5. IP!Unpushed = {}
  BY <1>1, NonePending, Zenon
<1>6. IP!Unpushed' = {}
  BY <1>1, <1>5, UnpushedIsPending, Zenon
<1>7. ElementsOf(m_waitingQueue') = {} /\ Distinct(m_waitingQueue') /\ IP!Elements' = {}
  BY <1>1 DEF ElementsOf, Distinct, IP!Elements
<1>8. Apart({}, out', {})
  <2>1. \A s, v \in Threads : s # v => out[s] \cap out[v] = {}
    BY <1>0, Zenon DEF Apart
  <2>2. \A S : {} \cap S = {}
    OBVIOUS
  <2>. QED
    BY <1>1, <2>1, <2>2, Zenon DEF Apart
<1>9. ~ clearedInUse' => AllThere({}, {}, out', {})
  <2>1. ~ clearedInUse' => \A s \in Threads : out'[s] = {}
    BY <1>1, Zenon
  <2>. QED
    BY <2>1 DEF AllThere
<1>. QED
  BY <1>0, <1>1, <1>2, <1>3, <1>4, <1>6, <1>7, <1>8, <1>9, Zenon DEF PoolInv

LEMMA PoolInitially ==
  ASSUME IP!Init PROVE PoolInv
<1>1. /\ owner = NoThread /\ depth = 0 /\ arrays \in 0 .. 1 /\ m_dataPool = 1 .. arrays
      /\ m_waitingQueue = [n \in 1 .. arrays * ElementCount |-> <<1, n>>]
      /\ pc = [t \in Threads |-> "idle"] /\ i = [t \in Threads |-> 0] /\ out = [t \in Threads |-> {}]
      /\ emptyFront = FALSE /\ clearedInUse = FALSE
  BY DEF IP!Init
<1>n. ElementCount \in Nat \ {0} /\ NoThread \notin Threads
  BY PoolAssumption
<1>a. (arrays = 0 /\ arrays * ElementCount = 0) \/ (arrays = 1 /\ arrays * ElementCount = ElementCount)
  BY <1>1, <1>n
<1>b. arrays * ElementCount \in Nat /\ arrays \in Nat
  BY <1>1, <1>n, <1>a
<1> DEFINE N == arrays * ElementCount
           q == [n \in 1 .. N |-> <<1, n>>]
<1>c. N \in Nat /\ ((arrays = 0 /\ N = 0) \/ (arrays = 1 /\ N = ElementCount))
  BY <1>a, <1>b
<1>d. m_waitingQueue = q
  BY <1>1
<1> HIDE DEF N
<1>2. \A n \in 1 .. N : <<1, n>> \in Issued(arrays)
  BY <1>c, <1>n DEF Issued
<1>3. q \in Seq(Issued(arrays)) /\ Len(q) = N /\ \A n \in 1 .. N : q[n] = <<1, n>>
  BY <1>c, <1>2
<1> HIDE DEF q
<1>4. PoolTypeInv
  <2>1. pc \in [Threads -> Places] /\ i \in [Threads -> Nat] /\ out \in [Threads -> SUBSET Issued(arrays)]
    BY <1>1 DEF Places
  <2>2. owner \in Threads \cup {NoThread} /\ depth \in Nat /\ m_dataPool \in SUBSET (1 .. arrays)
    BY <1>1
  <2>. QED
    BY <1>b, <1>d, <1>3, <2>1, <2>2, Zenon DEF PoolTypeInv
<1>5. \A t \in Threads : pc[t] = "idle" /\ out[t] = {}
  BY <1>1
<1>6. PoolLockInv
  BY <1>1, <1>5, <1>n DEF PoolLockInv
<1>7. PoolStepInv
  BY <1>5 DEF PoolStepInv
<1>8. Distinct(q)
  BY <1>3 DEF Distinct
<1>9. IP!Unpushed = {}
  BY <1>5 DEF IP!Unpushed
<1>10. ElementsOf(q) = IP!Elements
  <2>1. CASE arrays = 0 /\ N = 0
    <3>1. ElementsOf(q) = {}
      BY <1>3, <2>1 DEF ElementsOf
    <3>2. m_dataPool = {}
      BY <1>1, <2>1
    <3>3. IP!Elements = {}
      BY <3>2 DEF IP!Elements
    <3>. QED
      BY <3>1, <3>3
  <2>2. CASE arrays = 1 /\ N = ElementCount
    <3>1. m_dataPool = {1}
      BY <1>1, <2>2
    <3>2. IP!Elements = IP!Array(1)
      BY <3>1, Zenon DEF IP!Elements
    <3>3. ElementsOf(q) = IP!Array(1)
      BY <1>3, <2>2 DEF ElementsOf, IP!Array
    <3>. QED
      BY <3>2, <3>3
  <2>. QED
    BY <1>c, <2>1, <2>2
<1>11. Apart(ElementsOf(q), out, {})
  BY <1>5 DEF Apart
<1>12. AllThere(ElementsOf(q), ElementsOf(q), out, {})
  BY <1>5 DEF AllThere
<1>13. ~ emptyFront
  BY <1>1
<1>. QED
  BY <1>4, <1>6, <1>7, <1>8, <1>9, <1>10, <1>11, <1>12, <1>13, <1>d, Zenon DEF PoolInv

LEMMA PoolStep ==
  ASSUME PoolInv, [IP!Next]_(IP!vars) PROVE PoolInv'
<1>1. CASE UNCHANGED IP!vars
  <2>1. /\ UNCHANGED <<owner, depth, m_waitingQueue, m_dataPool, arrays, pc, i, out, emptyFront, clearedInUse>>
    BY <1>1 DEF IP!vars
  <2>2. IP!Unpushed' = IP!Unpushed /\ IP!Elements' = IP!Elements
    BY <2>1, Zenon DEF IP!Unpushed, IP!Elements, IP!Array
  <2>. QED
    BY <2>1, <2>2, Zenon DEF PoolInv, PoolTypeInv, PoolLockInv, PoolStepInv
<1>2. ASSUME NEW t \in Threads, IP!Dequeue(t) \/ IP!Grow(t) \/ IP!EachEnter(t) PROVE PoolInv'
  <2>1. \E p \in Places :
          /\ IP!Entering(t, pc[t], p) /\ IP!data' = IP!data
          /\ \/ pc[t] = "idle" /\ p = "test"
             \/ pc[t] = "grow" /\ p = "alloc"
             \/ pc[t] = "each" /\ p = "push"
    BY <1>2 DEF IP!Dequeue, IP!Grow, IP!EachEnter, IP!Entering, Places
  <2>. QED
    BY <2>1, PoolEnterStep, Zenon
<1>3. ASSUME NEW t \in Threads, IP!Dequeued(t) \/ IP!EachLeave(t) \/ IP!Grown(t) PROVE PoolInv'
  <2>0. PoolTypeInv
    BY DEF PoolInv
  <2>1. /\ UNCHANGED <<m_waitingQueue, m_dataPool, arrays, out, emptyFront, clearedInUse>>
        /\ i' \in [Threads -> Nat]
        /\ \E p \in Places :
             /\ IP!Leaving(t, pc[t], p)
             /\ \/ pc[t] = "dequeued" /\ p = "idle"
                \/ pc[t] = "pushed" /\ p = "each" /\ i[t] # ElementCount /\ i'[t] = i[t] + 1
                \/ pc[t] = "pushed" /\ p = "grown" /\ i[t] = ElementCount
                \/ pc[t] = "grown" /\ p = "take"
    <3>1. CASE IP!Dequeued(t)
      <4>1. UNCHANGED <<m_waitingQueue, m_dataPool, arrays, i, out, emptyFront, clearedInUse>>
        BY <3>1 DEF IP!Dequeued, IP!data
      <4>2. pc[t] = "dequeued" /\ IP!Leaving(t, pc[t], "idle") /\ "idle" \in Places
        BY <3>1 DEF IP!Dequeued, IP!Leaving, Places
      <4>. QED
        BY <2>0, <4>1, <4>2, Zenon DEF PoolTypeInv
    <3>2. CASE IP!Grown(t)
      <4>1. UNCHANGED <<m_waitingQueue, m_dataPool, arrays, i, out, emptyFront, clearedInUse>>
        BY <3>2 DEF IP!Grown, IP!data
      <4>2. pc[t] = "grown" /\ IP!Leaving(t, pc[t], "take") /\ "take" \in Places
        BY <3>2 DEF IP!Grown, IP!Leaving, Places
      <4>. QED
        BY <2>0, <4>1, <4>2, Zenon DEF PoolTypeInv
    <3>3. CASE IP!EachLeave(t)
      <4>1. UNCHANGED <<m_waitingQueue, m_dataPool, arrays, out, emptyFront, clearedInUse>>
        BY <3>3 DEF IP!EachLeave
      <4>2. i' \in [Threads -> Nat] /\ i'[t] = i[t] + 1
        BY <2>0, <3>3 DEF IP!EachLeave, PoolTypeInv
      <4>3. pc[t] = "pushed" /\ IP!Leaving(t, pc[t], IF i[t] = ElementCount THEN "grown" ELSE "each")
        BY <3>3 DEF IP!EachLeave, IP!Leaving
      <4>4. "grown" \in Places /\ "each" \in Places
        BY DEF Places
      <4>5. CASE i[t] = ElementCount
        <5>1. IP!Leaving(t, pc[t], "grown")
          BY <4>3, <4>5
        <5>. QED
          BY <4>1, <4>2, <4>3, <4>4, <4>5, <5>1, Zenon
      <4>6. CASE i[t] # ElementCount
        <5>1. IP!Leaving(t, pc[t], "each")
          BY <4>3, <4>6
        <5>. QED
          BY <4>1, <4>2, <4>3, <4>4, <4>6, <5>1, Zenon
      <4>. QED
        BY <4>5, <4>6, Zenon
    <3>. QED
      BY <1>3, <3>1, <3>2, <3>3, Zenon
  <2>. QED
    BY <2>1, PoolLeaveStep, Zenon
<1>. QED
  BY <1>1, <1>2, <1>3, TestEmptyStep, TakeStep, AllocStep, EachPushStep, EnqueueStep, ClearStep, Zenon DEF IP!Next

LEMMA PoolInvGives ==
  ASSUME PoolInv PROVE HandsOutOnce
<1> DEFINE q == m_waitingQueue
           X == IP!Out
<1>0. /\ PoolTypeInv /\ ~ emptyFront /\ Distinct(q)
      /\ Apart(ElementsOf(q), out, IP!Unpushed)
      /\ ~ clearedInUse => AllThere(IP!Elements, ElementsOf(q), out, IP!Unpushed)
  BY Zenon DEF PoolInv
<1>1. IP!ToSet(q) = ElementsOf(q) /\ IP!IsInjective(q)
  BY <1>0, PoolSequence DEF PoolTypeInv
<1>2. \A x : x \in X <=> \E t \in Threads : x \in out[t]
  BY Zenon DEF IP!Out
<1>3. ASSUME ~ clearedInUse PROVE IP!Elements = ElementsOf(q) \cup X \cup IP!Unpushed
  <2>1. AllThere(IP!Elements, ElementsOf(q), out, IP!Unpushed)
    BY <1>0, <1>3, Zenon
  <2> DEFINE E == IP!Elements
             z == ElementsOf(q)
             u == IP!Unpushed
  <2>2. \A x : x \in E <=> x \in z \/ x \in u \/ \E t \in Threads : x \in out[t]
    BY <2>1, Zenon DEF AllThere
  <2> HIDE DEF E, z, u, X
  <2>3. E = z \cup X \cup u
    BY ONLY <1>2, <2>2
  <2>. QED
    BY <2>3 DEF E, z, u
<1>5. ~ clearedInUse => IP!NoneLost
  BY <1>1, <1>3 DEF IP!NoneLost
<1>4. (\A t, u \in Threads : t # u => out[t] \cap out[u] = {}) /\ (\A t \in Threads : ElementsOf(q) \cap out[t] = {})
  BY <1>0, Zenon DEF Apart
<1>. QED
  BY <1>0, <1>1, <1>4, <1>5, Zenon DEF HandsOutOnce, IP!HandsOutOnce

\* However many threads take from the pools of the two servers, give back, and
\* find them empty at once, no two ever have the same element, the queue holds
\* none twice, front() is never called on an empty queue, and nothing is lost
\* unless the pool was cleared while in use: Dequeue, GrowPoolSize, Enqueue and
\* Clear of OverlappedIoPool and TcpSessionPool, for any size of the arrays.
THEOREM PoolHandsOutOnce == IP!Spec => []HandsOutOnce
<1>1. IP!Init => PoolInv
  BY PoolInitially
<1>2. PoolInv /\ [IP!Next]_(IP!vars) => PoolInv'
  BY PoolStep
<1>3. PoolInv => HandsOutOnce
  BY PoolInvGives
<1>. QED
  BY <1>1, <1>2, <1>3, PTL DEF IP!Spec

-----------------------------------------------------------------------------
(* The sample client.                                                      *)

Text == Seq(Chars \cup {SC!Newline})

ClientTypeInv ==
  /\ at \in {"prompt", "receiving", "quit"}
  /\ message \in Text /\ line \in Text /\ wire \in Text /\ back \in Text
  /\ strLen \in Int /\ readLen \in Int

\* s is what of the line comes after its first k characters, or a part of it.
PieceOf(s, k) == \A n \in 1 .. Len(s) : s[n] = line[k + n]

\* A round on its way: what came back was written over the same characters, and
\* what is still to come is what follows them.  A recv that failed has left
\* nothing to come.
ReceivingInv ==
  /\ Len(line) <= Len(message) /\ \A n \in 1 .. Len(line) : message[n] = line[n]
  /\ Len(line) = strLen \/ (strLen = -1 /\ Len(line) = 0)
  /\ readLen + Len(back) + Len(wire) <= Len(line)
  /\ readLen < 0 => Len(back) = 0 /\ Len(wire) = 0
  /\ PieceOf(back, readLen) /\ PieceOf(wire, readLen + Len(back))

ClientInv ==
  /\ ClientTypeInv
  /\ peerGone => Len(wire) = 0
  /\ underrun => peerGone
  /\ at = "prompt" => message = line /\ Len(wire) = 0 /\ Len(back) = 0
  /\ at = "receiving" => ReceivingInv

LEMMA ClientSeqs ==
  ASSUME ClientTypeInv
  PROVE  Len(message) \in Nat /\ Len(line) \in Nat /\ Len(wire) \in Nat /\ Len(back) \in Nat
  BY DEF ClientTypeInv, Text

LEMMA EmptyText ==
  ASSUME NEW s \in Text, Len(s) = 0 PROVE s = << >>
  BY DEF Text

\* The first n characters of a text, and the others.
LEMMA FirstChars ==
  ASSUME NEW s \in Text, NEW n \in 0 .. Len(s)
  PROVE  /\ SubSeq(s, 1, n) \in Text /\ Len(SubSeq(s, 1, n)) = n
         /\ \A k \in 1 .. n : SubSeq(s, 1, n)[k] = s[k]
  BY DEF Text

LEMMA OtherChars ==
  ASSUME NEW s \in Text, NEW n \in 0 .. Len(s)
  PROVE  /\ SubSeq(s, n + 1, Len(s)) \in Text /\ Len(SubSeq(s, n + 1, Len(s))) = Len(s) - n
         /\ \A k \in 1 .. Len(s) - n : SubSeq(s, n + 1, Len(s))[k] = s[n + k] /\ n + k \in 1 .. Len(s)
<1> DEFINE p == SubSeq(s, n + 1, Len(s))
<1>1. Len(s) \in Nat /\ n \in Nat /\ n <= Len(s) /\ \A k \in n + 1 .. Len(s) : s[k] \in Chars \cup {SC!Newline}
  BY DEF Text
<1>2. n + 1 \in Int /\ Len(s) \in Int
  BY <1>1
<1>3. /\ p \in Seq(Chars \cup {SC!Newline})
      /\ Len(p) = IF n + 1 <= Len(s) THEN Len(s) - (n + 1) + 1 ELSE 0
      /\ \A k \in 1 .. Len(s) - (n + 1) + 1 : p[k] = s[n + 1 + k - 1]
  BY <1>1, <1>2, SubSeqProperties
<1> HIDE DEF p
<1>4. p \in Text /\ Len(p) = Len(s) - n
  BY <1>1, <1>3 DEF Text
<1>5. ASSUME NEW k \in 1 .. Len(s) - n PROVE p[k] = s[n + k] /\ n + k \in 1 .. Len(s)
  <2>1. k \in 1 .. Len(s) - (n + 1) + 1 /\ n + 1 + k - 1 = n + k /\ n + k \in 1 .. Len(s)
    BY <1>1
  <2>. QED
    BY ONLY <1>3, <2>1
<1>. QED
  BY <1>4, <1>5 DEF p

LEMMA JoinedChars ==
  ASSUME NEW s \in Text, NEW v \in Text
  PROVE  /\ s \o v \in Text /\ Len(s \o v) = Len(s) + Len(v)
         /\ \A k \in 1 .. Len(s) + Len(v) : (s \o v)[k] = IF k <= Len(s) THEN s[k] ELSE v[k - Len(s)]
  BY ConcatProperties DEF Text

LEMMA LinesAreTexts ==
  ASSUME NEW s \in SC!Lines PROVE s \in Text
<1>1. ASSUME NEW u \in SC!Texts PROVE u \in Text /\ u \in Seq(Chars)
  <2>1. PICK n \in 0 .. BUF_SIZE - 1 : u \in [1 .. n -> Chars]
    BY <1>1, Zenon DEF SC!Texts
  <2>2. n \in Nat
    BY ClientAssumption
  <2>3. u \in [1 .. n -> Chars \cup {SC!Newline}]
    BY <2>1
  <2>. QED
    BY <2>1, <2>2, <2>3 DEF Text
<1>2. CASE s \in {Append(u, SC!Newline) : u \in {v \in SC!Texts : Len(v) < BUF_SIZE - 1}}
  <2>1. PICK u \in SC!Texts : s = Append(u, SC!Newline)
    BY <1>2
  <2>2. u \in Text
    BY <1>1
  <2>. QED
    BY <2>1, <2>2 DEF Text
<1>3. CASE s \in SC!Texts
  BY <1>1, <1>3
<1>4. s \in {Append(u, SC!Newline) : u \in {v \in SC!Texts : Len(v) < BUF_SIZE - 1}} \/ s \in SC!Texts
  BY Zenon DEF SC!Lines
<1>. QED
  BY <1>2, <1>3, <1>4

\* What a round sends is the message without its last character.
LEMMA SentFacts ==
  ASSUME NEW s \in Text
  PROVE  /\ SC!Sent(s) \in Text /\ Len(s) \in Nat
         /\ Len(SC!Sent(s)) <= Len(s) /\ \A n \in 1 .. Len(SC!Sent(s)) : s[n] = SC!Sent(s)[n]
         /\ Len(SC!Sent(s)) = Len(s) - 1 \/ (Len(s) - 1 = -1 /\ Len(SC!Sent(s)) = 0)
<1>0. Len(s) \in Nat
  BY DEF Text
<1>1. CASE Len(s) > 0
  <2>1. Len(s) - 1 \in 0 .. Len(s)
    BY <1>0, <1>1
  <2>2. /\ SC!Sent(s) \in Text /\ Len(SC!Sent(s)) = Len(s) - 1
        /\ \A k \in 1 .. Len(s) - 1 : SC!Sent(s)[k] = s[k]
    BY <2>1, FirstChars DEF SC!Sent
  <2>. QED
    BY <1>0, <2>2
<1>2. CASE Len(s) = 0
  <2>1. SC!Sent(s) = << >>
    BY <1>2, SubSeqEmpty DEF SC!Sent
  <2>. QED
    BY <1>0, <1>2, <2>1 DEF Text
<1>. QED
  BY <1>0, <1>1, <1>2

LEMMA SendStep ==
  ASSUME ClientInv, at = "prompt", NEW s \in Text, SC!Send(s), UNCHANGED <<back, peerGone, underrun>>
  PROVE  ClientInv'
<1>0. ClientTypeInv /\ Len(wire) = 0 /\ Len(back) = 0 /\ (underrun => peerGone)
  BY DEF ClientInv
<1>1. /\ strLen' = Len(s) - 1 /\ readLen' = 0 /\ message' = s /\ line' = SC!Sent(s)
      /\ wire' = (IF peerGone THEN wire ELSE wire \o line') /\ at' = "receiving"
  BY DEF SC!Send
<1>2. /\ line' \in Text /\ Len(s) \in Nat
      /\ Len(line') <= Len(s) /\ \A n \in 1 .. Len(line') : s[n] = line'[n]
      /\ Len(line') = Len(s) - 1 \/ (Len(s) - 1 = -1 /\ Len(line') = 0)
  BY <1>1, SentFacts
<1>3. wire = << >> /\ wire \in Text
  BY <1>0, EmptyText DEF ClientTypeInv
<1>4. wire' = IF peerGone THEN << >> ELSE line'
  BY <1>1, <1>2, <1>3 DEF Text
<1>5. ClientTypeInv'
  BY <1>0, <1>1, <1>2, <1>3, <1>4 DEF ClientTypeInv
<1>6. peerGone' => Len(wire') = 0
  BY <1>4
<1>7. Len(line') \in Nat /\ Len(back') = 0
  BY <1>0, <1>2 DEF Text
<1>8. ReceivingInv'
  <2>1. PieceOf(back, readLen)'
    BY <1>7 DEF PieceOf
  <2>2. PieceOf(wire, readLen + Len(back))'
    BY <1>1, <1>4, <1>7 DEF PieceOf
  <2>3. Len(line') <= Len(message') /\ (\A n \in 1 .. Len(line') : message'[n] = line'[n])
        /\ (Len(line') = strLen' \/ (strLen' = -1 /\ Len(line') = 0))
    BY <1>1, <1>2
  <2>4. readLen' + Len(back') + Len(wire') <= Len(line') /\ ~ (readLen' < 0)
    BY <1>1, <1>4, <1>7
  <2>. QED
    BY <2>1, <2>2, <2>3, <2>4 DEF ReceivingInv
<1>. QED
  BY <1>0, <1>1, <1>5, <1>6, <1>8 DEF ClientInv

\* What comes back goes over itself.
LEMMA OverwrittenFacts ==
  ASSUME ClientTypeInv, ReceivingInv, NEW n \in 0 .. Len(back), n > 0 => readLen >= 0
  PROVE  LET text == SC!Overwritten(SubSeq(back, 1, n), readLen) IN
         /\ text \in Text /\ Len(text) = Len(message)
         /\ \A k \in 1 .. Len(line) : text[k] = line[k]
<1> DEFINE s == SubSeq(back, 1, n)
           text == SC!Overwritten(s, readLen)
<1>0. Len(message) \in Nat /\ Len(line) \in Nat /\ Len(wire) \in Nat /\ Len(back) \in Nat /\ readLen \in Int /\ n \in Nat
  BY ClientSeqs DEF ClientTypeInv
<1>1. Len(s) = n /\ \A k \in 1 .. n : s[k] = back[k]
  BY <1>0 DEF ClientTypeInv, Text
<1>2. readLen + n <= Len(message)
  BY <1>0 DEF ReceivingInv
<1>3. text = [k \in 1 .. Len(message) |-> IF k - readLen \in 1 .. n THEN s[k - readLen] ELSE message[k]]
  <2> HIDE DEF s
  <2>1. ~ (readLen + Len(s) > Len(message))
    BY <1>0, <1>1, <1>2
  <2>. QED
    BY <1>1, <2>1 DEF SC!Overwritten
<1> HIDE DEF s, text
<1>4. \A k \in 1 .. Len(message) : k - readLen \in 1 .. n => readLen >= 0 /\ s[k - readLen] = back[k - readLen] /\ k - readLen \in 1 .. Len(back)
  BY <1>0, <1>1
<1>5. \A k \in 1 .. Len(back) : back[k] = line[readLen + k]
  BY DEF ReceivingInv, PieceOf
<1>6. (\A k \in 1 .. Len(back) : back[k] \in Chars \cup {SC!Newline}) /\ (\A k \in 1 .. Len(message) : message[k] \in Chars \cup {SC!Newline})
  BY DEF ClientTypeInv, Text
<1>7. \A k \in 1 .. Len(message) : text[k] \in Chars \cup {SC!Newline}
  BY <1>3, <1>4, <1>6
<1>8. text \in [1 .. Len(message) -> Chars \cup {SC!Newline}]
  BY <1>3, <1>7
<1>9. text \in Text /\ Len(text) = Len(message)
  BY <1>0, <1>8 DEF Text
<1>10. ASSUME NEW k \in 1 .. Len(line) PROVE text[k] = line[k]
  <2>1. k \in 1 .. Len(message) /\ message[k] = line[k]
    BY <1>0 DEF ReceivingInv
  <2>2. CASE k - readLen \in 1 .. n
    <3>1. text[k] = back[k - readLen] /\ k - readLen \in 1 .. Len(back)
      BY <1>3, <1>4, <2>1, <2>2
    <3>2. back[k - readLen] = line[readLen + (k - readLen)] /\ readLen + (k - readLen) = k
      BY <1>0, <1>5, <3>1
    <3>. QED
      BY ONLY <3>1, <3>2
  <2>3. CASE k - readLen \notin 1 .. n
    BY <1>3, <2>1, <2>3
  <2>. QED
    BY <2>2, <2>3
<1>. QED
  BY <1>9, <1>10 DEF text, s

LEMMA ReceivedStep ==
  ASSUME ClientInv, at = "receiving", NEW n \in 0 .. Len(back), NEW length \in Int,
         SC!Received(n, length),
         \/ n > 0 /\ length = n
         \/ n = 0 /\ length <= 0 /\ peerGone /\ Len(back) = 0,
         UNCHANGED <<strLen, wire, peerGone, line>>
  PROVE  ClientInv'
<1>0. ClientTypeInv /\ ReceivingInv /\ (peerGone => Len(wire) = 0) /\ (underrun => peerGone)
  BY DEF ClientInv
<1>1. /\ Len(message) \in Nat /\ Len(line) \in Nat /\ Len(wire) \in Nat /\ Len(back) \in Nat
      /\ readLen \in Int /\ strLen \in Int /\ n \in Nat
  BY <1>0, ClientSeqs DEF ClientTypeInv
<1>2. n > 0 => readLen >= 0
  BY <1>0, <1>1 DEF ReceivingInv
<1> DEFINE text == SC!Overwritten(SubSeq(back, 1, n), readLen)
<1>3. /\ text \in Text /\ Len(text) = Len(message)
      /\ \A k \in 1 .. Len(line) : text[k] = line[k]
  BY <1>0, <1>2, OverwrittenFacts
<1>4. /\ readLen' = readLen + length
      /\ message' = (IF readLen + length >= strLen THEN SubSeq(text, 1, strLen) ELSE text)
      /\ at' = (IF readLen + length >= strLen THEN "prompt" ELSE "receiving")
      /\ back' = SubSeq(back, n + 1, Len(back))
  BY DEF SC!Received
<1>d. underrun' => underrun \/ strLen < 0
  BY Zenon DEF SC!Received
<1> HIDE DEF text
<1>5. back' \in Text /\ Len(back') = Len(back) - n /\ \A k \in 1 .. Len(back) - n : back'[k] = back[n + k] /\ n + k \in 1 .. Len(back)
  BY <1>0, <1>4, OtherChars DEF ClientTypeInv
<1>b. Len(back') = Len(back) - n
  BY <1>5
<1>6. /\ Len(line) <= Len(message) /\ (Len(line) = strLen \/ (strLen = -1 /\ Len(line) = 0))
      /\ readLen + Len(back) + Len(wire) <= Len(line)
      /\ readLen < 0 => Len(back) = 0 /\ Len(wire) = 0
  BY <1>0 DEF ReceivingInv
<1>p. /\ \A k \in 1 .. Len(back) : back[k] = line[readLen + k]
      /\ \A k \in 1 .. Len(wire) : wire[k] = line[readLen + Len(back) + k]
  BY <1>0 DEF ReceivingInv, PieceOf
<1>w. /\ wire' = wire /\ line' = line /\ strLen' = strLen /\ peerGone' = peerGone
      /\ Len(wire') = Len(wire) /\ Len(line') = Len(line)
  OBVIOUS
<1>g. \/ n > 0 /\ length = n
      \/ n = 0 /\ length <= 0 /\ Len(wire) = 0 /\ Len(back) = 0
  BY <1>0
<1>h. n <= Len(back) /\ length \in Int
  OBVIOUS
<1>u. underrun' => peerGone'
  <2>1. strLen < 0 => n = 0
    BY ONLY <1>1, <1>6, <1>h
  <2>2. n = 0 => peerGone
    BY <1>1
  <2>3. underrun' => peerGone
    BY ONLY <1>0, <1>d, <2>1, <2>2, Zenon
  <2>4. peerGone => peerGone'
    BY Zenon
  <2>. QED
    BY ONLY <2>3, <2>4, Zenon
<1>l. /\ readLen + length >= strLen => Len(wire) = 0 /\ Len(back) - n = 0
      /\ (readLen + length) + (Len(back) - n) + Len(wire) <= Len(line)
      /\ readLen + length < 0 => Len(back) - n = 0 /\ Len(wire) = 0
      /\ Len(back) - n > 0 \/ Len(wire) > 0 => length = n
  <2> DEFINE b == Len(back)
             v == Len(wire)
             l == Len(line)
  <2>1. /\ readLen \in Int /\ strLen \in Int /\ n \in Nat /\ length \in Int /\ b \in Nat /\ v \in Nat /\ l \in Nat
        /\ n <= b /\ ((n > 0 /\ length = n) \/ (n = 0 /\ length <= 0 /\ v = 0 /\ b = 0))
        /\ (l = strLen \/ (strLen = -1 /\ l = 0)) /\ readLen + b + v <= l /\ (readLen < 0 => b = 0 /\ v = 0)
    BY <1>1, <1>6, <1>g, <1>h
  <2> HIDE DEF b, v, l
  <2>2. /\ readLen + length >= strLen => v = 0 /\ b - n = 0
        /\ (readLen + length) + (b - n) + v <= l
        /\ readLen + length < 0 => b - n = 0 /\ v = 0
        /\ b - n > 0 \/ v > 0 => length = n
    BY ONLY <2>1
  <2>. QED
    BY <2>2 DEF b, v, l
<1>r. readLen' = readLen + length
  BY <1>4
<1>7. CASE readLen + length >= strLen
  <2>1. message' = SubSeq(text, 1, strLen) /\ at' = "prompt"
    BY <1>4, <1>7
  <2>2. message' = line
    <3>1. CASE Len(line) = strLen
      <4>1. strLen \in 0 .. Len(text)
        BY <1>1, <1>3, <1>6, <3>1
      <4>2. message' \in Text /\ Len(message') = strLen /\ \A k \in 1 .. strLen : message'[k] = text[k]
        BY <1>3, <2>1, <4>1, FirstChars
      <4>3. Len(message') = Len(line) /\ \A k \in 1 .. Len(message') : message'[k] = line[k]
        BY ONLY <1>3, <3>1, <4>2
      <4>4. message' \in Seq(Chars \cup {SC!Newline}) /\ line \in Seq(Chars \cup {SC!Newline})
        BY <1>0, <4>2 DEF ClientTypeInv, Text
      <4>. QED
        BY <4>3, <4>4, SeqEqual
    <3>2. CASE strLen = -1 /\ Len(line) = 0
      <4>1. message' = << >>
        BY <2>1, <3>2, SubSeqEmpty
      <4>2. line = << >>
        BY <1>0, <3>2, EmptyText DEF ClientTypeInv
      <4>. QED
        BY <4>1, <4>2
    <3>. QED
      BY <1>6, <3>1, <3>2
  <2>3. Len(wire') = 0 /\ Len(back') = 0
    BY ONLY <1>7, <1>b, <1>l, <1>w
  <2>4. ClientTypeInv'
    <3>1. at' \in {"prompt", "receiving", "quit"} /\ readLen' \in Int /\ strLen' \in Int
      BY ONLY <1>1, <1>h, <1>r, <1>w, <2>1
    <3>2. message' \in Text /\ line' \in Text /\ wire' \in Text
      BY ONLY <1>0, <1>w, <2>2 DEF ClientTypeInv
    <3>. QED
      BY ONLY <1>5, <3>1, <3>2 DEF ClientTypeInv
  <2>. QED
    BY <1>u, <2>1, <2>2, <2>3, <2>4 DEF ClientInv
<1>8. CASE ~ (readLen + length >= strLen)
  <2>1. message' = text /\ at' = "receiving"
    BY <1>4, <1>8
  <2>2. ClientTypeInv'
    BY <1>0, <1>1, <1>3, <1>4, <1>5, <2>1 DEF ClientTypeInv
  <2>3. readLen' + Len(back') + Len(wire') <= Len(line') /\ (readLen' < 0 => Len(back') = 0 /\ Len(wire') = 0)
    BY ONLY <1>b, <1>l, <1>r, <1>w
  <2>4. \A k \in 1 .. Len(back') : back'[k] = line'[readLen' + k]
    <3> SUFFICES ASSUME NEW k \in 1 .. Len(back') PROVE back'[k] = line[readLen' + k]
      OBVIOUS
    <3>1. back'[k] = back[n + k] /\ n + k \in 1 .. Len(back) /\ n > 0
      BY ONLY <1>1, <1>5, <1>b, <1>g, k \in 1 .. Len(back')
    <3>2. back[n + k] = line[readLen + (n + k)] /\ readLen + (n + k) = readLen' + k
      <4>1. length = n
        BY ONLY <1>1, <1>b, <1>l, k \in 1 .. Len(back')
      <4>2. readLen + (n + k) = readLen' + k
        BY ONLY <1>1, <1>r, <4>1, k \in 1 .. Len(back')
      <4>. QED
        BY ONLY <1>p, <3>1, <4>2
    <3>. QED
      BY ONLY <3>1, <3>2
  <2>5. \A k \in 1 .. Len(wire') : wire'[k] = line'[readLen' + Len(back') + k]
    <3> SUFFICES ASSUME NEW k \in 1 .. Len(wire) PROVE wire[k] = line[readLen' + Len(back') + k]
      OBVIOUS
    <3>1. n > 0 /\ length = n /\ k \in Int
      BY ONLY <1>1, <1>g, k \in 1 .. Len(wire)
    <3>2. wire[k] = line[readLen + Len(back) + k] /\ readLen + Len(back) + k = readLen' + Len(back') + k
      <4>1. readLen + Len(back) + k = readLen' + Len(back') + k
        BY ONLY <1>1, <1>b, <1>r, <3>1
      <4>. QED
        BY ONLY <1>p, <4>1, k \in 1 .. Len(wire)
    <3>. QED
      BY ONLY <3>2
  <2>6. Len(line') <= Len(message') /\ (\A k \in 1 .. Len(line') : message'[k] = line'[k])
        /\ (Len(line') = strLen' \/ (strLen' = -1 /\ Len(line') = 0))
    BY <1>3, <1>6, <2>1
  <2>7. ReceivingInv'
    BY <2>3, <2>4, <2>5, <2>6 DEF ReceivingInv, PieceOf
  <2>. QED
    BY <1>0, <1>u, <2>1, <2>2, <2>7 DEF ClientInv
<1>. QED
  BY <1>7, <1>8

LEMMA EchoStep ==
  ASSUME ClientInv, NEW n \in 1 .. BUF_SIZE - 1, SC!Echo(n) PROVE ClientInv'
<1>0. ClientTypeInv /\ (peerGone => Len(wire) = 0) /\ (underrun => peerGone)
  BY DEF ClientInv
<1>1. /\ n <= Len(wire) /\ back' = back \o SubSeq(wire, 1, n) /\ wire' = SubSeq(wire, n + 1, Len(wire))
      /\ UNCHANGED <<at, message, strLen, readLen, peerGone, underrun, line>>
  BY DEF SC!Echo
<1>2. Len(line) \in Nat /\ Len(wire) \in Nat /\ Len(back) \in Nat /\ readLen \in Int /\ n \in Nat /\ n > 0
  BY <1>0, ClientSeqs, ClientAssumption DEF ClientTypeInv
<1> DEFINE p == SubSeq(wire, 1, n)
<1>a. n \in 0 .. Len(wire) /\ wire \in Text /\ back \in Text
  BY <1>0, <1>1, <1>2 DEF ClientTypeInv
<1>3. p \in Text /\ Len(p) = n /\ \A k \in 1 .. n : p[k] = wire[k]
  BY <1>a, FirstChars
<1>4. wire' \in Text /\ Len(wire') = Len(wire) - n /\ \A k \in 1 .. Len(wire) - n : wire'[k] = wire[n + k] /\ n + k \in 1 .. Len(wire)
  BY <1>1, <1>a, OtherChars
<1> HIDE DEF p
<1>5. /\ back' \in Text /\ Len(back') = Len(back) + n
      /\ \A k \in 1 .. Len(back) + n : back'[k] = IF k <= Len(back) THEN back[k] ELSE p[k - Len(back)]
  <2>1. back' = back \o p
    BY <1>1 DEF p
  <2>2. /\ back \o p \in Text /\ Len(back \o p) = Len(back) + Len(p)
        /\ \A k \in 1 .. Len(back) + Len(p) : (back \o p)[k] = IF k <= Len(back) THEN back[k] ELSE p[k - Len(back)]
    BY <1>a, <1>3, JoinedChars
  <2>. QED
    BY <1>3, <2>1, <2>2
<1>b. Len(back') = Len(back) + n /\ Len(wire') = Len(wire) - n
  BY <1>4, <1>5
<1>6. ClientTypeInv'
  BY <1>0, <1>1, <1>4, <1>5 DEF ClientTypeInv
<1>7. at # "prompt" /\ ~ peerGone
  BY <1>1, <1>2 DEF ClientInv
<1>8. ASSUME at = "receiving" PROVE ReceivingInv'
  <2>1. /\ Len(line) <= Len(message) /\ (\A k \in 1 .. Len(line) : message[k] = line[k])
        /\ (Len(line) = strLen \/ (strLen = -1 /\ Len(line) = 0))
        /\ readLen + Len(back) + Len(wire) <= Len(line)
        /\ readLen < 0 => Len(back) = 0 /\ Len(wire) = 0
        /\ \A k \in 1 .. Len(back) : back[k] = line[readLen + k]
        /\ \A k \in 1 .. Len(wire) : wire[k] = line[readLen + Len(back) + k]
    BY <1>8 DEF ClientInv, ReceivingInv, PieceOf
  <2>0. readLen + Len(back) + Len(wire) <= Len(line) /\ (readLen < 0 => Len(back) = 0 /\ Len(wire) = 0)
    BY <2>1
  <2>p. /\ \A k \in 1 .. Len(back) : back[k] = line[readLen + k]
        /\ \A k \in 1 .. Len(wire) : wire[k] = line[readLen + Len(back) + k]
    BY <2>1
  <2>2. readLen' + Len(back') + Len(wire') <= Len(line') /\ ~ (readLen' < 0)
    <3>1. readLen' = readLen /\ line' = line /\ n <= Len(wire)
      BY <1>1
    <3>2. ~ (readLen < 0)
      BY ONLY <1>2, <2>0, <3>1
    <3>3. readLen + (Len(back) + n) + (Len(wire) - n) <= Len(line)
      BY ONLY <1>2, <2>0
    <3>. QED
      BY ONLY <1>b, <3>1, <3>2, <3>3
  <2>3. ASSUME NEW k \in 1 .. Len(back') PROVE back'[k] = line[readLen + k]
    <3>1. CASE k <= Len(back)
      <4>1. k \in 1 .. Len(back) + n /\ k \in 1 .. Len(back)
        BY <1>2, <1>b, <3>1
      <4>. QED
        BY ONLY <1>5, <2>p, <3>1, <4>1
    <3>2. CASE ~ (k <= Len(back))
      <4>1. back'[k] = wire[k - Len(back)] /\ k - Len(back) \in 1 .. Len(wire)
        <5>1. k \in 1 .. Len(back) + n /\ k - Len(back) \in 1 .. n /\ k - Len(back) \in 1 .. Len(wire)
          BY <1>1, <1>2, <1>b, <3>2
        <5>. QED
          BY ONLY <1>3, <1>5, <3>2, <5>1
      <4>2. wire[k - Len(back)] = line[readLen + Len(back) + (k - Len(back))] /\ readLen + Len(back) + (k - Len(back)) = readLen + k
        <5>1. k \in Int
          OBVIOUS
        <5>2. readLen + Len(back) + (k - Len(back)) = readLen + k
          BY ONLY <1>2, <5>1
        <5>. QED
          BY ONLY <2>p, <4>1, <5>2
      <4>. QED
        BY ONLY <4>1, <4>2
    <3>. QED
      BY <3>1, <3>2
  <2>4. ASSUME NEW k \in 1 .. Len(wire') PROVE wire'[k] = line[readLen + Len(back') + k]
    <3>1. wire'[k] = wire[n + k] /\ n + k \in 1 .. Len(wire)
      BY ONLY <1>2, <1>4, <1>b, k \in 1 .. Len(wire')
    <3>2. wire[n + k] = line[readLen + Len(back) + (n + k)] /\ readLen + Len(back) + (n + k) = readLen + Len(back') + k
      BY ONLY <1>2, <1>b, <2>p, <3>1, k \in 1 .. Len(wire')
    <3>. QED
      BY ONLY <3>1, <3>2
  <2>5. PieceOf(back, readLen)' /\ PieceOf(wire, readLen + Len(back))'
    BY <1>1, <2>3, <2>4 DEF PieceOf
  <2>. QED
    BY <1>1, <2>1, <2>2, <2>5 DEF ReceivingInv
<1>. QED
  BY <1>0, <1>1, <1>6, <1>7, <1>8 DEF ClientInv

LEMMA PeerClosesStep ==
  ASSUME ClientInv, SC!PeerCloses PROVE ClientInv'
<1>0. ClientTypeInv
  BY DEF ClientInv
<1>1. peerGone' = TRUE /\ wire' = << >> /\ UNCHANGED <<at, message, strLen, readLen, back, line>>
  BY DEF SC!PeerCloses
<1>2. Len(line) \in Nat /\ Len(wire) \in Nat /\ Len(back) \in Nat /\ readLen \in Int /\ wire' \in Text /\ Len(wire') = 0
  BY <1>0, <1>1, ClientSeqs DEF ClientTypeInv, Text
<1>3. ClientTypeInv'
  BY <1>0, <1>1, <1>2 DEF ClientTypeInv
<1>4. ASSUME at = "receiving" PROVE ReceivingInv'
  <2>1. ReceivingInv
    BY <1>4 DEF ClientInv
  <2>2. PieceOf(back, readLen)'
    BY <1>1, <2>1 DEF ReceivingInv, PieceOf
  <2>3. PieceOf(wire, readLen + Len(back))'
    BY <1>2 DEF PieceOf
  <2>4. readLen' + Len(back') + Len(wire') <= Len(line') /\ (readLen' < 0 => Len(back') = 0 /\ Len(wire') = 0)
    BY <1>1, <1>2, <2>1 DEF ReceivingInv
  <2>. QED
    BY <1>1, <2>1, <2>2, <2>3, <2>4 DEF ReceivingInv
<1>. QED
  BY <1>1, <1>2, <1>3, <1>4 DEF ClientInv

LEMMA ClientStep ==
  ASSUME ClientInv, [SC!Next]_(SC!vars) PROVE ClientInv'
<1>0. ClientTypeInv /\ Len(back) \in Nat
  BY ClientSeqs DEF ClientInv
<1>1. CASE UNCHANGED SC!vars
  BY <1>1 DEF SC!vars, ClientInv, ClientTypeInv, ReceivingInv, PieceOf
<1>2. ASSUME NEW s \in SC!Lines, SC!GetLine(s) PROVE ClientInv'
  <2>1. at = "prompt" /\ SC!Send(s) /\ UNCHANGED <<back, peerGone, underrun>>
    BY <1>2 DEF SC!GetLine
  <2>. QED
    BY <2>1, LinesAreTexts, SendStep
<1>3. CASE SC!EndOfInput
  <2>1. at = "prompt" /\ SC!Send(message) /\ UNCHANGED <<back, peerGone, underrun>>
    BY <1>3 DEF SC!EndOfInput
  <2>2. message \in Text
    BY <1>0 DEF ClientTypeInv
  <2>. QED
    BY <2>1, <2>2, SendStep
<1>4. CASE SC!Quit
  BY <1>4 DEF SC!Quit, ClientInv, ClientTypeInv
<1>5. ASSUME NEW n \in 1 .. BUF_SIZE - 1, SC!Receive(n) PROVE ClientInv'
  <2>1. /\ at = "receiving" /\ n <= Len(back) /\ SC!Received(n, n)
        /\ UNCHANGED <<strLen, wire, peerGone, line>>
    BY <1>5 DEF SC!Receive
  <2>2. n \in 0 .. Len(back) /\ n \in Int /\ n > 0
    BY <1>0, <2>1, ClientAssumption
  <2>. QED
    BY <2>1, <2>2, ReceivedStep
<1>6. ASSUME NEW e \in {0, -1}, SC!ReceiveFails(e) PROVE ClientInv'
  <2>1. /\ at = "receiving" /\ peerGone /\ back = << >> /\ SC!Received(0, e)
        /\ UNCHANGED <<strLen, wire, peerGone, line>>
    BY <1>6 DEF SC!ReceiveFails
  <2>2. 0 \in 0 .. Len(back) /\ e \in Int /\ e <= 0 /\ Len(back) = 0
    BY <1>0, <2>1
  <2>. QED
    BY <2>1, <2>2, ReceivedStep
<1>. QED
  BY <1>1, <1>2, <1>3, <1>4, <1>5, <1>6, EchoStep, PeerClosesStep, Zenon DEF SC!Next

\* Whatever pieces the echo comes back in, and whenever the peer goes away,
\* every round of SampleClient ends with the characters it sent and with nothing
\* under way, recv never writes behind them, and the 0 is written before the
\* buffer only once the peer is gone: the loops of main, for any lines and any
\* buffer size.
THEOREM RoundsStayInStep == SC!Spec => []RoundsInStep
<1>1. SC!Init => ClientInv
  BY DEF SC!Init, ClientInv, ClientTypeInv, Text
<1>2. ClientInv /\ [SC!Next]_(SC!vars) => ClientInv'
  BY ClientStep
<1>3. ClientInv => RoundsInStep
  <2> SUFFICES ASSUME ClientInv PROVE RoundsInStep
    OBVIOUS
  <2>0. ClientTypeInv
    BY DEF ClientInv
  <2>1. at = "prompt" => message = line /\ wire = << >> /\ back = << >>
    BY <2>0, EmptyText DEF ClientInv, ClientTypeInv
  <2>2. at = "receiving" => readLen + Len(back) + Len(wire) <= (IF strLen > 0 THEN strLen ELSE 0)
    BY <2>0, ClientSeqs DEF ClientInv, ClientTypeInv, ReceivingInv
  <2>3. underrun => peerGone
    BY DEF ClientInv
  <2>. QED
    BY <2>1, <2>2, <2>3 DEF RoundsInStep, SC!RoundsInStep
<1>. QED
  BY <1>1, <1>2, <1>3, PTL DEF SC!Spec

-----------------------------------------------------------------------------
(* The factory registry.                                                   *)

MaybeFactory == FR!Factories \cup {FR!NoFactory}

RegistryTypeInv ==
  /\ data \in [Names -> MaybeFactory] /\ made \in 0 .. MaxFactories
  /\ typeName \in [FR!Factories -> Names]
  /\ autoPtr \in [Threads -> MaybeFactory] /\ found \in [Threads -> MaybeFactory]
  /\ putAt \in [Threads -> {"idle", "put", "release"}]
  /\ deleted \in [FR!Factories -> Nat]

\* The registry keeps factories that exist, each under its own name.
KeptInv ==
  \A n \in Names : data[n] # FR!NoFactory =>
    data[n] \in 1 .. made /\ typeName[data[n]] = n /\ deleted[data[n]] = 0

\* What a put is about to hand over is nobody else's.
PuttingInv ==
  \A t \in Threads : putAt[t] = "put" =>
    /\ autoPtr[t] \in 1 .. made /\ deleted[autoPtr[t]] = 0
    /\ \A n \in Names : data[n] # autoPtr[t]
    /\ \A u \in Threads : u # t /\ putAt[u] = "put" => autoPtr[u] # autoPtr[t]

\* Whatever is not deleted, once, is kept or about to be.
OwnedInv ==
  \A f \in FR!Factories :
    /\ deleted[f] \in {0, 1} /\ (f > made => deleted[f] = 0)
    /\ f <= made /\ deleted[f] = 0 =>
         (\E n \in Names : data[n] = f) \/ (\E t \in Threads : putAt[t] = "put" /\ autoPtr[t] = f)

\* Until the registry is destroyed what was looked up is still in it.
FoundInv ==
  ~ destroyed => \A t \in Threads : found[t] # FR!NoFactory => \E n \in Names : data[n] = found[t]

RegistryInv ==
  RegistryTypeInv /\ KeptInv /\ PuttingInv /\ OwnedInv /\ FoundInv /\ (crashed => destroyed)

LEMMA RegistryCardinality ==
  ASSUME NEW S PROVE FR!Cardinality(S) = Cardinality(S)
  BY DEF FR!Cardinality, Cardinality

LEMMA MadeAreFactories ==
  ASSUME RegistryTypeInv, NEW f \in 1 .. made
  PROVE  f \in FR!Factories /\ f \in Nat /\ f # FR!NoFactory /\ f <= made
  BY RegistryAssumption DEF RegistryTypeInv, FR!Factories, FR!NoFactory

LEMMA FactoryFacts ==
  ASSUME NEW f \in FR!Factories
  PROVE  f \in Nat /\ f # FR!NoFactory /\ f \in MaybeFactory /\ f \in 1 .. MaxFactories
  BY RegistryAssumption DEF FR!Factories, FR!NoFactory, MaybeFactory

\* The invariant says who owns a factory.
LEMMA OwnedOnce ==
  ASSUME RegistryInv PROVE FactoriesOwnedOnce
<1>0. RegistryTypeInv /\ KeptInv /\ PuttingInv /\ OwnedInv /\ (crashed => destroyed)
  BY DEF RegistryInv
<1>e. Cardinality({}) = 0
  BY FS_EmptySet
<1>s. ASSUME NEW z PROVE Cardinality({z}) = 1
  BY FS_Singleton
<1>1. ASSUME NEW f \in 1 .. made
      PROVE  FR!Cardinality(FR!Kept(f)) + FR!Cardinality(FR!Putting(f)) + deleted[f] = 1
  <2>0. f \in FR!Factories /\ f # FR!NoFactory /\ f <= made
    BY <1>0, MadeAreFactories
  <2>1. ASSUME NEW n \in Names, data[n] = f
        PROVE  FR!Kept(f) = {n} /\ FR!Putting(f) = {} /\ deleted[f] = 0
    <3>1. \A x \in Names : data[x] = f => x = n
      BY <1>0, <2>0, <2>1, Zenon DEF KeptInv
    <3>2. FR!Kept(f) = {n}
      BY <2>1, <3>1 DEF FR!Kept
    <3>3. FR!Putting(f) = {} /\ deleted[f] = 0
      BY <1>0, <2>0, <2>1, Zenon DEF KeptInv, PuttingInv, FR!Putting
    <3>. QED
      BY <3>2, <3>3
  <2>2. ASSUME NEW t \in Threads, putAt[t] = "put", autoPtr[t] = f
        PROVE  FR!Kept(f) = {} /\ FR!Putting(f) = {t} /\ deleted[f] = 0
    <3>1. \A u \in Threads : putAt[u] = "put" /\ autoPtr[u] = f => u = t
      BY <1>0, <2>2, Zenon DEF PuttingInv
    <3>2. FR!Putting(f) = {t}
      BY <2>2, <3>1 DEF FR!Putting
    <3>3. FR!Kept(f) = {} /\ deleted[f] = 0
      BY <1>0, <2>2, Zenon DEF PuttingInv, FR!Kept
    <3>. QED
      BY <3>2, <3>3
  <2>3. CASE deleted[f] = 0
    <3>1. (\E n \in Names : data[n] = f) \/ (\E t \in Threads : putAt[t] = "put" /\ autoPtr[t] = f)
      BY <1>0, <2>0, <2>3, Zenon DEF OwnedInv
    <3>2. CASE \E n \in Names : data[n] = f
      <4>1. PICK n \in Names : data[n] = f
        BY <3>2
      <4>2. FR!Cardinality(FR!Kept(f)) = 1 /\ FR!Cardinality(FR!Putting(f)) = 0
        BY <1>e, <1>s, <2>1, <4>1, RegistryCardinality, Zenon
      <4>. QED
        BY <2>3, <4>2
    <3>3. CASE \E t \in Threads : putAt[t] = "put" /\ autoPtr[t] = f
      <4>1. PICK t \in Threads : putAt[t] = "put" /\ autoPtr[t] = f
        BY <3>3
      <4>2. FR!Cardinality(FR!Kept(f)) = 0 /\ FR!Cardinality(FR!Putting(f)) = 1
        BY <1>e, <1>s, <2>2, <4>1, RegistryCardinality, Zenon
      <4>. QED
        BY <2>3, <4>2
    <3>. QED
      BY <3>1, <3>2, <3>3, Zenon
  <2>4. CASE deleted[f] # 0
    <3>1. deleted[f] = 1
      BY <1>0, <2>0, <2>4 DEF OwnedInv
    <3>2. FR!Kept(f) = {} /\ FR!Putting(f) = {}
      <4>1. \A n \in Names : data[n] # f
        BY <2>1, <2>4, Zenon
      <4>2. \A t \in Threads : ~ (autoPtr[t] = f /\ putAt[t] = "put")
        BY <2>2, <2>4, Zenon
      <4>. QED
        BY <4>1, <4>2 DEF FR!Kept, FR!Putting
    <3>3. FR!Cardinality(FR!Kept(f)) = 0 /\ FR!Cardinality(FR!Putting(f)) = 0
      BY <1>e, <3>2, RegistryCardinality, Zenon
    <3>. QED
      BY <3>1, <3>3
  <2>. QED
    BY <2>3, <2>4, Zenon
<1>. QED
  BY <1>0, <1>1, Zenon DEF FactoriesOwnedOnce, FR!FactoriesOwnedOnce

LEMMA RegProductStep ==
  ASSUME RegistryInv, NEW t \in Threads, FR!RegProduct(t) PROVE RegistryInv'
<1> DEFINE new == made + 1
<1>0. RegistryTypeInv /\ KeptInv /\ PuttingInv /\ OwnedInv /\ FoundInv /\ (crashed => destroyed)
  BY DEF RegistryInv
<1>1. /\ made' = new /\ new \in FR!Factories /\ made \in Nat /\ new \in 0 .. MaxFactories
      /\ new # FR!NoFactory /\ new \in 1 .. new /\ new > made
      /\ UNCHANGED <<data, typeName, found, deleted, crashed, destroyed>>
      /\ \A f \in 1 .. made : f \in 1 .. new /\ f # new
      /\ \A f \in FR!Factories : (f > new => f > made) /\ (f <= new => f = new \/ f <= made)
  BY <1>0, RegistryAssumption DEF FR!RegProduct, RegistryTypeInv, FR!Factories, FR!NoFactory
<1>2. /\ autoPtr' \in [Threads -> MaybeFactory] /\ putAt' \in [Threads -> {"idle", "put", "release"}]
      /\ autoPtr'[t] = new /\ putAt'[t] = "put" /\ putAt[t] = "idle"
      /\ \A u \in Threads : u # t => autoPtr'[u] = autoPtr[u] /\ putAt'[u] = putAt[u]
  BY <1>0, <1>1 DEF FR!RegProduct, RegistryTypeInv, MaybeFactory
<1>3. RegistryTypeInv'
  BY <1>0, <1>1, <1>2 DEF RegistryTypeInv
<1>. HIDE DEF new
<1>4. KeptInv'
  BY <1>0, <1>1, Zenon DEF KeptInv
<1>5. \A n \in Names : data[n] # new
  BY <1>0, <1>1, Zenon DEF KeptInv
<1>6. deleted[new] = 0
  BY <1>0, <1>1, Zenon DEF OwnedInv
<1>7. PuttingInv'
  <2> SUFFICES ASSUME NEW u \in Threads, putAt'[u] = "put"
               PROVE  /\ autoPtr'[u] \in 1 .. new /\ deleted[autoPtr'[u]] = 0
                      /\ \A n \in Names : data[n] # autoPtr'[u]
                      /\ \A v \in Threads : v # u /\ putAt'[v] = "put" => autoPtr'[v] # autoPtr'[u]
    BY <1>1, Zenon DEF PuttingInv
  <2>0. \A v \in Threads : v # t /\ putAt'[v] = "put" =>
          putAt[v] = "put" /\ autoPtr'[v] = autoPtr[v] /\ autoPtr[v] \in 1 .. made /\ autoPtr[v] # new
    BY <1>0, <1>1, <1>2, Zenon DEF PuttingInv
  <2>1. CASE u = t
    BY <1>1, <1>2, <1>5, <1>6, <2>0, <2>1, Zenon
  <2>2. CASE u # t
    <3>1. /\ putAt[u] = "put" /\ autoPtr'[u] = autoPtr[u] /\ autoPtr[u] \in 1 .. made /\ autoPtr[u] # new
          /\ deleted[autoPtr[u]] = 0 /\ \A n \in Names : data[n] # autoPtr[u]
          /\ \A v \in Threads : v # u /\ putAt[v] = "put" => autoPtr[v] # autoPtr[u]
      BY <1>0, <2>0, <2>2, Zenon DEF PuttingInv
    <3>2. ASSUME NEW v \in Threads, v # u, putAt'[v] = "put" PROVE autoPtr'[v] # autoPtr'[u]
      BY <1>2, <2>0, <3>1, <3>2, Zenon
    <3>. QED
      BY <1>1, <3>1, <3>2, Zenon
  <2>. QED
    BY <2>1, <2>2, Zenon
<1>8. OwnedInv'
  <2> SUFFICES ASSUME NEW f \in FR!Factories
               PROVE  /\ deleted[f] \in {0, 1} /\ (f > new => deleted[f] = 0)
                      /\ f <= new /\ deleted[f] = 0 =>
                           \/ \E n \in Names : data[n] = f
                           \/ \E u \in Threads : putAt'[u] = "put" /\ autoPtr'[u] = f
    BY <1>1, Zenon DEF OwnedInv
  <2>1. deleted[f] \in {0, 1} /\ (f > new => deleted[f] = 0)
    BY <1>0, <1>1, Zenon DEF OwnedInv
  <2>2. ASSUME f <= made, deleted[f] = 0
        PROVE  \/ \E n \in Names : data[n] = f
               \/ \E u \in Threads : putAt'[u] = "put" /\ autoPtr'[u] = f
    <3>1. "put" # "idle"
      OBVIOUS
    <3>. QED
      BY <1>0, <1>2, <2>2, <3>1, ZenonT(30) DEF OwnedInv
  <2>. QED
    BY <1>1, <1>2, <2>1, <2>2, Zenon
<1>9. FoundInv' /\ (crashed' => destroyed')
  BY <1>0, <1>1, Zenon DEF FoundInv
<1>. QED
  BY <1>3, <1>4, <1>7, <1>8, <1>9, Zenon DEF RegistryInv

\* A put ends its turn: what its auto_ptr had is kept, or deleted.
LEMMA TurnStep ==
  ASSUME RegistryInv, NEW t \in Threads, putAt[t] = "put", NEW f, f = autoPtr[t],
         RegistryTypeInv',
         \A u \in Threads : u # t => autoPtr'[u] = autoPtr[u] /\ putAt'[u] = putAt[u],
         putAt'[t] # "put", UNCHANGED <<made, typeName, found, crashed, destroyed>>,
         \/ /\ UNCHANGED data /\ deleted'[f] = deleted[f] + 1
            /\ \A x \in FR!Factories : x # f => deleted'[x] = deleted[x]
         \/ /\ UNCHANGED deleted /\ data[typeName[f]] = FR!NoFactory /\ data'[typeName[f]] = f
            /\ \A n \in Names : n # typeName[f] => data'[n] = data[n]
  PROVE  RegistryInv'
<1>0. RegistryTypeInv /\ KeptInv /\ PuttingInv /\ OwnedInv /\ FoundInv /\ (crashed => destroyed)
  BY DEF RegistryInv
<1>1. f \in 1 .. made /\ deleted[f] = 0 /\ \A n \in Names : data[n] # f
  BY <1>0, Zenon DEF PuttingInv
<1>2. f \in FR!Factories /\ f # FR!NoFactory /\ f <= made
  BY <1>0, <1>1, MadeAreFactories, Zenon
<1>3. \A u \in Threads : putAt'[u] = "put" => /\ u # t /\ putAt[u] = "put" /\ autoPtr'[u] = autoPtr[u]
                                               /\ autoPtr[u] # f
  BY <1>0, Zenon DEF PuttingInv
<1>5. CASE /\ UNCHANGED data /\ deleted'[f] = deleted[f] + 1
           /\ \A x \in FR!Factories : x # f => deleted'[x] = deleted[x]
  <2>1. deleted'[f] = 1
    BY <1>1, <1>5
  <2>2. \A x \in 1 .. made : x \in FR!Factories
    BY <1>0, MadeAreFactories
  <2>3. KeptInv'
    BY <1>0, <1>1, <1>5, <2>2, ZenonT(30) DEF KeptInv
  <2>4. PuttingInv'
    <3> SUFFICES ASSUME NEW u \in Threads, putAt'[u] = "put"
                 PROVE  /\ autoPtr'[u] \in 1 .. made /\ deleted'[autoPtr'[u]] = 0
                        /\ \A n \in Names : data'[n] # autoPtr'[u]
                        /\ \A v \in Threads : v # u /\ putAt'[v] = "put" => autoPtr'[v] # autoPtr'[u]
      BY <1>5, Zenon DEF PuttingInv
    <3>1. /\ putAt[u] = "put" /\ autoPtr'[u] = autoPtr[u] /\ autoPtr[u] \in 1 .. made /\ autoPtr[u] # f
          /\ deleted[autoPtr[u]] = 0 /\ \A n \in Names : data[n] # autoPtr[u]
          /\ \A v \in Threads : v # u /\ putAt[v] = "put" => autoPtr[v] # autoPtr[u]
      BY <1>0, <1>3, Zenon DEF PuttingInv
    <3>2. ASSUME NEW v \in Threads, v # u, putAt'[v] = "put" PROVE autoPtr'[v] # autoPtr'[u]
      BY <1>3, <3>1, <3>2, Zenon
    <3>3. deleted'[autoPtr[u]] = 0 /\ \A n \in Names : data'[n] # autoPtr[u]
      BY <1>5, <2>2, <3>1, Zenon
    <3>. QED
      BY <3>1, <3>2, <3>3, Zenon
  <2>5. OwnedInv'
    <3> SUFFICES ASSUME NEW x \in FR!Factories
                 PROVE  /\ deleted'[x] \in {0, 1} /\ (x > made => deleted'[x] = 0)
                        /\ x <= made /\ deleted'[x] = 0 =>
                             \/ \E n \in Names : data[n] = x
                             \/ \E u \in Threads : putAt'[u] = "put" /\ autoPtr'[u] = x
      BY <1>5, Zenon DEF OwnedInv
    <3>1. CASE x = f
      <4>1. ~ (f > made) /\ 1 # 0
        BY <1>0, <1>1 DEF RegistryTypeInv
      <4>. QED
        BY <2>1, <3>1, <4>1, Zenon
    <3>2. CASE x # f
      <4>1. deleted'[x] = deleted[x]
        BY <1>5, <3>2, Zenon
      <4>2. \A u \in Threads : putAt[u] = "put" /\ autoPtr[u] = x => putAt'[u] = "put" /\ autoPtr'[u] = x
        BY <3>2, Zenon
      <4>. QED
        BY <1>0, <4>1, <4>2, Zenon DEF OwnedInv
    <3>. QED
      BY <3>1, <3>2, Zenon
  <2>6. FoundInv'
    BY <1>0, <1>5, Zenon DEF FoundInv
  <2>. QED
    BY <1>0, <2>3, <2>4, <2>5, <2>6, Zenon DEF RegistryInv
<1>6. CASE /\ UNCHANGED deleted /\ data[typeName[f]] = FR!NoFactory /\ data'[typeName[f]] = f
           /\ \A n \in Names : n # typeName[f] => data'[n] = data[n]
  <2>1. typeName[f] \in Names
    BY <1>0, <1>2 DEF RegistryTypeInv
  <2>3. KeptInv'
    BY <1>0, <1>1, <1>6, Zenon DEF KeptInv
  <2>4. PuttingInv'
    <3> SUFFICES ASSUME NEW u \in Threads, putAt'[u] = "put"
                 PROVE  /\ autoPtr'[u] \in 1 .. made /\ deleted'[autoPtr'[u]] = 0
                        /\ \A n \in Names : data'[n] # autoPtr'[u]
                        /\ \A v \in Threads : v # u /\ putAt'[v] = "put" => autoPtr'[v] # autoPtr'[u]
      BY <1>6, Zenon DEF PuttingInv
    <3>1. /\ putAt[u] = "put" /\ autoPtr'[u] = autoPtr[u] /\ autoPtr[u] \in 1 .. made /\ autoPtr[u] # f
          /\ deleted[autoPtr[u]] = 0 /\ \A n \in Names : data[n] # autoPtr[u]
          /\ \A v \in Threads : v # u /\ putAt[v] = "put" => autoPtr[v] # autoPtr[u]
      BY <1>0, <1>3, Zenon DEF PuttingInv
    <3>2. ASSUME NEW v \in Threads, v # u, putAt'[v] = "put" PROVE autoPtr'[v] # autoPtr'[u]
      BY <1>3, <3>1, <3>2, Zenon
    <3>3. deleted'[autoPtr[u]] = 0 /\ \A n \in Names : data'[n] # autoPtr[u]
      BY <1>6, <2>1, <3>1, Zenon
    <3>. QED
      BY <3>1, <3>2, <3>3, Zenon
  <2>5. OwnedInv'
    <3> SUFFICES ASSUME NEW x \in FR!Factories
                 PROVE  /\ deleted[x] \in {0, 1} /\ (x > made => deleted[x] = 0)
                        /\ x <= made /\ deleted[x] = 0 =>
                             \/ \E n \in Names : data'[n] = x
                             \/ \E u \in Threads : putAt'[u] = "put" /\ autoPtr'[u] = x
      BY <1>6, Zenon DEF OwnedInv
    <3>1. CASE x = f
      BY <1>0, <1>6, <2>1, <3>1, Zenon DEF OwnedInv
    <3>2. CASE x # f
      <4>0. x # FR!NoFactory
        BY FactoryFacts
      <4>1. \A n \in Names : data[n] = x => data'[n] = x
        BY <1>6, <4>0, Zenon
      <4>2. \A u \in Threads : putAt[u] = "put" /\ autoPtr[u] = x => putAt'[u] = "put" /\ autoPtr'[u] = x
        BY <3>2, Zenon
      <4>. QED
        BY <1>0, <4>1, <4>2, Zenon DEF OwnedInv
    <3>. QED
      BY <3>1, <3>2, Zenon
  <2>6. FoundInv'
    BY <1>0, <1>6, ZenonT(30) DEF FoundInv
  <2>. QED
    BY <1>0, <2>3, <2>4, <2>5, <2>6, Zenon DEF RegistryInv
<1>. QED
  BY <1>5, <1>6, Zenon

LEMMA PutValStep ==
  ASSUME RegistryInv, NEW t \in Threads, FR!PutVal(t) PROVE RegistryInv'
<1> DEFINE f == autoPtr[t]
<1>0. RegistryTypeInv
  BY DEF RegistryInv
<1>1. /\ putAt[t] = "put" /\ putAt' = [putAt EXCEPT ![t] = "release"]
      /\ UNCHANGED <<made, typeName, autoPtr, found, crashed, destroyed>>
  BY DEF FR!PutVal
<1>2. f \in FR!Factories
  <2>1. f \in 1 .. made
    BY <1>1, Zenon DEF RegistryInv, PuttingInv
  <2>. QED
    BY <1>0, <2>1, MadeAreFactories, Zenon
<1>3. /\ putAt' \in [Threads -> {"idle", "put", "release"}] /\ putAt'[t] # "put"
      /\ \A u \in Threads : u # t => autoPtr'[u] = autoPtr[u] /\ putAt'[u] = putAt[u]
  BY <1>0, <1>1 DEF RegistryTypeInv
<1>4. typeName[f] \in Names
  BY <1>0, <1>2 DEF RegistryTypeInv
<1>5. \/ data[typeName[f]] = FR!NoFactory /\ data' = [data EXCEPT ![typeName[f]] = f] /\ UNCHANGED deleted
      \/ deleted' = [x \in FR!Factories |-> IF x \in {f} THEN deleted[x] + 1 ELSE deleted[x]] /\ UNCHANGED data
  BY Zenon DEF FR!PutVal, FR!getTypeName, FR!deleteObject
<1>. HIDE DEF f
<1>6. CASE data[typeName[f]] = FR!NoFactory /\ data' = [data EXCEPT ![typeName[f]] = f] /\ UNCHANGED deleted
  <2>1. /\ data' \in [Names -> MaybeFactory] /\ data'[typeName[f]] = f
        /\ \A n \in Names : n # typeName[f] => data'[n] = data[n]
    BY <1>0, <1>2, <1>4, <1>6 DEF RegistryTypeInv, MaybeFactory
  <2>2. RegistryTypeInv'
    BY <1>0, <1>1, <1>3, <1>6, <2>1, Zenon DEF RegistryTypeInv
  <2>. QED
    BY <1>1, <1>3, <1>6, <2>1, <2>2, TurnStep, Zenon DEF f
<1>7. CASE deleted' = [x \in FR!Factories |-> IF x \in {f} THEN deleted[x] + 1 ELSE deleted[x]] /\ UNCHANGED data
  <2>1. /\ deleted' \in [FR!Factories -> Nat] /\ deleted'[f] = deleted[f] + 1
        /\ \A x \in FR!Factories : x # f => deleted'[x] = deleted[x]
    BY <1>0, <1>2, <1>7 DEF RegistryTypeInv
  <2>2. RegistryTypeInv'
    BY <1>0, <1>1, <1>3, <1>7, <2>1, Zenon DEF RegistryTypeInv
  <2>. QED
    BY <1>1, <1>3, <1>7, <2>1, <2>2, TurnStep, Zenon DEF f
<1>. QED
  BY <1>5, <1>6, <1>7, Zenon

LEMMA PutValThrowsStep ==
  ASSUME RegistryInv, NEW t \in Threads, FR!PutValThrows(t) PROVE RegistryInv'
<1> DEFINE f == autoPtr[t]
<1>0. RegistryTypeInv
  BY DEF RegistryInv
<1>1. /\ putAt[t] = "put" /\ putAt' = [putAt EXCEPT ![t] = "idle"]
      /\ autoPtr' = [autoPtr EXCEPT ![t] = FR!NoFactory]
      /\ deleted' = [x \in FR!Factories |-> IF x \in {f} THEN deleted[x] + 1 ELSE deleted[x]]
      /\ UNCHANGED <<data, made, typeName, found, crashed, destroyed>>
  BY DEF FR!PutValThrows, FR!deleteObject
<1>2. f \in FR!Factories
  <2>1. f \in 1 .. made
    BY <1>1, Zenon DEF RegistryInv, PuttingInv
  <2>. QED
    BY <1>0, <2>1, MadeAreFactories, Zenon
<1>3. /\ putAt' \in [Threads -> {"idle", "put", "release"}] /\ putAt'[t] # "put"
      /\ autoPtr' \in [Threads -> MaybeFactory]
      /\ \A u \in Threads : u # t => autoPtr'[u] = autoPtr[u] /\ putAt'[u] = putAt[u]
  BY <1>0, <1>1 DEF RegistryTypeInv, MaybeFactory
<1>. HIDE DEF f
<1>4. /\ deleted' \in [FR!Factories -> Nat] /\ deleted'[f] = deleted[f] + 1
      /\ \A x \in FR!Factories : x # f => deleted'[x] = deleted[x]
  BY <1>0, <1>1, <1>2 DEF RegistryTypeInv
<1>5. RegistryTypeInv'
  BY <1>0, <1>1, <1>3, <1>4, Zenon DEF RegistryTypeInv
<1>. QED
  BY <1>1, <1>3, <1>4, <1>5, TurnStep, ZenonT(30) DEF f

\* The end of a put, lookups and creations leave every factory where it is.
LEMMA QuietStep ==
  ASSUME RegistryInv, RegistryTypeInv', UNCHANGED <<data, made, typeName, deleted, destroyed>>,
         \A u \in Threads : (putAt'[u] = "put" <=> putAt[u] = "put") /\ (putAt[u] = "put" => autoPtr'[u] = autoPtr[u]),
         \A u \in Threads : found'[u] = found[u] \/ found'[u] = FR!NoFactory \/ \E n \in Names : data[n] = found'[u],
         crashed' => destroyed
  PROVE  RegistryInv'
<1>0. KeptInv /\ PuttingInv /\ OwnedInv /\ FoundInv
  BY DEF RegistryInv
<1>1. KeptInv'
  BY <1>0, Zenon DEF KeptInv
<1>2. PuttingInv'
  <2> SUFFICES ASSUME NEW u \in Threads, putAt'[u] = "put"
               PROVE  /\ autoPtr'[u] \in 1 .. made /\ deleted[autoPtr'[u]] = 0
                      /\ \A n \in Names : data[n] # autoPtr'[u]
                      /\ \A v \in Threads : v # u /\ putAt'[v] = "put" => autoPtr'[v] # autoPtr'[u]
    BY Zenon DEF PuttingInv
  <2>1. /\ putAt[u] = "put" /\ autoPtr'[u] = autoPtr[u] /\ autoPtr[u] \in 1 .. made
        /\ deleted[autoPtr[u]] = 0 /\ \A n \in Names : data[n] # autoPtr[u]
        /\ \A v \in Threads : v # u /\ putAt[v] = "put" => autoPtr[v] # autoPtr[u]
    BY <1>0, Zenon DEF PuttingInv
  <2>2. ASSUME NEW v \in Threads, v # u, putAt'[v] = "put" PROVE autoPtr'[v] # autoPtr'[u]
    BY <2>1, <2>2, Zenon
  <2>. QED
    BY <2>1, <2>2, Zenon
<1>3. OwnedInv'
  <2> SUFFICES ASSUME NEW x \in FR!Factories
               PROVE  /\ deleted[x] \in {0, 1} /\ (x > made => deleted[x] = 0)
                      /\ x <= made /\ deleted[x] = 0 =>
                           \/ \E n \in Names : data[n] = x
                           \/ \E u \in Threads : putAt'[u] = "put" /\ autoPtr'[u] = x
    BY Zenon DEF OwnedInv
  <2>1. \A u \in Threads : putAt[u] = "put" /\ autoPtr[u] = x => putAt'[u] = "put" /\ autoPtr'[u] = x
    BY Zenon
  <2>. QED
    BY <1>0, <2>1, Zenon DEF OwnedInv
<1>4. FoundInv'
  BY <1>0, Zenon DEF FoundInv
<1>. QED
  BY <1>1, <1>2, <1>3, <1>4, Zenon DEF RegistryInv

LEMMA ReleaseStep ==
  ASSUME RegistryInv, NEW t \in Threads, FR!Release(t) PROVE RegistryInv'
<1>0. RegistryTypeInv /\ (crashed => destroyed)
  BY DEF RegistryInv
<1>1. /\ UNCHANGED <<data, made, typeName, found, deleted, crashed, destroyed>>
      /\ putAt' \in [Threads -> {"idle", "put", "release"}] /\ autoPtr' \in [Threads -> MaybeFactory]
      /\ \A u \in Threads : (putAt'[u] = "put" <=> putAt[u] = "put") /\ (putAt[u] = "put" => autoPtr'[u] = autoPtr[u])
  BY <1>0 DEF FR!Release, RegistryTypeInv, MaybeFactory
<1>2. RegistryTypeInv'
  BY <1>0, <1>1, Zenon DEF RegistryTypeInv
<1>. QED
  BY <1>0, <1>1, <1>2, QuietStep, Zenon

LEMMA GetStep ==
  ASSUME RegistryInv, NEW t \in Threads, NEW n \in Names, FR!Get(t, n) PROVE RegistryInv'
<1>0. RegistryTypeInv /\ (crashed => destroyed)
  BY DEF RegistryInv
<1>1. /\ UNCHANGED <<data, made, typeName, autoPtr, putAt, deleted, crashed, destroyed>>
      /\ found' \in [Threads -> MaybeFactory]
      /\ \A u \in Threads : found'[u] = found[u] \/ found'[u] = data[n]
  BY <1>0 DEF FR!Get, RegistryTypeInv
<1>2. RegistryTypeInv'
  BY <1>0, <1>1, Zenon DEF RegistryTypeInv
<1>3. /\ \A u \in Threads : (putAt'[u] = "put" <=> putAt[u] = "put") /\ (putAt[u] = "put" => autoPtr'[u] = autoPtr[u])
      /\ \A u \in Threads : found'[u] = found[u] \/ found'[u] = FR!NoFactory \/ \E x \in Names : data[x] = found'[u]
  BY <1>1, Zenon
<1>. QED
  BY <1>0, <1>1, <1>2, <1>3, QuietStep, Zenon

\* A factory is gone only after the registry.
LEMMA CreateObjectStep ==
  ASSUME RegistryInv, NEW t \in Threads, FR!CreateObject(t) PROVE RegistryInv'
<1>0. RegistryTypeInv /\ KeptInv /\ FoundInv
  BY DEF RegistryInv
<1>1. /\ UNCHANGED <<data, made, typeName, autoPtr, putAt, deleted, destroyed>>
      /\ found[t] # FR!NoFactory /\ crashed' = (deleted[found[t]] > 0)
      /\ found' \in [Threads -> MaybeFactory]
      /\ \A u \in Threads : found'[u] = found[u] \/ found'[u] = FR!NoFactory
  BY <1>0 DEF FR!CreateObject, RegistryTypeInv, MaybeFactory
<1>2. RegistryTypeInv'
  BY <1>0, <1>1, Zenon DEF RegistryTypeInv
<1>3. crashed' => destroyed
  <2>1. ASSUME ~ destroyed PROVE deleted[found[t]] = 0
    <3>1. PICK n \in Names : data[n] = found[t]
      BY <1>0, <1>1, <2>1, Zenon DEF FoundInv
    <3>2. data[n] # FR!NoFactory
      BY <1>1, <3>1, Zenon
    <3>3. deleted[data[n]] = 0
      BY <1>0, <3>2, Zenon DEF KeptInv
    <3>. QED
      BY ONLY <3>1, <3>3
  <2>2. ~ (0 > 0)
    OBVIOUS
  <2>. QED
    BY <1>1, <2>1, <2>2, Zenon
<1>4. \A u \in Threads : (putAt'[u] = "put" <=> putAt[u] = "put") /\ (putAt[u] = "put" => autoPtr'[u] = autoPtr[u])
  BY <1>1, Zenon
<1>. QED
  BY <1>0, <1>1, <1>2, <1>3, <1>4, QuietStep, Zenon

LEMMA DestroyRegistryStep ==
  ASSUME RegistryInv, FR!Destroy PROVE RegistryInv'
<1> DEFINE S == {data[n] : n \in Names} \ {FR!NoFactory}
<1>0. RegistryTypeInv /\ KeptInv /\ PuttingInv /\ OwnedInv
  BY DEF RegistryInv
<1>1. /\ \A t \in Threads : putAt[t] = "idle"
      /\ deleted' = [f \in FR!Factories |-> IF f \in S THEN deleted[f] + 1 ELSE deleted[f]]
      /\ data' = [n \in Names |-> FR!NoFactory]
      /\ destroyed' = TRUE /\ UNCHANGED <<made, typeName, autoPtr, putAt, found, crashed>>
  BY DEF FR!Destroy, FR!deleteObject
<1>2. \A f \in FR!Factories : f \in S <=> \E n \in Names : data[n] = f
  BY FactoryFacts, Zenon
<1>. HIDE DEF S
<1>3. /\ deleted' \in [FR!Factories -> Nat]
      /\ \A f \in FR!Factories : deleted'[f] = IF f \in S THEN deleted[f] + 1 ELSE deleted[f]
      /\ data' \in [Names -> MaybeFactory] /\ \A n \in Names : data'[n] = FR!NoFactory
  BY <1>0, <1>1 DEF RegistryTypeInv, MaybeFactory
<1>4. RegistryTypeInv'
  BY <1>0, <1>1, <1>3, Zenon DEF RegistryTypeInv
<1>5. KeptInv' /\ FoundInv'
  BY <1>1, <1>3, Zenon DEF KeptInv, FoundInv
<1>6. PuttingInv'
  <2>1. "idle" # "put"
    OBVIOUS
  <2>. QED
    BY <1>1, <2>1, Zenon DEF PuttingInv
<1>7. OwnedInv'
  <2> SUFFICES ASSUME NEW f \in FR!Factories
               PROVE  deleted'[f] \in {0, 1} /\ (f > made => deleted'[f] = 0) /\ (f <= made => deleted'[f] # 0)
    BY <1>1, Zenon DEF OwnedInv
  <2>1. CASE f \in S
    <3>1. PICK n \in Names : data[n] = f
      BY <1>2, <2>1, Zenon
    <3>2. f \in 1 .. made /\ deleted[f] = 0
      BY <1>0, <3>1, FactoryFacts, Zenon DEF KeptInv
    <3>3. deleted'[f] = 1
      BY <1>3, <2>1, <3>2
    <3>. QED
      BY <1>0, <3>2, <3>3 DEF RegistryTypeInv
  <2>2. CASE f \notin S
    <3>1. deleted'[f] = deleted[f] /\ ~ \E n \in Names : data[n] = f
      BY <1>2, <1>3, <2>2, Zenon
    <3>2. "idle" # "put"
      OBVIOUS
    <3>. QED
      BY <1>0, <1>1, <3>1, <3>2, Zenon DEF OwnedInv
  <2>. QED
    BY <2>1, <2>2, Zenon
<1>. QED
  BY <1>1, <1>4, <1>5, <1>6, <1>7, Zenon DEF RegistryInv

\* FactoryRegistry: for any threads, names and number of factories, a factory is
\* at every step owned by exactly one of the auto_ptr of a put and the registry,
\* or deleted, once; and one that was looked up is gone only after the registry.
THEOREM FactoriesAreOwnedOnce ==
  FR!Spec => []FactoriesOwnedOnce
<1>1. FR!Init => RegistryInv
  <2> SUFFICES ASSUME FR!Init PROVE RegistryInv
    OBVIOUS
  <2>1. /\ made = 0 /\ crashed = FALSE /\ \A n \in Names : data[n] = FR!NoFactory
        /\ \A t \in Threads : putAt[t] = "idle" /\ found[t] = FR!NoFactory
        /\ \A f \in FR!Factories : deleted[f] = 0
    BY DEF FR!Init
  <2>2. RegistryTypeInv
    BY RegistryAssumption DEF FR!Init, RegistryTypeInv, MaybeFactory
  <2>3. KeptInv /\ FoundInv
    BY <2>1, Zenon DEF KeptInv, FoundInv
  <2>4. PuttingInv
    <3>1. "idle" # "put"
      OBVIOUS
    <3>. QED
      BY <2>1, <3>1, Zenon DEF PuttingInv
  <2>5. OwnedInv
    <3>1. \A f \in FR!Factories : ~ (f <= 0)
      BY RegistryAssumption DEF FR!Factories
    <3>2. 0 \in {0, 1}
      OBVIOUS
    <3>. QED
      BY <2>1, <3>1, <3>2, Zenon DEF OwnedInv
  <2>. QED
    BY <2>1, <2>2, <2>3, <2>4, <2>5, Zenon DEF RegistryInv
<1>2. RegistryInv /\ [FR!Next]_(FR!vars) => RegistryInv'
  <2>1. CASE UNCHANGED FR!vars
    BY <2>1, Zenon DEF FR!vars, RegistryInv, RegistryTypeInv, KeptInv, PuttingInv, OwnedInv, FoundInv
  <2>. QED
    BY <2>1, RegProductStep, PutValStep, PutValThrowsStep, ReleaseStep, GetStep, CreateObjectStep,
       DestroyRegistryStep, Zenon DEF FR!Next
<1>. QED
  BY <1>1, <1>2, OwnedOnce, PTL DEF FR!Spec
===============================================================================
