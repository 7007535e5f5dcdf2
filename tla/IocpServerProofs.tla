-------------------------- MODULE IocpServerProofs --------------------------
(* Proofs about IocpServer, for any number of workers and sessions and any *)
(* size of the pools.                                                      *)
EXTENDS IocpServer, FiniteSetTheorems, SequenceTheorems, TLAPS

-----------------------------------------------------------------------------
(* The inductive invariant.                                                *)

MainSteps == {"accept", "takeRecv", "takeSend", "add", "bind", "recv", "crashed"}

\* The steps of a worker: until it knows what to do, while it serves the
\* client, and while it tears it down.
Looking  == {"failed", "expired?", "client?", "dispatch", "close"}
Serving  == {"packets", "flush", "closingSelf", "isvalid", "recvasync"}
Tearing  == {"remove", "disownRecv", "enqueueRecv", "disownSend"}
TornDown == {"enqueueSend", "closesocket", "closing"}
Steps    == {"idle", "crashed"} \cup Looking \cup Serving \cup Tearing \cup TornDown

Numbers == 0 .. MaxSessions

WorkRecords ==
  [at : Steps, data : Overlapped, of : Numbers, client : Numbers,
   todo : SUBSET Numbers, target : Numbers, next : {"idle", "packets", "isvalid"}]

\* The structures of one pool.
Structures(k) == {k} \X (1 .. PoolSize * (MaxSessions + 1))

\* The session being made has not got its structure of pool k yet.
Making(k) == main = "takeRecv" \/ (main = "takeSend" /\ k = "send")

\* The sessions that AddTcpClient has listed.
Begun ==
  {s \in 1 .. accepted : s < accepted \/ main \in {"bind", "recv", "accept", "crashed"}}

\* The pools and the structures.  A pool grows at most once for each session, a
\* session gets each structure once, and the client in a structure is the
\* session that has it.
TypeInv ==
  /\ accepted \in Numbers /\ main \in MainSteps
  /\ main \notin {"accept", "crashed"} => accepted \in Sessions
  /\ pool = [k \in Kinds |-> pool[k]] /\ \A k \in Kinds : pool[k] \in Seq(Structures(k))
  /\ grown \in [Kinds -> Nat]
  /\ Client \in [Overlapped -> Numbers]
  /\ overlapped \in [Sessions -> [Kinds -> Overlapped \cup {<<"recv", NULL>>, <<"send", NULL>>}]]
  /\ \A s \in Sessions, k \in Kinds : overlapped[s][k] \in Structures(k) \cup {<<k, NULL>>}

GrownInv ==
  \A k \in Kinds :
    /\ grown[k] <= PoolSize * (accepted + 1)
    /\ Making(k) => grown[k] <= PoolSize * accepted

TieInv ==
  /\ ~ crashed => \A s \in Sessions, k \in Kinds :
       overlapped[s][k] = <<k, NULL>> <=> s > accepted \/ (s = accepted /\ Making(k))
  /\ \A o \in Overlapped :
       Client[o] # NULL => Client[o] <= accepted /\ overlapped[Client[o]][o[1]] = o

PoolInv == TypeInv /\ GrownInv /\ TieInv

\* Only listed sessions are broadcast to and have operations, completions and
\* workers.
ListInv ==
  /\ m_clients \subseteq Begun
  /\ m_IoState \in [Sessions -> [Kinds -> {"IO_NOT_CONNECTED", "IO_CONNECTED", "IO_PENDING"}]]
  /\ \A s \in Sessions, k \in Kinds : m_IoState[s][k] = "IO_PENDING" => s \in Begun

NetInv ==
  /\ IsFiniteSet(ops)
  /\ \A o \in ops : o.data \in Overlapped /\ o.of \in Begun
  /\ port \in Seq([data : Overlapped, of : Numbers, ok : BOOLEAN])
  /\ \A i \in 1 .. Len(port) : port[i].of \in Begun

WorkInv ==
  /\ work \in [Workers -> WorkRecords]
  /\ \A w \in Workers :
       /\ work[w].todo \subseteq Begun
       /\ work[w].at \notin {"idle", "crashed"} => work[w].of \in Begun
       /\ work[w].at \in Serving => work[w].client \in Begun
       /\ work[w].at = "flush" => work[w].target \in Begun
       /\ work[w].at \in Tearing \cup TornDown => work[w].client \in 1 .. accepted
       /\ \A k \in Kinds : work[w].at = EnqueueAt[k] => overlapped[work[w].client][k] # <<k, NULL>>
       /\ work[w].at = "crashed" <=> crashed

\* Some structure has the session as its client.
Held(s) == \E o \in Overlapped : Client[o] = s

TearingDown(s) == {w \in Workers : work[w].at \in Tearing /\ work[w].client = s}

\* The steps after which no receive structure has the worker's client.
OffRecv == {"enqueueRecv", "disownSend"} \cup TornDown

\* As long as completions go to their own sessions, the workers that have got
\* hold of a session are on their way to take it off its structures, and those
\* that did so have left nothing to get hold of.
TearInv ==
  /\ teardowns \in [Sessions -> Nat]
  /\ ~ stale =>
       /\ \A s \in Sessions : teardowns[s] > 0 => s \in Begun
       /\ \A s \in Sessions : teardowns[s] <= Cardinality(Workers)
       /\ \A s \in Sessions : ~ crashed /\ Held(s) => teardowns[s] = Cardinality(TearingDown(s))
       /\ \A w \in Workers : work[w].at \in Tearing \cup TornDown => work[w].client \in Begun
       /\ \A w \in Workers : work[w].at \in OffRecv =>
            \A o \in Overlapped : o[1] = "recv" => Client[o] # work[w].client

ServerInv ==
  PoolInv /\ ListInv /\ NetInv /\ WorkInv /\ TearInv /\ TornDownIsUnlisted

-----------------------------------------------------------------------------
(* Pools, structures and records.                                          *)

\* The structures are enough for one growth for each session.
LEMMA Sizes ==
  /\ PoolSize * (MaxSessions + 1) \in Nat /\ 1 <= PoolSize * (MaxSessions + 1)
  /\ \A n \in Nat : PoolSize * n \in Nat /\ PoolSize * (n + 1) = PoolSize * n + PoolSize
  /\ \A n \in Numbers : PoolSize * (n + 1) <= PoolSize * (MaxSessions + 1)
<1> USE BoundsAssumption
<1>1. \A n \in Nat : PoolSize * n \in Nat /\ PoolSize * (n + 1) = PoolSize * n + PoolSize
  OBVIOUS
<1>2. \A n \in Numbers : PoolSize * (n + 1) <= PoolSize * (MaxSessions + 1)
  <2> SUFFICES ASSUME NEW n \in Numbers PROVE PoolSize * (n + 1) <= PoolSize * (MaxSessions + 1)
    OBVIOUS
  <2>1. MaxSessions - n \in Nat /\ n \in Nat
    BY DEF Numbers
  <2>2. PoolSize * (MaxSessions + 1) = PoolSize * (n + 1) + PoolSize * (MaxSessions - n)
    BY <2>1
  <2>. QED
    BY <1>1, <2>1, <2>2
<1>3. PoolSize * (MaxSessions + 1) = PoolSize * MaxSessions + PoolSize
  BY <1>1
<1>. QED
  BY <1>1, <1>2, <1>3

\* A structure of a pool is a structure, and its number is not NULL.
LEMMA StructuresAre ==
  ASSUME NEW k \in Kinds
  PROVE  /\ Structures(k) \subseteq Overlapped
         /\ <<k, NULL>> \notin Overlapped
         /\ \A o \in Structures(k) : o[1] = k
         /\ \A o \in Overlapped : o[1] \in Kinds /\ (o[1] = k => o \in Structures(k))
  BY Sizes DEF Structures, Overlapped, NULL

\* A structure of a pool is its kind and its number.
LEMMA StructureIs ==
  ASSUME NEW k \in Kinds, NEW o \in Structures(k)
  PROVE  o \in Overlapped /\ o[1] = k /\ o[2] \in Nat \ {0} /\ o = <<k, o[2]>>
<1>1. o \in Overlapped /\ o[1] = k
  BY StructuresAre
<1>2. o[2] \in Nat \ {0} /\ o = <<k, o[2]>>
  BY Sizes DEF Structures
<1>. QED
  BY <1>1, <1>2

\* An idle worker.
LEMMA IdleIs ==
  /\ Idle \in WorkRecords /\ Idle.at = "idle" /\ Idle.todo = {}
  /\ [Idle EXCEPT !.at = "crashed"] \in WorkRecords
  /\ [Idle EXCEPT !.at = "crashed"].at = "crashed" /\ [Idle EXCEPT !.at = "crashed"].todo = {}
<1>1. <<"recv", 1>> \in Overlapped
  BY Sizes DEF Overlapped, Kinds
<1>. QED
  BY <1>1, BoundsAssumption DEF Idle, WorkRecords, Steps, Numbers, NULL

\* What Fresh hands out.
LEMMA FreshIs ==
  ASSUME TypeInv, GrownInv, NEW k \in Kinds, Making(k)
  PROVE  /\ Fresh(k, grown[k]) \in Seq(Structures(k)) /\ Fresh(k, grown[k]) # << >>
         /\ grown[k] + PoolSize <= PoolSize * (accepted + 1)
<1>1. grown[k] \in Nat /\ grown[k] <= PoolSize * accepted /\ accepted \in Nat /\ accepted \in Numbers
  BY DEF TypeInv, GrownInv, Numbers
<1>2. grown[k] + PoolSize <= PoolSize * (accepted + 1)
  BY <1>1, Sizes, BoundsAssumption
<1>3. grown[k] + PoolSize <= PoolSize * (MaxSessions + 1)
  BY <1>1, <1>2, Sizes, BoundsAssumption
<1>4. \A i \in 1 .. PoolSize : grown[k] + i \in 1 .. PoolSize * (MaxSessions + 1)
  BY <1>1, <1>3, Sizes, BoundsAssumption
<1>5. \A i \in 1 .. PoolSize : <<k, grown[k] + i>> \in Structures(k)
  BY <1>4 DEF Structures
<1>6. Fresh(k, grown[k]) \in [1 .. PoolSize -> Structures(k)]
  BY <1>5 DEF Fresh
<1>7. Fresh(k, grown[k]) \in Seq(Structures(k)) /\ Len(Fresh(k, grown[k])) = PoolSize
  BY <1>6, BoundsAssumption
<1>. QED
  BY <1>2, <1>7, BoundsAssumption

\* What Dequeue takes from a pool.
LEMMA TakeIs ==
  ASSUME TypeInv, GrownInv, NEW k \in Kinds, Making(k),
         NEW s \in Sessions, TakeOverlapped(s, k)
  PROVE  \E o \in Structures(k) :
           /\ overlapped' = [overlapped EXCEPT ![s][k] = o]
           /\ Client' = [Client EXCEPT ![o] = s]
           /\ pool' = [j \in Kinds |-> pool'[j]] /\ \A j \in Kinds : pool'[j] \in Seq(Structures(j))
           /\ grown' \in [Kinds -> Nat] /\ grown'[k] <= PoolSize * (accepted + 1)
           /\ \A j \in Kinds : j # k => grown'[j] = grown[j]
<1> DEFINE q == IF pool[k] = << >> THEN Fresh(k, grown[k]) ELSE pool[k]
<1>1. q \in Seq(Structures(k)) /\ q # << >>
  BY FreshIs DEF TypeInv
<1>2. /\ pool' = [pool EXCEPT ![k] = Tail(q)]
      /\ grown' = [grown EXCEPT ![k] = IF pool[k] = << >> THEN @ + PoolSize ELSE @]
      /\ overlapped' = [overlapped EXCEPT ![s][k] = Head(q)]
      /\ Client' = [Client EXCEPT ![Head(q)] = s]
  BY DEF TakeOverlapped
<1> HIDE DEF q
<1>3. Head(q) \in Structures(k) /\ Tail(q) \in Seq(Structures(k))
  BY <1>1, HeadTailProperties
<1>5. pool' = [j \in Kinds |-> pool'[j]] /\ \A j \in Kinds : pool'[j] \in Seq(Structures(j))
  BY <1>2, <1>3 DEF TypeInv
<1>6. grown[k] <= PoolSize * (accepted + 1) /\ grown[k] + PoolSize <= PoolSize * (accepted + 1)
  BY FreshIs DEF GrownInv
<1>7. grown[k] \in Nat /\ grown[k] + PoolSize \in Nat
  BY BoundsAssumption DEF TypeInv
<1>8. /\ grown' \in [Kinds -> Nat] /\ grown'[k] <= PoolSize * (accepted + 1)
      /\ \A j \in Kinds : j # k => grown'[j] = grown[j]
  BY <1>2, <1>6, <1>7 DEF TypeInv
<1>. QED
  BY <1>2, <1>3, <1>5, <1>8

\* A worker that goes on to step l.
LEMMA GotoIs ==
  ASSUME WorkInv, NEW w \in Workers, NEW l \in Steps, Goto(w, l)
  PROVE  /\ work' \in [Workers -> WorkRecords]
         /\ \A v \in Workers : v # w => work'[v] = work[v]
         /\ l = "idle" => work'[w] = Idle
         /\ l # "idle" => /\ work'[w].at = l /\ work'[w].data = work[w].data
                          /\ work'[w].of = work[w].of /\ work'[w].client = work[w].client
                          /\ work'[w].todo = work[w].todo /\ work'[w].target = work[w].target
<1>1. work \in [Workers -> WorkRecords] /\ work[w] \in WorkRecords
  BY DEF WorkInv
<1>2. CASE l = "idle"
  BY <1>1, <1>2, IdleIs DEF Goto, Done
<1>3. CASE l # "idle"
  <2>1. work' = [work EXCEPT ![w].at = l]
    BY <1>3 DEF Goto
  <2>2. [work[w] EXCEPT !.at = l] \in WorkRecords
    BY <1>1 DEF WorkRecords
  <2>. QED
    BY <1>1, <1>3, <2>1, <2>2 DEF WorkRecords
<1>. QED
  BY <1>2, <1>3

-----------------------------------------------------------------------------
(* The parts of the invariant that a step leaves alone.                    *)

\* The pools, when neither they nor the accepting thread move.
LEMMA PoolsStay ==
  ASSUME PoolInv, UNCHANGED <<accepted, main, poolVars>>
  PROVE  PoolInv'
  BY DEF PoolInv, TypeInv, GrownInv, TieInv, poolVars, Making, crashed

\* The session list, when it and IO_STATE stay and no session ends its making.
LEMMA ListStays ==
  ASSUME ListInv, Begun \subseteq Begun', UNCHANGED <<m_clients, m_IoState>>
  PROVE  ListInv'
  BY DEF ListInv

\* The operations and the port, when they stay.
LEMMA NetStays ==
  ASSUME NetInv, Begun \subseteq Begun', UNCHANGED <<ops, port>>
  PROVE  NetInv'
  BY DEF NetInv

\* Listed sessions are accepted ones.
LEMMA BegunIs ==
  ASSUME PoolInv
  PROVE  /\ Begun \subseteq 1 .. accepted /\ 1 .. accepted \subseteq Sessions
         /\ NULL \notin Sessions /\ Begun \subseteq Numbers /\ Begun \subseteq Sessions
  BY BoundsAssumption DEF PoolInv, TypeInv, Begun, Numbers, Sessions, NULL

-----------------------------------------------------------------------------
(* Operations and completions.                                             *)

\* Operations that end with an error reach the port.
LEMMA AbortStep ==
  ASSUME PoolInv, NetInv, NEW S \in SUBSET ops, Abort(S), UNCHANGED <<accepted, main>>
  PROVE  NetInv'
<1> DEFINE Completions == [data : Overlapped, of : Numbers, ok : BOOLEAN]
<1> DEFINE heard == {o \in S : ~ Unbound(o.conn)}
<1>1. PICK q \in [1 .. Cardinality(heard) -> heard] :
        port' = port \o [i \in DOMAIN q |-> [data |-> q[i].data, of |-> q[i].of, ok |-> FALSE]]
  BY DEF Abort
<1>2. ops' = ops \ S
  BY DEF Abort
<1> DEFINE n == Cardinality(heard)
           z == [i \in 1 .. n |-> [data |-> q[i].data, of |-> q[i].of, ok |-> FALSE]]
<1>3. n \in Nat
  BY FS_Subset, FS_CardinalityType DEF NetInv
<1>4. port' = port \o z
  BY <1>1
<1>5. ASSUME NEW i \in 1 .. n PROVE q[i] \in ops
  BY <1>1, <1>5
<1> HIDE DEF n
<1>6. ASSUME NEW i \in 1 .. n PROVE z[i] \in Completions /\ z[i].of \in Begun
  <2>1. q[i].data \in Overlapped /\ q[i].of \in Begun /\ q[i].of \in Numbers
    BY <1>5, BegunIs DEF NetInv
  <2>. QED
    BY <2>1
<1> HIDE DEF z, Completions
<1>7. z \in Seq(Completions) /\ Len(z) = n
  <2>1. z \in [1 .. n -> Completions]
    BY <1>6 DEF z
  <2>. QED
    BY <1>3, <2>1
<1>8. port \in Seq(Completions) /\ \A i \in 1 .. Len(port) : port[i].of \in Begun
  BY DEF NetInv, Completions
<1>9. port' \in Seq(Completions)
  BY <1>4, <1>7, <1>8
<1>10. \A i \in 1 .. Len(port') : port'[i].of \in Begun
  BY <1>4, <1>6, <1>7, <1>8
<1>11. IsFiniteSet(ops') /\ \A o \in ops' : o.data \in Overlapped /\ o.of \in Begun
  BY <1>2, FS_Subset DEF NetInv
<1>12. Begun' = Begun
  BY DEF Begun
<1>. QED
  BY <1>9, <1>10, <1>11, <1>12 DEF NetInv, Completions

\* A listed session hands the kernel an operation, or none.
LEMMA PostStep ==
  ASSUME PoolInv, NetInv, ~ crashed, NEW s \in Begun, NEW k \in Kinds,
         Post(s, k) \/ UNCHANGED ops,
         Begun \subseteq Begun', UNCHANGED port
  PROVE  NetInv'
<1>1. s \in Sessions
  BY BegunIs
<1>2. overlapped[s][k] \in Overlapped
  <2>1. Structures(k) \subseteq Overlapped
    BY StructuresAre
  <2>2. overlapped[s][k] \in Structures(k) \cup {<<k, NULL>>}
    BY <1>1 DEF PoolInv, TypeInv
  <2>3. overlapped[s][k] # <<k, NULL>>
    <3>1. ~ (s > accepted \/ (s = accepted /\ Making(k)))
      BY BoundsAssumption DEF Begun, Making, PoolInv, TypeInv, Numbers
    <3>. QED
      BY <1>1, <3>1 DEF PoolInv, TieInv
  <2>. QED
    BY <2>1, <2>2, <2>3
<1>3. IsFiniteSet(ops') /\ \A o \in ops' : o.data \in Overlapped /\ o.of \in Begun
  <2>1. CASE UNCHANGED ops
    BY <2>1 DEF NetInv
  <2>2. CASE Post(s, k)
    <3>1. PICK t : ops' = ops \cup {[data |-> overlapped[s][k], of |-> s, conn |-> t]}
      BY <2>2 DEF Post
    <3>2. IsFiniteSet(ops')
      BY <3>1, FS_AddElement DEF NetInv
    <3>. QED
      BY <1>2, <3>1, <3>2 DEF NetInv
  <2>. QED
    BY <2>1, <2>2
<1>. QED
  BY <1>3 DEF NetInv

\* RecvAsync and FlushSendBuffer on a listed session.
LEMMA RecvAsyncStep ==
  ASSUME PoolInv, ListInv, NetInv, ~ crashed, NEW s \in Begun, RecvAsync(s),
         Begun \subseteq Begun', UNCHANGED <<m_clients, port>>
  PROVE  ListInv' /\ NetInv'
<1>1. s \in Sessions /\ "recv" \in Kinds
  BY BegunIs DEF Kinds
<1>2. m_IoState' = [m_IoState EXCEPT ![s]["recv"] = "IO_PENDING"]
  BY DEF RecvAsync
<1>3. ListInv'
  BY <1>1, <1>2 DEF ListInv
<1>4. Post(s, "recv") \/ UNCHANGED ops
  BY DEF RecvAsync
<1>. QED
  BY <1>1, <1>3, <1>4, PostStep

\* FlushSendBuffer keeps the list's and the kernel's part.
LEMMA FlushStep ==
  ASSUME PoolInv, ListInv, NetInv, ~ crashed, NEW s \in Begun, FlushSendBuffer(s),
         UNCHANGED <<accepted, main, m_clients, port>>
  PROVE  ListInv' /\ NetInv'
<1>1. s \in Sessions /\ "send" \in Kinds /\ Begun' = Begun
  BY BegunIs DEF Kinds, Begun
<1>2. m_IoState' = [m_IoState EXCEPT ![s]["send"] = "IO_PENDING"] \/ UNCHANGED m_IoState
  BY DEF FlushSendBuffer
<1>3. ListInv'
  BY <1>1, <1>2 DEF ListInv
<1>4. Post(s, "send") \/ UNCHANGED ops
  BY DEF FlushSendBuffer
<1>. QED
  BY <1>1, <1>3, <1>4, PostStep

-----------------------------------------------------------------------------
(* What a step does to the workers and the teardowns.                      *)

\* A NULL client is dereferenced.
LEMMA CrashStep ==
  ASSUME ServerInv, Crash,
         UNCHANGED <<accepted, poolVars, m_clients, m_IoState, ops, port, teardowns, stale>>
  PROVE  ServerInv'
<1>1. crashed' /\ \A w \in Workers : work'[w] = [Idle EXCEPT !.at = "crashed"]
  BY DEF Crash, crashed
<1>2. Begun \subseteq Begun'
  BY DEF Crash, Begun
<1>3. PoolInv'
  <2>1. main' = "crashed" /\ UNCHANGED <<accepted, pool, grown, Client, overlapped>>
    BY DEF Crash, poolVars
  <2>. QED
    BY <1>1, <2>1 DEF ServerInv, PoolInv, TypeInv, GrownInv, TieInv, MainSteps, Making
<1>4. ListInv' /\ NetInv'
  BY <1>2 DEF ServerInv, ListInv, NetInv
<1>5. work' \in [Workers -> WorkRecords]
  BY IdleIs DEF Crash
<1>6. WorkInv'
  <2>1. \A w \in Workers : work'[w].at = "crashed" /\ work'[w].todo = {}
    BY <1>1, IdleIs
  <2>2. /\ "crashed" \notin Serving /\ "crashed" \notin Tearing \cup TornDown
        /\ \A k \in Kinds : EnqueueAt[k] # "crashed"
    BY DEF Serving, Tearing, TornDown, Kinds, EnqueueAt
  <2>. QED
    BY <1>1, <1>5, <2>1, <2>2 DEF WorkInv
<1>7. TearInv'
  BY <1>1, <1>2, IdleIs DEF ServerInv, TearInv, OffRecv, Tearing, TornDown
<1>. QED
  BY <1>1, <1>3, <1>4, <1>6, <1>7 DEF ServerInv, TornDownIsUnlisted

\* The main thread makes a session: the workers go on as they were.
LEMMA MainStep ==
  ASSUME ServerInv, ~ crashed, ~ crashed', PoolInv',
         UNCHANGED <<work, teardowns, stale>>,
         Begun \subseteq Begun', accepted <= accepted',
         \A s \in 1 .. accepted, k \in Kinds :
           overlapped[s][k] # <<k, NULL>> => overlapped'[s][k] # <<k, NULL>>,
         \A o \in Overlapped : Client'[o] # Client[o] => Client'[o] \in Sessions \ Begun,
         m_clients' \subseteq m_clients \cup (Sessions \ Begun)
  PROVE  WorkInv' /\ TearInv' /\ TornDownIsUnlisted'
<1>1. WorkInv'
  <2>1. 1 .. accepted \subseteq 1 .. accepted'
    BY DEF ServerInv, PoolInv, TypeInv, Numbers
  <2>2. work' \in [Workers -> WorkRecords]
    BY DEF ServerInv, WorkInv
  <2>3. ASSUME NEW w \in Workers, NEW k \in Kinds, work'[w].at = EnqueueAt[k]
        PROVE  overlapped'[work'[w].client][k] # <<k, NULL>>
    <3>1. work[w].at = EnqueueAt[k] /\ work'[w] = work[w]
      BY <2>3
    <3>2. work[w].at \in Tearing \cup TornDown
      BY <3>1 DEF Tearing, TornDown, EnqueueAt, Kinds
    <3>. QED
      BY <3>1, <3>2 DEF ServerInv, WorkInv
  <2>. QED
    BY <2>1, <2>2, <2>3 DEF ServerInv, WorkInv
<1>2. TearInv'
  <2>1. SUFFICES ASSUME ~ stale'
                 PROVE  TearInv'
    BY DEF ServerInv, TearInv
  <2>2. ~ stale
    BY <2>1
  <2>3. \A s \in Sessions : teardowns'[s] > 0 => s \in Begun'
    BY <2>2 DEF ServerInv, TearInv
  <2>4. ASSUME NEW s \in Sessions, Held(s)'
        PROVE  teardowns'[s] = Cardinality(TearingDown(s))'
    <3>1. TearingDown(s)' = TearingDown(s)
      BY DEF TearingDown
    <3>2. CASE Held(s)
      BY <2>2, <3>1, <3>2 DEF ServerInv, TearInv
    <3>3. CASE ~ Held(s)
      <4>1. PICK o \in Overlapped : Client'[o] = s
        BY <2>4 DEF Held
      <4>2. Client[o] # s
        BY <3>3, <4>1 DEF Held
      <4>3. s \notin Begun
        BY <4>1, <4>2
      <4>4. teardowns[s] = 0
        BY <2>2, <4>3 DEF ServerInv, TearInv
      <4>5. TearingDown(s) = {}
        BY <2>2, <4>3 DEF ServerInv, TearInv, TearingDown
      <4>. QED
        BY <3>1, <4>4, <4>5, FS_EmptySet
    <3>. QED
      BY <3>2, <3>3
  <2>5. \A w \in Workers : work'[w].at \in Tearing \cup TornDown => work'[w].client \in Begun
    BY <2>2 DEF ServerInv, TearInv
  <2>6. \A w \in Workers : work'[w].at \in OffRecv =>
          \A o \in Overlapped : o[1] = "recv" => Client'[o] # work'[w].client
    <3>1. OffRecv \subseteq Tearing \cup TornDown
      BY DEF OffRecv, Tearing, TornDown
    <3>. QED
      BY <2>2, <2>5, <3>1 DEF ServerInv, TearInv
  <2>. QED
    BY <2>1, <2>2, <2>3, <2>4, <2>5, <2>6 DEF ServerInv, TearInv
<1>3. TornDownIsUnlisted'
  <2>1. SUFFICES ASSUME ~ stale', NEW s \in m_clients', teardowns'[s] > 0
                 PROVE  \E w \in Workers : work'[w].at = "remove" /\ work'[w].client = s
    BY DEF TornDownIsUnlisted
  <2>2. s \in m_clients
    BY <2>1, BegunIs DEF ServerInv, TearInv
  <2>. QED
    BY <2>1, <2>2 DEF ServerInv, TornDownIsUnlisted
<1>. QED
  BY <1>1, <1>2, <1>3

\* The conditions on the step a worker is at now.
WorkOf(r) ==
  /\ r.at # "crashed"
  /\ r.todo \subseteq Begun
  /\ r.at # "idle" => r.of \in Begun
  /\ r.at \in Serving => r.client \in Begun
  /\ r.at = "flush" => r.target \in Begun
  /\ r.at \in Tearing \cup TornDown => r.client \in 1 .. accepted

\* A worker w changes its record only.
LEMMA WorkStep ==
  ASSUME ServerInv, ~ crashed, NEW w \in Workers,
         UNCHANGED <<accepted, main, overlapped>>,
         work' \in [Workers -> WorkRecords],
         \A v \in Workers : v # w => work'[v] = work[v],
         WorkOf(work'[w]),
         \A k \in Kinds : work'[w].at = EnqueueAt[k] =>
                            overlapped[work'[w].client][k] # <<k, NULL>>
  PROVE  WorkInv'
<1>1. Begun' = Begun /\ (crashed' <=> crashed)
  BY DEF Begun, crashed
<1>2. ASSUME NEW v \in Workers
      PROVE  /\ work'[v].todo \subseteq Begun
             /\ work'[v].at \notin {"idle", "crashed"} => work'[v].of \in Begun
             /\ work'[v].at \in Serving => work'[v].client \in Begun
             /\ work'[v].at = "flush" => work'[v].target \in Begun
             /\ work'[v].at \in Tearing \cup TornDown => work'[v].client \in 1 .. accepted
             /\ \A k \in Kinds : work'[v].at = EnqueueAt[k] =>
                                   overlapped[work'[v].client][k] # <<k, NULL>>
             /\ work'[v].at # "crashed"
  <2>1. CASE v = w
    BY <2>1 DEF WorkOf
  <2>2. CASE v # w
    BY <2>2 DEF ServerInv, WorkInv
  <2>. QED
    BY <2>1, <2>2
<1>. QED
  BY <1>1, <1>2 DEF WorkInv

\* A worker that neither begins nor ends a teardown.
LEMMA QuietTear ==
  ASSUME ServerInv, ~ crashed, NEW w \in Workers,
         UNCHANGED <<accepted, main, Client, teardowns>>,
         ~ stale' => ~ stale,
         \A v \in Workers : v # w => work'[v] = work[v],
         work[w].at \in Tearing <=> work'[w].at \in Tearing,
         work'[w].at \in Tearing \cup TornDown =>
           work[w].at \in Tearing \cup TornDown /\ work'[w].client = work[w].client,
         ~ stale /\ work'[w].at \in OffRecv => work[w].at \in OffRecv
  PROVE  TearInv'
<1>1. Begun' = Begun /\ ~ crashed'
  BY DEF Begun, crashed
<1>2. SUFFICES ASSUME ~ stale'
               PROVE  TearInv'
  BY DEF ServerInv, TearInv
<1>3. ~ stale
  BY <1>2
<1>4. \A s \in Sessions : teardowns'[s] > 0 => s \in Begun
  BY <1>3 DEF ServerInv, TearInv
<1>5. ASSUME NEW s \in Sessions, Held(s)'
      PROVE  teardowns'[s] = Cardinality(TearingDown(s))'
  <2>1. TearingDown(s)' = TearingDown(s)
    BY DEF TearingDown
  <2>2. Held(s)
    BY <1>5 DEF Held
  <2>. QED
    BY <1>3, <2>1, <2>2 DEF ServerInv, TearInv
<1>6. \A v \in Workers : work'[v].at \in Tearing \cup TornDown => work'[v].client \in Begun
  BY <1>3 DEF ServerInv, TearInv
<1>7. \A v \in Workers : work'[v].at \in OffRecv =>
        \A o \in Overlapped : o[1] = "recv" => Client[o] # work'[v].client
  <2>1. OffRecv \subseteq Tearing \cup TornDown
    BY DEF OffRecv, Tearing, TornDown
  <2>. QED
    BY <1>3, <2>1 DEF ServerInv, TearInv
<1>. QED
  BY <1>1, <1>3, <1>4, <1>5, <1>6, <1>7 DEF ServerInv, TearInv

\* A worker that does not take a session off the list.
LEMMA QuietList ==
  ASSUME ServerInv, ~ crashed, NEW w \in Workers,
         UNCHANGED <<m_clients, teardowns>>, ~ stale' => ~ stale,
         \A v \in Workers : v # w => work'[v] = work[v],
         work[w].at # "remove"
  PROVE  TornDownIsUnlisted'
<1>1. SUFFICES ASSUME ~ stale', NEW s \in m_clients, teardowns[s] > 0
               PROVE  \E v \in Workers : work'[v].at = "remove" /\ work'[v].client = s
  BY DEF TornDownIsUnlisted
<1>2. PICK v \in Workers : work[v].at = "remove" /\ work[v].client = s
  BY <1>1 DEF ServerInv, TornDownIsUnlisted
<1>. QED
  BY <1>2

-----------------------------------------------------------------------------
(* The main thread.                                                        *)

\* A new session is not yet begun, listed or tied to a structure.
LEMMA AcceptStep ==
  ASSUME ServerInv, Accept
  PROVE  ServerInv'
<1>1. /\ main = "accept" /\ main' = "takeRecv" /\ accepted < MaxSessions /\ accepted' = accepted + 1
      /\ UNCHANGED <<pool, grown, Client, overlapped, m_clients, m_IoState, ops, port, work, teardowns, stale>>
  BY DEF Accept, poolVars, historyVars
<1>2. accepted \in Nat /\ MaxSessions \in Nat
  BY BoundsAssumption DEF ServerInv, PoolInv, TypeInv, Numbers
<1>3. Begun' = Begun /\ ~ crashed /\ ~ crashed'
  BY <1>1, <1>2 DEF Begun, crashed
<1>4. TypeInv'
  BY <1>1, <1>2 DEF ServerInv, PoolInv, TypeInv, Numbers, Sessions, MainSteps
<1>5. GrownInv'
  <2>1. PoolSize * accepted' = PoolSize * (accepted + 1) /\ PoolSize * (accepted + 1) \in Nat
        /\ PoolSize * (accepted' + 1) = PoolSize * (accepted + 1) + PoolSize
    BY <1>1, <1>2, Sizes
  <2>2. \A k \in Kinds : grown[k] \in Nat /\ grown[k] <= PoolSize * (accepted + 1)
    BY DEF ServerInv, PoolInv, TypeInv, GrownInv
  <2>. QED
    BY <1>1, <2>1, <2>2, BoundsAssumption DEF GrownInv
<1>6. TieInv'
  <2>1. \A s \in Sessions, k \in Kinds :
          s > accepted' \/ (s = accepted' /\ Making(k)') <=> s > accepted \/ (s = accepted /\ Making(k))
    BY <1>1, <1>2 DEF Making, Sessions
  <2>2. \A o \in Overlapped : Client[o] # NULL => Client[o] <= accepted'
    BY <1>1, <1>2 DEF ServerInv, PoolInv, TieInv, TypeInv, Numbers
  <2>. QED
    BY <1>1, <1>3, <2>1, <2>2 DEF ServerInv, PoolInv, TieInv
<1>7. PoolInv' /\ ListInv' /\ NetInv'
  BY <1>1, <1>3, <1>4, <1>5, <1>6, ListStays, NetStays DEF PoolInv, ServerInv
<1>8. accepted <= accepted'
  BY <1>1, <1>2
<1>. QED
  BY <1>1, <1>3, <1>7, <1>8, MainStep DEF ServerInv

\* MakeClientSessionEx takes a structure from pool k.
LEMMA TakeStep ==
  ASSUME ServerInv, NEW k \in Kinds, Making(k), TakeOverlapped(accepted, k),
         \/ main = "takeRecv" /\ k = "recv" /\ main' = "takeSend"
         \/ main = "takeSend" /\ k = "send" /\ main' = "add",
         UNCHANGED <<accepted, m_clients, m_IoState, ops, port, work, teardowns, stale>>
  PROVE  ServerInv'
<1>1. accepted \in Nat /\ accepted \in Sessions
  BY BoundsAssumption DEF ServerInv, PoolInv, TypeInv, Numbers, Making
<1>2. Begun' = Begun /\ ~ crashed /\ ~ crashed' /\ accepted \notin Begun
  BY <1>1 DEF Begun, crashed
<1>3. PICK o \in Structures(k) :
           /\ overlapped' = [overlapped EXCEPT ![accepted][k] = o]
           /\ Client' = [Client EXCEPT ![o] = accepted]
           /\ pool' = [j \in Kinds |-> pool'[j]] /\ \A j \in Kinds : pool'[j] \in Seq(Structures(j))
           /\ grown' \in [Kinds -> Nat] /\ grown'[k] <= PoolSize * (accepted + 1)
           /\ \A j \in Kinds : j # k => grown'[j] = grown[j]
  BY <1>1, TakeIs DEF ServerInv, PoolInv
<1>4. o \in Overlapped /\ o[1] = k /\ o # <<k, NULL>> /\ \A x \in Overlapped : x[1] \in Kinds
  BY StructuresAre
<1>5. \A j \in Kinds : <<j, NULL>> \notin Overlapped
  BY StructuresAre
<1>6. TypeInv'
  <2>1. Client' \in [Overlapped -> Numbers]
    BY <1>1, <1>3, <1>4 DEF ServerInv, PoolInv, TypeInv
  <2>2. overlapped' \in [Sessions -> [Kinds -> Overlapped \cup {<<"recv", NULL>>, <<"send", NULL>>}]]
    BY <1>1, <1>3, <1>4 DEF ServerInv, PoolInv, TypeInv
  <2>3. \A s \in Sessions, j \in Kinds : overlapped'[s][j] \in Structures(j) \cup {<<j, NULL>>}
    BY <1>1, <1>3, <1>4 DEF ServerInv, PoolInv, TypeInv
  <2>. QED
    BY <1>1, <1>3, <2>1, <2>2, <2>3 DEF ServerInv, PoolInv, TypeInv, MainSteps
<1>7. GrownInv'
  BY <1>3 DEF ServerInv, PoolInv, GrownInv, Making, Kinds
<1>8. \A s \in Sessions, j \in Kinds :
        overlapped'[s][j] = IF s = accepted /\ j = k THEN o ELSE overlapped[s][j]
  BY <1>1, <1>3 DEF ServerInv, PoolInv, TypeInv
<1>9. TieInv'
  <2>1. \A s \in Sessions, j \in Kinds :
          overlapped'[s][j] = <<j, NULL>> <=> s > accepted' \/ (s = accepted' /\ Making(j)')
    <3>1. SUFFICES ASSUME NEW s \in Sessions, NEW j \in Kinds
                   PROVE  overlapped'[s][j] = <<j, NULL>> <=> s > accepted \/ (s = accepted /\ Making(j)')
      OBVIOUS
    <3>2. overlapped[s][j] = <<j, NULL>> <=> s > accepted \/ (s = accepted /\ Making(j))
      BY <1>2 DEF ServerInv, PoolInv, TieInv
    <3>3. CASE s = accepted /\ j = k
      <4>1. ~ Making(j)' /\ ~ (s > accepted)
        BY <1>1, <3>3 DEF Making
      <4>. QED
        BY <1>4, <1>8, <3>3, <4>1
    <3>4. CASE ~ (s = accepted /\ j = k)
      <4>1. s = accepted => (Making(j)' <=> Making(j))
        BY <3>4 DEF Making, Kinds
      <4>. QED
        BY <1>8, <3>2, <3>4, <4>1
    <3>. QED
      BY <3>3, <3>4
  <2>2. ASSUME NEW x \in Overlapped, Client'[x] # NULL
        PROVE  Client'[x] <= accepted' /\ overlapped'[Client'[x]][x[1]] = x
    <3>1. CASE x = o
      BY <1>1, <1>3, <1>4, <1>8, <3>1 DEF ServerInv, PoolInv, TypeInv
    <3>2. CASE x # o
      <4>1. Client'[x] = Client[x] /\ Client[x] # NULL
        BY <1>3, <1>4, <2>2, <3>2 DEF ServerInv, PoolInv, TypeInv
      <4>2. Client[x] <= accepted /\ overlapped[Client[x]][x[1]] = x /\ Client[x] \in Sessions
        BY <4>1, BoundsAssumption DEF ServerInv, PoolInv, TieInv, TypeInv, Numbers, Sessions, NULL
      <4>3. ~ (Client[x] = accepted /\ x[1] = k)
        <5>1. overlapped[accepted][k] = <<k, NULL>>
          BY <1>1, <1>2 DEF ServerInv, PoolInv, TieInv
        <5>. QED
          BY <1>5, <4>2, <5>1
      <4>. QED
        BY <1>4, <1>8, <4>1, <4>2, <4>3
    <3>. QED
      BY <3>1, <3>2
  <2>. QED
    BY <2>1, <2>2 DEF TieInv
<1>10. PoolInv' /\ ListInv' /\ NetInv'
  BY <1>2, <1>6, <1>7, <1>9, ListStays, NetStays DEF PoolInv, ServerInv
<1>11. \A s \in 1 .. accepted, j \in Kinds :
         overlapped[s][j] # <<j, NULL>> => overlapped'[s][j] # <<j, NULL>>
  BY <1>1, <1>4, <1>8, BegunIs DEF ServerInv
<1>12. \A x \in Overlapped : Client'[x] # Client[x] => Client'[x] \in Sessions \ Begun
  BY <1>1, <1>2, <1>3 DEF ServerInv, PoolInv, TypeInv
<1>13. Begun \subseteq Begun' /\ accepted <= accepted' /\ m_clients' \subseteq m_clients \cup (Sessions \ Begun)
  BY <1>1, <1>2
<1>. QED
  BY <1>2, <1>10, <1>11, <1>12, <1>13, MainStep DEF ServerInv

\* AddTcpClient lists a session that has both its structures.
LEMMA AddStep ==
  ASSUME ServerInv, AddTcpClient
  PROVE  ServerInv'
<1>1. /\ main = "add" /\ main' = "bind" /\ m_clients' = m_clients \cup {accepted}
      /\ m_IoState' = [m_IoState EXCEPT ![accepted]["recv"] = "IO_CONNECTED"]
      /\ UNCHANGED <<accepted, pool, grown, Client, overlapped, ops, port, work, teardowns, stale>>
  BY DEF AddTcpClient, poolVars, socketVars, historyVars
<1>2. accepted \in Nat /\ accepted \in Sessions
  BY <1>1, BoundsAssumption DEF ServerInv, PoolInv, TypeInv, Numbers
<1>3. Begun' = Begun \cup {accepted} /\ accepted \notin Begun /\ ~ crashed /\ ~ crashed'
  BY <1>1, <1>2 DEF Begun, crashed, Sessions
<1>4. PoolInv'
  BY <1>1, <1>2 DEF ServerInv, PoolInv, TypeInv, GrownInv, TieInv, Making, MainSteps, crashed
<1>5. ListInv'
  BY <1>1, <1>2, <1>3 DEF ServerInv, ListInv
<1>6. NetInv'
  BY <1>1, <1>3, NetStays DEF ServerInv
<1>7. accepted <= accepted' /\ Begun \subseteq Begun' /\ m_clients' \subseteq m_clients \cup (Sessions \ Begun)
  BY <1>1, <1>2, <1>3
<1>. QED
  BY <1>1, <1>3, <1>4, <1>5, <1>6, <1>7, MainStep DEF ServerInv

\* Binding to the port changes none of it.
LEMMA BindStep ==
  ASSUME ServerInv, BindSocket
  PROVE  ServerInv'
<1>1. /\ main = "bind" /\ main' = "recv"
      /\ UNCHANGED <<accepted, pool, grown, Client, overlapped, m_clients, m_IoState, ops, port, work,
                     teardowns, stale>>
  BY DEF BindSocket, poolVars, socketVars, historyVars
<1>2. Begun' = Begun /\ ~ crashed /\ ~ crashed'
  BY <1>1 DEF Begun, crashed
<1>3. PoolInv'
  BY <1>1 DEF ServerInv, PoolInv, TypeInv, GrownInv, TieInv, Making, MainSteps, crashed
<1>4. accepted <= accepted'
  BY <1>1 DEF ServerInv, PoolInv, TypeInv, Numbers
<1>. QED
  BY <1>1, <1>2, <1>3, <1>4, ListStays, NetStays, MainStep DEF ServerInv

\* The first RecvAsync is that of the session just made.
LEMMA FirstReceiveStep ==
  ASSUME ServerInv, FirstReceive
  PROVE  ServerInv'
<1> DEFINE c == Client[overlapped[accepted]["recv"]]
<1>1. /\ main = "recv"
      /\ UNCHANGED <<poolVars, pool, grown, Client, overlapped, port, accepted, m_clients, teardowns, stale>>
  BY DEF FirstReceive, poolVars
<1>2. CASE c = NULL
  <2>1. Crash /\ UNCHANGED <<m_IoState, ops>>
    BY <1>2 DEF FirstReceive
  <2>. QED
    BY <1>1, <2>1, CrashStep
<1>3. CASE c # NULL
  <2>1. RecvAsync(c) /\ main' = "accept" /\ UNCHANGED work
    BY <1>3 DEF FirstReceive
  <2>2. Begun' = Begun /\ ~ crashed /\ ~ crashed' /\ Begun = 1 .. accepted
    BY <1>1, <2>1 DEF Begun, crashed
  <2>3. accepted \in Nat /\ accepted \in Sessions
    BY <1>1, BoundsAssumption DEF ServerInv, PoolInv, TypeInv, Numbers
  <2>4. overlapped[accepted]["recv"] \in Overlapped
    <3>1. "recv" \in Kinds /\ ~ Making("recv")
      BY <1>1 DEF Kinds, Making
    <3>2. overlapped[accepted]["recv"] # <<"recv", NULL>>
      BY <2>2, <2>3, <3>1 DEF ServerInv, PoolInv, TieInv
    <3>3. overlapped[accepted]["recv"] \in Structures("recv") \cup {<<"recv", NULL>>}
      BY <2>3, <3>1 DEF ServerInv, PoolInv, TypeInv
    <3>. QED
      BY <3>1, <3>2, <3>3, StructuresAre
  <2>5. c \in Begun
    BY <1>3, <2>2, <2>3, <2>4 DEF ServerInv, PoolInv, TypeInv, TieInv, Numbers, NULL
  <2> HIDE DEF c
  <2>6. ListInv' /\ NetInv'
    BY <1>1, <2>1, <2>2, <2>5, RecvAsyncStep DEF ServerInv
  <2>7. PoolInv'
    BY <1>1, <2>1 DEF ServerInv, PoolInv, TypeInv, GrownInv, TieInv, Making, MainSteps, crashed
  <2>8. accepted <= accepted'
    BY <1>1, <2>3
  <2>. QED
    BY <1>1, <2>1, <2>2, <2>6, <2>7, <2>8, MainStep DEF ServerInv
<1>. QED
  BY <1>2, <1>3

-----------------------------------------------------------------------------
(* The kernel and the peers.                                               *)

\* What happens to operations leaves the rest alone.
LEMMA KernelStep ==
  ASSUME ServerInv, NetInv',
         UNCHANGED <<accepted, main, poolVars, m_clients, m_IoState, work, teardowns, stale>>
  PROVE  ServerInv'
<1>1. Begun' = Begun /\ (crashed' <=> crashed)
  BY DEF Begun, crashed
<1>2. PoolInv' /\ ListInv'
  BY <1>1, PoolsStay, ListStays DEF ServerInv
<1>3. WorkInv'
  BY <1>1 DEF ServerInv, WorkInv, poolVars
<1>4. TearInv'
  BY <1>1 DEF ServerInv, TearInv, Held, TearingDown, poolVars
<1>5. TornDownIsUnlisted'
  BY <1>1 DEF ServerInv, TornDownIsUnlisted
<1>. QED
  BY <1>2, <1>3, <1>4, <1>5 DEF ServerInv

\* A completion keeps the structure and the session of its operation.
LEMMA CompleteStep ==
  ASSUME ServerInv, Complete
  PROVE  ServerInv'
<1> DEFINE Completions == [data : Overlapped, of : Numbers, ok : BOOLEAN]
<1>1. PICK o \in ops, ok \in BOOLEAN :
        /\ ops' = ops \ {o}
        /\ port' = IF Unbound(o.conn) THEN port
                   ELSE Append(port, [data |-> o.data, of |-> o.of, ok |-> ok])
  BY DEF Complete
<1>2. UNCHANGED <<accepted, main, poolVars, m_clients, m_IoState, work, teardowns, stale>>
  BY DEF Complete, historyVars
<1>3. Begun' = Begun
  BY <1>2 DEF Begun
<1> DEFINE e == [data |-> o.data, of |-> o.of, ok |-> ok]
<1>4. e \in Completions /\ e.of \in Begun
  BY <1>1, BegunIs DEF ServerInv, NetInv
<1>5. port' = port \/ port' = Append(port, e)
  BY <1>1
<1>6. port \in Seq(Completions) /\ \A i \in 1 .. Len(port) : port[i].of \in Begun
  BY DEF ServerInv, NetInv
<1> HIDE DEF e, Completions
<1>7. port' \in Seq(Completions) /\ \A i \in 1 .. Len(port') : port'[i].of \in Begun
  BY <1>4, <1>5, <1>6
<1>8. IsFiniteSet(ops') /\ \A x \in ops' : x.data \in Overlapped /\ x.of \in Begun
  BY <1>1, FS_RemoveElement DEF ServerInv, NetInv
<1>9. NetInv'
  BY <1>3, <1>7, <1>8 DEF NetInv, Completions
<1>. QED
  BY <1>2, <1>9, KernelStep

\* A reset leaves sessions and structures as they are.
LEMMA PeerResetStep ==
  ASSUME ServerInv, PeerReset
  PROVE  ServerInv'
<1>1. PICK t \in Sessions : Abort({o \in ops : o.conn = t})
  BY DEF PeerReset
<1>2. UNCHANGED <<accepted, main, poolVars, m_clients, m_IoState, work, teardowns, stale>>
  BY DEF PeerReset, historyVars
<1>3. NetInv'
  BY <1>1, <1>2, AbortStep DEF ServerInv
<1>. QED
  BY <1>2, <1>3, KernelStep

-----------------------------------------------------------------------------
(* The workers: WorkerThread.                                              *)

\* A worker outside CloseSession does something else outside CloseSession.
LEMMA CalmStep ==
  ASSUME ServerInv, NEW w \in Workers, work[w].at \notin Tearing \cup {"crashed"},
         UNCHANGED <<accepted, main, poolVars, m_clients, teardowns>>, ListInv', NetInv',
         ~ stale' => ~ stale,
         work' \in [Workers -> WorkRecords], \A v \in Workers : v # w => work'[v] = work[v],
         WorkOf(work'[w]), work'[w].at \notin Tearing \cup TornDown
  PROVE  ServerInv'
<1>1. ~ crashed
  BY DEF ServerInv, WorkInv
<1>2. UNCHANGED <<Client, overlapped>> /\ PoolInv'
  BY PoolsStay DEF ServerInv, poolVars
<1>3. \A k \in Kinds : work'[w].at # EnqueueAt[k]
  BY DEF Kinds, EnqueueAt, Tearing, TornDown
<1>4. WorkInv'
  BY <1>1, <1>2, <1>3, WorkStep
<1>5. work[w].at # "remove" /\ work[w].at \notin Tearing /\ work'[w].at \notin Tearing
      /\ work'[w].at \notin OffRecv /\ work'[w].at \notin Tearing \cup TornDown
  BY DEF Tearing, TornDown, OffRecv
<1>6. TearInv' /\ TornDownIsUnlisted'
  BY <1>1, <1>2, <1>5, QuietTear, QuietList
<1>. QED
  BY <1>2, <1>4, <1>6 DEF ServerInv

\* The same, with a step that only goes on.
LEMMA CalmGoto ==
  ASSUME ServerInv, NEW w \in Workers, work[w].at \notin Tearing \cup {"idle", "crashed"},
         UNCHANGED <<accepted, main, poolVars, m_clients, teardowns>>, ListInv', NetInv',
         ~ stale' => ~ stale,
         NEW l \in {"idle"} \cup Looking \cup (Serving \ {"flush"}), Goto(w, l),
         l \in Serving => work[w].at \in Serving
  PROVE  ServerInv'
<1>1. l \in Steps /\ l \notin Tearing \cup TornDown /\ l # "crashed" /\ l # "flush"
  BY DEF Steps, Looking, Serving, Tearing, TornDown
<1>2. /\ work' \in [Workers -> WorkRecords]
      /\ \A v \in Workers : v # w => work'[v] = work[v]
      /\ l = "idle" => work'[w] = Idle
      /\ l # "idle" => /\ work'[w].at = l /\ work'[w].of = work[w].of
                       /\ work'[w].client = work[w].client /\ work'[w].todo = work[w].todo
  BY <1>1, GotoIs DEF ServerInv
<1>3. WorkOf(work'[w]) /\ work'[w].at \notin Tearing \cup TornDown
  <2>1. CASE l = "idle"
    <3>1. work'[w].at = "idle" /\ work'[w].todo = {}
      BY <1>2, <2>1, IdleIs
    <3>. QED
      BY <3>1 DEF WorkOf, Serving, Tearing, TornDown
  <2>2. CASE l # "idle"
    <3>1. /\ work[w].todo \subseteq Begun /\ work[w].of \in Begun
          /\ work[w].at \in Serving => work[w].client \in Begun
      BY DEF ServerInv, WorkInv
    <3>. QED
      BY <1>1, <1>2, <2>2, <3>1 DEF WorkOf
  <2>. QED
    BY <2>1, <2>2
<1>4. work[w].at \notin Tearing \cup {"crashed"}
  OBVIOUS
<1>. QED
  BY <1>2, <1>3, <1>4, CalmStep

\* The worker takes over what the completion says.
LEMMA GetCompletionStep ==
  ASSUME ServerInv, NEW w \in Workers, GetCompletion(w)
  PROVE  ServerInv'
<1> DEFINE Completions == [data : Overlapped, of : Numbers, ok : BOOLEAN]
           e == Head(port)
           r == [Idle EXCEPT !.at = IF e.ok THEN "expired?" ELSE "failed", !.data = e.data, !.of = e.of]
<1>1. /\ work[w].at = "idle" /\ port # << >> /\ port' = Tail(port)
      /\ work' = [work EXCEPT ![w] = r]
      /\ UNCHANGED <<accepted, main, poolVars, m_clients, teardowns, stale, m_IoState, ops>>
  BY DEF GetCompletion, historyVars
<1>2. Begun' = Begun
  BY <1>1 DEF Begun
<1>3. port \in Seq(Completions) /\ \A i \in 1 .. Len(port) : port[i].of \in Begun
  BY DEF ServerInv, NetInv
<1> HIDE DEF Completions
<1>4. e \in Completions /\ e.of \in Begun /\ port' \in Seq(Completions)
  BY <1>1, <1>3, HeadTailProperties
<1>5. \A i \in 1 .. Len(port') : port'[i].of \in Begun
  BY <1>1, <1>3, HeadTailProperties
<1>6. ListInv' /\ NetInv'
  BY <1>1, <1>2, <1>4, <1>5, ListStays DEF ServerInv, NetInv, Completions
<1>7. e.data \in Overlapped /\ e.of \in Numbers
  BY <1>4 DEF Completions
<1> HIDE DEF e
<1>8. /\ r \in WorkRecords /\ r.at \in {"expired?", "failed"} /\ r.of = e.of /\ r.todo = {}
  BY <1>7, IdleIs DEF WorkRecords, Steps, Looking
<1> HIDE DEF r
<1>9. work' \in [Workers -> WorkRecords] /\ work'[w] = r /\ \A v \in Workers : v # w => work'[v] = work[v]
  BY <1>1, <1>8 DEF ServerInv, WorkInv
<1>10. WorkOf(work'[w]) /\ work'[w].at \notin Tearing \cup TornDown
  BY <1>4, <1>8, <1>9 DEF WorkOf, Serving, Tearing, TornDown
<1>11. work[w].at \notin Tearing \cup {"crashed"} /\ (~ stale' => ~ stale)
  BY <1>1 DEF Tearing
<1>. QED
  BY <1>1, <1>6, <1>9, <1>10, <1>11, CalmStep

\* The looks at the client before the completion is dispatched.
LEMMA LookStep ==
  ASSUME ServerInv, NEW w \in Workers, FailedCompletion(w) \/ ExpiredTest(w) \/ ClientTest(w)
  PROVE  ServerInv'
<1>1. /\ work[w].at \in {"failed", "expired?", "client?"}
      /\ UNCHANGED <<accepted, poolVars, m_clients, teardowns, stale, m_IoState, ops, port>>
  BY DEF FailedCompletion, ExpiredTest, ClientTest, socketVars, historyVars
<1>2. CASE Crash
  BY <1>1, <1>2, CrashStep
<1>3. CASE ~ Crash
  <2>1. UNCHANGED main /\ \E l \in {"idle", "close", "client?", "dispatch"} : Goto(w, l)
    BY <1>3 DEF FailedCompletion, ExpiredTest, ClientTest, Goto
  <2>2. PICK l \in {"idle", "close", "client?", "dispatch"} : Goto(w, l)
    BY <2>1
  <2>3. Begun' = Begun
    BY <1>1, <2>1 DEF Begun
  <2>4. ListInv' /\ NetInv'
    BY <1>1, <2>3, ListStays, NetStays DEF ServerInv
  <2>5. /\ l \in {"idle"} \cup Looking \cup (Serving \ {"flush"}) /\ l \notin Serving
        /\ work[w].at \notin Tearing \cup {"idle", "crashed"}
    BY <1>1 DEF Looking, Serving, Tearing
  <2>. QED
    BY <1>1, <2>1, <2>2, <2>4, <2>5, CalmGoto
<1>. QED
  BY <1>2, <1>3

\* The client read at network.cpp:58 is that of a begun session.
LEMMA DispatchStep ==
  ASSUME ServerInv, NEW w \in Workers, Dispatch(w)
  PROVE  ServerInv'
<1> DEFINE c == Client[work[w].data]
           k == work[w].data[1]
<1>1. /\ work[w].at = "dispatch"
      /\ UNCHANGED <<accepted, poolVars, m_clients, teardowns, ops, port>>
  BY DEF Dispatch, socketVars
<1>2. work \in [Workers -> WorkRecords] /\ work[w] \in WorkRecords
  BY DEF ServerInv, WorkInv
<1>3. work[w].data \in Overlapped /\ k \in Kinds /\ c \in Numbers
  BY <1>2 DEF WorkRecords, Overlapped, ServerInv, PoolInv, TypeInv
<1>4. work[w].at \notin Tearing \cup {"idle", "crashed"}
  BY <1>1 DEF Tearing
<1>5. CASE Crash /\ UNCHANGED <<m_IoState, stale>>
  BY <1>1, <1>5, CrashStep
<1>6. CASE Done(w) /\ UNCHANGED <<main, m_IoState, stale>>
  <2>1. Goto(w, "idle") /\ "idle" \in {"idle"} \cup Looking \cup (Serving \ {"flush"}) /\ "idle" \notin Serving
    BY <1>6 DEF Goto, Serving
  <2>2. ListInv' /\ NetInv'
    BY <1>1, <1>6, ListStays, NetStays DEF ServerInv, Begun
  <2>. QED
    BY <1>1, <1>4, <1>6, <2>1, <2>2, CalmGoto
<1>7. CASE /\ c # NULL /\ m_IoState[c][k] = "IO_PENDING"
           /\ m_IoState' = [m_IoState EXCEPT ![c][k] = "IO_CONNECTED"]
           /\ stale' = (stale \/ c # work[w].of)
           /\ work' = [work EXCEPT ![w].client = c, ![w].at = IF k = "recv" THEN "packets" ELSE "isvalid"]
           /\ UNCHANGED main
  <2>1. ~ stale' => ~ stale
    BY <1>7
  <2>2. c \in Sessions
    BY <1>3, <1>7, BoundsAssumption DEF Numbers, Sessions, NULL
  <2>3. c \in Begun /\ Begun' = Begun
    BY <1>1, <1>3, <1>7, <2>2 DEF ServerInv, ListInv, Begun
  <2> HIDE DEF c, k
  <2>4. ListInv'
    BY <1>1, <1>3, <1>7, <2>2, <2>3 DEF ServerInv, ListInv
  <2>5. NetInv'
    BY <1>1, <2>3, NetStays DEF ServerInv
  <2> DEFINE l == IF k = "recv" THEN "packets" ELSE "isvalid"
             r == [work[w] EXCEPT !.client = c, !.at = l]
  <2>6. work' = [work EXCEPT ![w] = r] /\ l \in {"packets", "isvalid"} /\ l \in Serving /\ l \in Steps
    BY <1>7 DEF Serving, Steps
  <2> HIDE DEF l
  <2>7. /\ r \in WorkRecords /\ r.at = l /\ r.client = c /\ r.of = work[w].of /\ r.todo = work[w].todo
    BY <1>2, <1>3, <2>6 DEF WorkRecords
  <2> HIDE DEF r
  <2>8. work' \in [Workers -> WorkRecords] /\ work'[w] = r /\ \A v \in Workers : v # w => work'[v] = work[v]
    BY <1>2, <2>6, <2>7
  <2>9. work[w].todo \subseteq Begun /\ work[w].of \in Begun
    BY <1>4 DEF ServerInv, WorkInv
  <2>10. WorkOf(work'[w]) /\ work'[w].at \notin Tearing \cup TornDown
    BY <2>3, <2>6, <2>7, <2>8, <2>9 DEF WorkOf, Tearing, TornDown
  <2>11. work[w].at \notin Tearing \cup {"crashed"}
    BY <1>4
  <2>. QED
    BY <1>1, <1>7, <2>1, <2>4, <2>5, <2>8, <2>10, <2>11, CalmStep
<1>. QED
  BY <1>5, <1>6, <1>7 DEF Dispatch

\* A worker among the packets, or about to flush or to receive, moves on among
\* these steps for the same client.
LEMMA ServeStep ==
  ASSUME ServerInv, NEW w \in Workers, work[w].at \in Serving,
         UNCHANGED <<accepted, main, poolVars, m_clients, teardowns, stale>>, ListInv', NetInv',
         NEW r \in WorkRecords, work' = [work EXCEPT ![w] = r],
         r.at \in Serving, r.of = work[w].of, r.client = work[w].client, r.todo \subseteq Begun,
         r.at = "flush" => r.target \in Begun
  PROVE  ServerInv'
<1>1. work' \in [Workers -> WorkRecords] /\ work'[w] = r /\ \A v \in Workers : v # w => work'[v] = work[v]
  BY DEF ServerInv, WorkInv
<1>2. work[w].at \notin {"idle", "crashed"} /\ work[w].at \notin Tearing \cup {"crashed"}
  BY DEF Serving, Tearing
<1>3. work[w].of \in Begun /\ work[w].client \in Begun
  BY <1>2 DEF ServerInv, WorkInv
<1>4. r.at \notin Tearing \cup TornDown /\ r.at # "crashed"
  BY DEF Serving, Tearing, TornDown
<1>5. WorkOf(work'[w]) /\ work'[w].at \notin Tearing \cup TornDown
  BY <1>1, <1>3, <1>4 DEF WorkOf
<1>. QED
  BY <1>1, <1>2, <1>5, CalmStep

\* OnReceived may flush any listed session.
LEMMA PacketsStep ==
  ASSUME ServerInv, NEW w \in Workers, Broadcast(w) \/ Relay(w) \/ CloseSelf(w) \/ EndOfPackets(w)
  PROVE  ServerInv'
<1>1. /\ work[w].at = "packets" /\ work[w].at \in Serving
      /\ UNCHANGED <<accepted, main, poolVars, m_clients, teardowns, stale, m_IoState>>
  BY DEF Broadcast, Relay, CloseSelf, EndOfPackets, socketVars, historyVars, Serving
<1>2. Begun' = Begun
  BY <1>1 DEF Begun
<1>3. ListInv'
  BY <1>1, <1>2, ListStays DEF ServerInv
<1>4. /\ work[w] \in WorkRecords /\ work[w].client \in Begun /\ work[w].todo \subseteq Begun
      /\ m_clients \subseteq Begun /\ Begun \subseteq Numbers
  BY <1>1, BegunIs DEF ServerInv, WorkInv, ListInv
<1>5. NetInv'
  <2>1. CASE UNCHANGED <<ops, port>>
    BY <1>2, <2>1, NetStays DEF ServerInv
  <2>2. CASE CloseSelf(w)
    <3>1. PICK T : Abort({o \in ops : o.conn \in T})
      BY <2>2 DEF CloseSelf, closesocket
    <3>. QED
      BY <1>1, <3>1, AbortStep DEF ServerInv
  <2>. QED
    BY <2>1, <2>2 DEF Broadcast, Relay, EndOfPackets, socketVars
<1> DEFINE Fits(r) == /\ r \in WorkRecords /\ work' = [work EXCEPT ![w] = r]
                      /\ r.at \in Serving /\ r.of = work[w].of /\ r.client = work[w].client
                      /\ r.todo \subseteq Begun /\ (r.at = "flush" => r.target \in Begun)
<1>6. CASE Broadcast(w)
  <2>1. work' = [work EXCEPT ![w] = [work[w] EXCEPT !.todo = m_clients]]
    BY <1>6 DEF Broadcast
  <2>2. Fits([work[w] EXCEPT !.todo = m_clients])
    <3>1. PICK r : r = [work[w] EXCEPT !.todo = m_clients]
      OBVIOUS
    <3>2. m_clients \in SUBSET Numbers
      BY <1>4
    <3>3. r \in WorkRecords
      BY <1>4, <3>1, <3>2 DEF WorkRecords
    <3>4. /\ r.at = work[w].at /\ r.of = work[w].of /\ r.client = work[w].client
          /\ r.todo = m_clients
      BY <1>4, <3>1 DEF WorkRecords
    <3>5. Fits(r)
      BY <1>1, <1>4, <2>1, <3>1, <3>3, <3>4
    <3>. QED
      BY <3>1, <3>5
  <2>. QED
    BY <1>1, <1>3, <1>5, <2>2, ServeStep
<1>7. CASE Relay(w)
  <2>1. PICK t \in work[w].todo :
          \/ work' = [work EXCEPT ![w] = [work[w] EXCEPT !.todo = @ \ {t}]]
          \/ work' = [work EXCEPT ![w] = [work[w] EXCEPT !.todo = @ \ {t}, !.at = "flush",
                                                         !.target = t, !.next = "packets"]]
    BY <1>7, ZenonT(30) DEF Relay
  <2>2. t \in Begun /\ t \in Numbers
    BY <1>4
  <2>3. CASE work' = [work EXCEPT ![w] = [work[w] EXCEPT !.todo = @ \ {t}]]
    <3>1. Fits([work[w] EXCEPT !.todo = @ \ {t}])
      BY <1>1, <1>4, <2>3 DEF WorkRecords
    <3>. QED
      BY <1>1, <1>3, <1>5, <3>1, ServeStep
  <2>4. CASE work' = [work EXCEPT ![w] = [work[w] EXCEPT !.todo = @ \ {t}, !.at = "flush",
                                                         !.target = t, !.next = "packets"]]
    <3>1. Fits([work[w] EXCEPT !.todo = @ \ {t}, !.at = "flush", !.target = t, !.next = "packets"])
      BY <1>1, <1>4, <2>2, <2>4 DEF WorkRecords, Serving, Steps
    <3>. QED
      BY <1>1, <1>3, <1>5, <3>1, ServeStep
  <2>. QED
    BY <2>1, <2>3, <2>4
<1>8. CASE CloseSelf(w)
  <2>1. PICK T \in {{}, work[w].todo} :
          work' = [work EXCEPT ![w] = [work[w] EXCEPT !.at = "closingSelf", !.todo = T]]
    BY <1>8 DEF CloseSelf
  <2>2. Fits([work[w] EXCEPT !.at = "closingSelf", !.todo = T])
    BY <1>1, <1>4, <2>1 DEF WorkRecords, Serving, Steps
  <2>. QED
    BY <1>1, <1>3, <1>5, <2>2, ServeStep
<1>9. CASE EndOfPackets(w)
  <2>1. PICK l \in {"flush", "isvalid"} :
          work' = [work EXCEPT ![w] = [work[w] EXCEPT !.at = l, !.target = work[w].client,
                                                      !.next = "isvalid"]]
    BY <1>9 DEF EndOfPackets
  <2>2. Fits([work[w] EXCEPT !.at = l, !.target = work[w].client, !.next = "isvalid"])
    BY <1>1, <1>4, <2>1 DEF WorkRecords, Serving, Steps
  <2>. QED
    BY <1>1, <1>3, <1>5, <2>2, ServeStep
<1>. QED
  BY <1>6, <1>7, <1>8, <1>9

\* The flush after the packets is for a begun session.
LEMMA FlushWorkStep ==
  ASSUME ServerInv, NEW w \in Workers, Flush(w)
  PROVE  ServerInv'
<1>1. /\ work[w].at = "flush" /\ FlushSendBuffer(work[w].target) /\ Goto(w, work[w].next)
      /\ UNCHANGED <<accepted, main, poolVars, m_clients, teardowns, stale, port>>
  BY DEF Flush, historyVars
<1>2. /\ work[w].target \in Begun /\ ~ crashed /\ work[w].next \in {"idle", "packets", "isvalid"}
  BY <1>1 DEF ServerInv, WorkInv, WorkRecords
<1>3. ListInv' /\ NetInv'
  BY <1>1, <1>2, FlushStep DEF ServerInv
<1>4. /\ work[w].next \in {"idle"} \cup Looking \cup (Serving \ {"flush"}) /\ work[w].at \in Serving
      /\ work[w].at \notin Tearing \cup {"idle", "crashed"} /\ (~ stale' => ~ stale)
  BY <1>1, <1>2 DEF Serving, Tearing
<1>. QED
  BY <1>1, <1>3, <1>4, CalmGoto

\* IsValid only decides.
LEMMA IsValidStep ==
  ASSUME ServerInv, NEW w \in Workers, IsValid(w)
  PROVE  ServerInv'
<1>1. /\ work[w].at = "isvalid" /\ work[w].at \in Serving
      /\ UNCHANGED <<accepted, main, poolVars, m_clients, teardowns, stale, m_IoState, ops, port>>
  BY DEF IsValid, socketVars, historyVars, Serving
<1>2. ListInv' /\ NetInv'
  BY <1>1, ListStays, NetStays DEF ServerInv, Begun
<1>3. CASE \E l \in {"idle", "close", "recvasync"} : Goto(w, l)
  <2>1. PICK l \in {"idle", "close", "recvasync"} : Goto(w, l)
    BY <1>3
  <2>2. /\ l \in {"idle"} \cup Looking \cup (Serving \ {"flush"})
        /\ work[w].at \notin Tearing \cup {"idle", "crashed"} /\ (~ stale' => ~ stale)
    BY <1>1 DEF Looking, Serving, Tearing
  <2>. QED
    BY <1>1, <1>2, <2>1, <2>2, CalmGoto
<1>4. CASE work' = [work EXCEPT ![w].at = "flush", ![w].target = work[w].client, ![w].next = "idle"]
  <2> DEFINE r == [work[w] EXCEPT !.at = "flush", !.target = work[w].client, !.next = "idle"]
  <2>1. work' = [work EXCEPT ![w] = r]
    BY <1>4
  <2>2. /\ work[w] \in WorkRecords /\ work[w].client \in Begun /\ work[w].todo \subseteq Begun
        /\ Begun \subseteq Numbers
    BY <1>1, BegunIs DEF ServerInv, WorkInv
  <2>3. /\ r \in WorkRecords /\ r.at \in Serving /\ r.of = work[w].of /\ r.client = work[w].client
        /\ r.todo \subseteq Begun /\ r.target \in Begun
    BY <1>1, <2>2 DEF WorkRecords, Serving, Steps
  <2> HIDE DEF r
  <2>. QED
    BY <1>1, <1>2, <2>1, <2>3, ServeStep
<1>. QED
  BY <1>3, <1>4 DEF IsValid, Goto

\* The next RecvAsync is for a begun session.
LEMMA NextReceiveStep ==
  ASSUME ServerInv, NEW w \in Workers, NextReceive(w)
  PROVE  ServerInv'
<1>1. /\ work[w].at = "recvasync" /\ RecvAsync(work[w].client) /\ Done(w)
      /\ UNCHANGED <<accepted, main, poolVars, m_clients, teardowns, stale, port>>
  BY DEF NextReceive
<1>2. work[w].client \in Begun /\ ~ crashed /\ Begun' = Begun
  BY <1>1 DEF ServerInv, WorkInv, Serving, Begun
<1>3. ListInv' /\ NetInv'
  BY <1>1, <1>2, RecvAsyncStep DEF ServerInv
<1>4. /\ Goto(w, "idle") /\ "idle" \in {"idle"} \cup Looking \cup (Serving \ {"flush"}) /\ "idle" \notin Serving
      /\ work[w].at \notin Tearing \cup {"idle", "crashed"} /\ (~ stale' => ~ stale)
  BY <1>1 DEF Goto, Serving, Tearing
<1>. QED
  BY <1>1, <1>3, <1>4, CalmGoto

-----------------------------------------------------------------------------
(* The workers: CloseSession.                                              *)

\* A worker that goes on with a teardown.
LEMMA TearGoto ==
  ASSUME ServerInv, NEW w \in Workers, work[w].at \in Tearing \cup TornDown,
         UNCHANGED <<accepted, main, overlapped>>,
         NEW l \in Tearing \cup TornDown, Goto(w, l),
         \A k \in Kinds : l = EnqueueAt[k] => overlapped[work[w].client][k] # <<k, NULL>>
  PROVE  /\ WorkInv' /\ ~ crashed
         /\ \A v \in Workers : v # w => work'[v] = work[v]
         /\ work'[w].at = l /\ work'[w].client = work[w].client
<1>1. l \in Steps /\ l \notin {"idle", "crashed"} /\ l \notin Serving
      /\ work[w].at \notin {"idle", "crashed"} /\ l # "flush"
  BY DEF Steps, Tearing, TornDown, Serving
<1>2. /\ work' \in [Workers -> WorkRecords]
      /\ \A v \in Workers : v # w => work'[v] = work[v]
      /\ work'[w].at = l /\ work'[w].of = work[w].of
      /\ work'[w].client = work[w].client /\ work'[w].todo = work[w].todo
  BY <1>1, GotoIs DEF ServerInv
<1>3. ~ crashed /\ work[w].of \in Begun /\ work[w].todo \subseteq Begun /\ work[w].client \in 1 .. accepted
  BY <1>1 DEF ServerInv, WorkInv
<1>4. WorkOf(work'[w])
  BY <1>1, <1>2, <1>3 DEF WorkOf
<1>5. \A k \in Kinds : work'[w].at = EnqueueAt[k] => overlapped[work'[w].client][k] # <<k, NULL>>
  BY <1>2
<1>. QED
  BY <1>2, <1>3, <1>4, <1>5, WorkStep

\* CloseSession claims a session whose structure still names it.
LEMMA CloseSessionStep ==
  ASSUME ServerInv, NEW w \in Workers, CloseSession(w)
  PROVE  ServerInv'
<1>0. PICK c : c = Client[work[w].data]
  OBVIOUS
<1>1. /\ work[w].at = "close"
      /\ UNCHANGED <<accepted, main, poolVars, m_clients, m_IoState, ops, port>>
  BY DEF CloseSession, socketVars
<1>2. Begun' = Begun /\ ListInv' /\ NetInv' /\ PoolInv'
  BY <1>1, ListStays, NetStays, PoolsStay DEF ServerInv, Begun
<1>3. /\ work \in [Workers -> WorkRecords] /\ work[w] \in WorkRecords
      /\ ~ crashed /\ work[w].of \in Begun /\ work[w].todo \subseteq Begun
  BY <1>1 DEF ServerInv, WorkInv
<1>4. CASE Done(w) /\ UNCHANGED <<teardowns, stale>>
  <2>1. /\ Goto(w, "idle") /\ "idle" \in {"idle"} \cup Looking \cup (Serving \ {"flush"})
        /\ "idle" \notin Serving
        /\ work[w].at \notin Tearing \cup {"idle", "crashed"} /\ (~ stale' => ~ stale)
    BY <1>1, <1>4 DEF Goto, Serving, Tearing
  <2>. QED
    BY <1>1, <1>2, <1>4, <2>1, CalmGoto
<1>5. CASE /\ c # NULL
           /\ work' = [work EXCEPT ![w].at = "remove", ![w].client = c]
           /\ teardowns' = [teardowns EXCEPT ![c] = @ + 1]
           /\ stale' = (stale \/ c # work[w].of)
  <2>1. ~ stale' => ~ stale /\ c = work[w].of
    BY <1>5
  <2>2. work[w].data \in Overlapped /\ c \in Numbers
    BY <1>0, <1>3 DEF WorkRecords, ServerInv, PoolInv, TypeInv
  <2>3. c \in 1 .. accepted /\ c \in Sessions /\ Held(c)
    BY <1>0, <1>5, <2>2, BoundsAssumption DEF ServerInv, PoolInv, TypeInv, TieInv, Numbers, Sessions, NULL, Held
  <2> DEFINE r == [work[w] EXCEPT !.at = "remove", !.client = c]
  <2>4. work' = [work EXCEPT ![w] = r]
    BY <1>5
  <2>5. /\ r \in WorkRecords /\ r.at = "remove" /\ r.client = c /\ r.of = work[w].of
        /\ r.todo = work[w].todo
    BY <1>3, <2>2 DEF WorkRecords, Steps, Tearing
  <2> HIDE DEF r
  <2>6. /\ work' \in [Workers -> WorkRecords] /\ \A v \in Workers : v # w => work'[v] = work[v]
        /\ work'[w].at = "remove" /\ work'[w].client = c
        /\ work'[w].of = work[w].of /\ work'[w].todo = work[w].todo
    BY <1>3, <2>4, <2>5
  <2>7. WorkInv'
    <3>1. WorkOf(work'[w])
      BY <1>3, <2>3, <2>6 DEF WorkOf, Serving
    <3>2. \A k \in Kinds : work'[w].at # EnqueueAt[k]
      BY <2>6 DEF Kinds, EnqueueAt
    <3>3. UNCHANGED overlapped
      BY <1>1 DEF poolVars
    <3>. QED
      BY <1>1, <1>3, <2>6, <3>1, <3>2, <3>3, WorkStep
  <2>8. /\ teardowns' \in [Sessions -> Nat] /\ teardowns'[c] = teardowns[c] + 1
        /\ \A s \in Sessions : s # c => teardowns'[s] = teardowns[s]
    BY <1>5, <2>3 DEF ServerInv, TearInv
  <2>9. ASSUME ~ stale'
        PROVE  TearInv'
    <3>1. ~ stale /\ c \in Begun
      BY <1>3, <2>1, <2>9
    <3>2. teardowns[c] = Cardinality(TearingDown(c))
      BY <1>3, <2>3, <3>1 DEF ServerInv, TearInv
    <3>3. /\ TearingDown(c)' = TearingDown(c) \cup {w} /\ w \notin TearingDown(c)
      BY <1>1, <2>6 DEF TearingDown, Tearing
    <3>4. IsFiniteSet(TearingDown(c)) /\ TearingDown(c)' \in SUBSET Workers
      BY FS_Subset, BoundsAssumption DEF TearingDown
    <3>5. Cardinality(TearingDown(c)') = Cardinality(TearingDown(c)) + 1
      BY <3>3, <3>4, FS_AddElement
    <3>6. Cardinality(TearingDown(c)') <= Cardinality(Workers)
      BY <3>4, FS_Subset, BoundsAssumption
    <3>7. \A s \in Sessions : teardowns'[s] > 0 => s \in Begun'
      BY <1>2, <2>8, <3>1 DEF ServerInv, TearInv
    <3>8. \A s \in Sessions : teardowns'[s] <= Cardinality(Workers)
      BY <2>8, <3>1, <3>2, <3>5, <3>6 DEF ServerInv, TearInv
    <3>9. ASSUME NEW s \in Sessions, Held(s)'
          PROVE  teardowns'[s] = Cardinality(TearingDown(s))'
      <4>1. CASE s = c
        BY <2>8, <3>2, <3>5, <4>1
      <4>2. CASE s # c
        <5>1. TearingDown(s)' = TearingDown(s)
          BY <1>1, <2>6, <4>2 DEF TearingDown, Tearing
        <5>2. Held(s)
          BY <1>1, <3>9 DEF Held, poolVars
        <5>. QED
          BY <1>3, <2>8, <3>1, <4>2, <5>1, <5>2 DEF ServerInv, TearInv
      <4>. QED
        BY <4>1, <4>2
    <3>10. \A v \in Workers : work'[v].at \in Tearing \cup TornDown => work'[v].client \in Begun'
      BY <1>2, <2>6, <3>1 DEF ServerInv, TearInv
    <3>11. \A v \in Workers : work'[v].at \in OffRecv =>
            \A o \in Overlapped : o[1] = "recv" => Client'[o] # work'[v].client
      <4>1. "remove" \notin OffRecv /\ UNCHANGED Client
        BY <1>1 DEF OffRecv, TornDown, poolVars
      <4>. QED
        BY <2>6, <3>1, <4>1 DEF ServerInv, TearInv
    <3>. QED
      BY <2>8, <3>7, <3>8, <3>9, <3>10, <3>11 DEF TearInv
  <2>10. TearInv'
    BY <2>8, <2>9 DEF TearInv
  <2>11. TornDownIsUnlisted'
    <3>1. SUFFICES ASSUME ~ stale', NEW s \in m_clients, teardowns'[s] > 0
                   PROVE  \E v \in Workers : work'[v].at = "remove" /\ work'[v].client = s
      BY <1>1 DEF TornDownIsUnlisted
    <3>2. CASE s = c
      BY <2>6, <3>2
    <3>3. CASE s # c
      <4>1. s \in Sessions
        BY BegunIs DEF ServerInv, ListInv
      <4>2. teardowns[s] > 0
        BY <2>8, <3>1, <3>3, <4>1
      <4>3. PICK v \in Workers : work[v].at = "remove" /\ work[v].client = s
        BY <1>3, <2>1, <3>1, <4>2 DEF ServerInv, TornDownIsUnlisted
      <4>. QED
        BY <1>1, <2>6, <4>3
    <3>. QED
      BY <3>2, <3>3
  <2>. QED
    BY <1>2, <2>7, <2>10, <2>11 DEF ServerInv
<1>. QED
  BY <1>0, <1>4, <1>5 DEF CloseSession

\* RemoveTcpClient takes the session off the list.
LEMMA RemoveStep ==
  ASSUME ServerInv, NEW w \in Workers, RemoveTcpClient(w)
  PROVE  ServerInv'
<1>1. /\ work[w].at = "remove" /\ m_clients' = m_clients \ {work[w].client} /\ Goto(w, "disownRecv")
      /\ UNCHANGED <<accepted, main, poolVars, teardowns, stale, m_IoState, ops, port>>
  BY DEF RemoveTcpClient, socketVars, historyVars
<1>2. Begun' = Begun /\ NetInv' /\ PoolInv'
  BY <1>1, NetStays, PoolsStay DEF ServerInv, Begun
<1>3. ListInv'
  BY <1>1, <1>2 DEF ServerInv, ListInv
<1>4. /\ work[w].at \in Tearing /\ "disownRecv" \in Tearing /\ "disownRecv" \notin OffRecv
      /\ UNCHANGED <<Client, overlapped>> /\ \A k \in Kinds : EnqueueAt[k] # "disownRecv"
  BY <1>1 DEF Tearing, TornDown, OffRecv, Kinds, EnqueueAt, poolVars
<1>5. /\ WorkInv' /\ ~ crashed
      /\ \A v \in Workers : v # w => work'[v] = work[v]
      /\ work'[w].at = "disownRecv" /\ work'[w].client = work[w].client
  BY <1>1, <1>4, TearGoto
<1>6. TearInv'
  BY <1>1, <1>4, <1>5, QuietTear
<1>7. TornDownIsUnlisted'
  <2>1. SUFFICES ASSUME ~ stale', NEW s \in m_clients', teardowns[s] > 0
                 PROVE  \E v \in Workers : work'[v].at = "remove" /\ work'[v].client = s
    BY <1>1 DEF TornDownIsUnlisted
  <2>2. s \in m_clients /\ s # work[w].client /\ ~ stale
    BY <1>1, <2>1
  <2>3. PICK v \in Workers : work[v].at = "remove" /\ work[v].client = s
    BY <1>5, <2>1, <2>2 DEF ServerInv, TornDownIsUnlisted
  <2>. QED
    BY <1>5, <2>2, <2>3
<1>. QED
  BY <1>2, <1>3, <1>5, <1>6, <1>7 DEF ServerInv

\* The steps of a teardown for pool k.
LEMMA TearSteps ==
  ASSUME NEW k \in Kinds
  PROVE  /\ DisownAt[k] \in Tearing /\ EnqueueAt[k] \in Tearing \cup TornDown
         /\ After[k] \in Tearing \cup TornDown /\ After[k] \in OffRecv /\ EnqueueAt[k] \in OffRecv
         /\ DisownAt[k] # "remove" /\ EnqueueAt[k] # "remove"
         /\ EnqueueAt[k] \in Tearing <=> After[k] \in Tearing
         /\ \A j \in Kinds : EnqueueAt[j] # After[k] /\ (EnqueueAt[j] = EnqueueAt[k] => j = k)
         /\ k = "recv" => DisownAt[k] \notin OffRecv /\ EnqueueAt[k] \in Tearing
         /\ k = "send" => DisownAt[k] \in OffRecv /\ EnqueueAt[k] \notin Tearing
<1>1. CASE k = "recv"
  BY <1>1 DEF Kinds, DisownAt, EnqueueAt, After, Tearing, TornDown, OffRecv
<1>2. CASE k = "send"
  BY <1>2 DEF Kinds, DisownAt, EnqueueAt, After, Tearing, TornDown, OffRecv
<1>. QED
  BY <1>1, <1>2 DEF Kinds

\* Taking the client off a structure keeps the rest tied as it was.
LEMMA DisownStep ==
  ASSUME ServerInv, NEW w \in Workers, NEW k \in Kinds, Disown(w, k)
  PROVE  ServerInv'
<1>0. PICK c : c = work[w].client
  OBVIOUS
<1>1. PICK o : o = overlapped[c][k]
  OBVIOUS
<1>2. /\ work[w].at = DisownAt[k]
      /\ UNCHANGED <<accepted, main, pool, grown, overlapped, m_clients, teardowns, stale, m_IoState, ops, port>>
  BY DEF Disown, socketVars, historyVars
<1>3. Begun' = Begun /\ ListInv' /\ NetInv'
  BY <1>2, NetStays, ListStays DEF ServerInv, Begun
<1>4. work[w].at \in Tearing
  BY <1>2, TearSteps
<1>5. ~ crashed /\ c \in 1 .. accepted /\ c \in Sessions
  BY <1>0, <1>4, BegunIs DEF ServerInv, WorkInv, Tearing
<1>6. o \in Structures(k) \cup {<<k, NULL>>}
  BY <1>1, <1>5 DEF ServerInv, PoolInv, TypeInv
<1>7. c \in Begun => o # <<k, NULL>>
  <2>1. SUFFICES ASSUME c \in Begun PROVE o # <<k, NULL>>
    OBVIOUS
  <2>2. ~ (c > accepted \/ (c = accepted /\ Making(k)))
    BY <1>5, <2>1, BoundsAssumption DEF Begun, Making, ServerInv, PoolInv, TypeInv, Numbers
  <2>. QED
    BY <1>1, <1>5, <2>2 DEF ServerInv, PoolInv, TieInv
<1>8. CASE o = <<k, NULL>>
  <2>1. Goto(w, After[k]) /\ UNCHANGED Client
    BY <1>0, <1>1, <1>8 DEF Disown
  <2>2. PoolInv'
    BY <1>2, <2>1, PoolsStay DEF ServerInv, poolVars
  <2>3. After[k] \in Tearing \cup TornDown /\ \A j \in Kinds : After[k] # EnqueueAt[j]
    BY TearSteps
  <2>4. WorkInv'
    BY <1>2, <1>4, <2>1, <2>3, TearGoto
  <2>5. stale
    BY <1>0, <1>4, <1>7, <1>8 DEF ServerInv, TearInv
  <2>6. TearInv' /\ TornDownIsUnlisted'
    BY <1>2, <2>5 DEF ServerInv, TearInv, TornDownIsUnlisted
  <2>. QED
    BY <1>3, <2>2, <2>4, <2>6 DEF ServerInv
<1>9. CASE o # <<k, NULL>>
  <2>1. Goto(w, EnqueueAt[k]) /\ Client' = [Client EXCEPT ![o] = NULL]
    BY <1>0, <1>1, <1>9 DEF Disown
  <2>2. o \in Overlapped /\ Client \in [Overlapped -> Numbers] /\ NULL \in Numbers /\ NULL \notin Sessions
    <3>1. Structures(k) \subseteq Overlapped
      BY StructuresAre
    <3>2. o \in Overlapped
      BY <1>6, <1>9, <3>1
    <3>3. NULL \in Numbers /\ NULL \notin Sessions
      BY BoundsAssumption DEF Numbers, Sessions, NULL
    <3>. QED
      BY <3>2, <3>3 DEF ServerInv, PoolInv, TypeInv
  <2>3. Client'[o] = NULL /\ \A x \in Overlapped : x # o => Client'[x] = Client[x]
    BY <2>1, <2>2
  <2>4. PoolInv'
    <3>1. TypeInv'
      BY <1>2, <2>1, <2>2 DEF ServerInv, PoolInv, TypeInv
    <3>2. GrownInv'
      BY <1>2 DEF ServerInv, PoolInv, GrownInv, Making
    <3>3. TieInv'
      BY <1>2, <2>3 DEF ServerInv, PoolInv, TieInv, Making, crashed
    <3>. QED
      BY <3>1, <3>2, <3>3 DEF PoolInv
  <2>5. EnqueueAt[k] \in Tearing \cup TornDown /\ \A j \in Kinds : EnqueueAt[j] = EnqueueAt[k] => j = k
    BY TearSteps
  <2>6. /\ WorkInv' /\ \A v \in Workers : v # w => work'[v] = work[v]
        /\ work'[w].at = EnqueueAt[k] /\ work'[w].client = c
    BY <1>0, <1>1, <1>2, <1>4, <1>9, <2>1, <2>5, TearGoto
  <2>7. TornDownIsUnlisted'
    BY <1>2, <1>5, <2>6, QuietList, TearSteps
  <2>8. ASSUME ~ stale
        PROVE  TearInv'
    <3>1. c \in Begun
      BY <1>0, <1>4, <2>8 DEF ServerInv, TearInv
    <3>2. ASSUME NEW x \in Overlapped, x[1] = k PROVE Client'[x] # c
      <4>1. Client[x] = c => x = o
        BY <1>1, <1>5, <2>2, <3>2 DEF ServerInv, PoolInv, TieInv
      <4>. QED
        BY <1>5, <2>2, <2>3, <4>1
    <3>3. \A x \in Overlapped : Client'[x] = Client[x] \/ Client'[x] = NULL
      BY <2>3
    <3>4. ASSUME NEW s \in Sessions, Held(s)'
          PROVE  Held(s) /\ ~ (s = c /\ k = "send")
      <4>1. PICK x \in Overlapped : Client'[x] = s
        BY <3>4 DEF Held
      <4>2. Client[x] = s
        BY <2>2, <3>3, <4>1
      <4>3. ASSUME s = c, k = "send" PROVE FALSE
        <5>1. x[1] = "recv"
          BY <3>2, <4>1, <4>3, StructuresAre DEF Kinds
        <5>2. work[w].at \in OffRecv
          BY <1>2, <4>3, TearSteps
        <5>. QED
          BY <1>0, <2>8, <4>2, <4>3, <5>1, <5>2 DEF ServerInv, TearInv
      <4>. QED
        BY <4>2, <4>3 DEF Held
    <3>5. ASSUME NEW s \in Sessions, Held(s)'
          PROVE  teardowns'[s] = Cardinality(TearingDown(s))'
      <4>1. s # c \/ EnqueueAt[k] \in Tearing
        BY <3>4, <3>5, TearSteps DEF Kinds
      <4>2. TearingDown(s)' = TearingDown(s)
        BY <1>0, <1>4, <2>6, <4>1 DEF TearingDown
      <4>3. Held(s)
        BY <3>4, <3>5
      <4>. QED
        BY <1>2, <1>5, <2>8, <4>2, <4>3 DEF ServerInv, TearInv
    <3>6. \A v \in Workers : work'[v].at \in Tearing \cup TornDown => work'[v].client \in Begun'
      BY <1>3, <2>6, <2>8, <3>1 DEF ServerInv, TearInv
    <3>7. ASSUME NEW v \in Workers, work'[v].at \in OffRecv, NEW x \in Overlapped, x[1] = "recv"
          PROVE  Client'[x] # work'[v].client
      <4>1. CASE v = w /\ k = "recv"
        BY <2>6, <3>2, <3>7, <4>1
      <4>2. CASE v = w /\ k = "send"
        <5>1. work[w].at \in OffRecv
          BY <1>2, <4>2, TearSteps
        <5>2. Client[x] # c
          BY <1>0, <2>8, <3>7, <5>1 DEF ServerInv, TearInv
        <5>. QED
          BY <1>5, <2>2, <2>6, <3>3, <4>2, <5>2
      <4>3. CASE v # w
        <5>1. work'[v] = work[v] /\ work[v].client \in Sessions
          <6>1. work'[v] = work[v] /\ work[v].at \in Tearing \cup TornDown
            BY <2>6, <3>7, <4>3 DEF OffRecv, Tearing, TornDown
          <6>. QED
            BY <6>1, BegunIs DEF ServerInv, WorkInv
        <5>2. Client[x] # work[v].client
          BY <2>8, <3>7, <5>1 DEF ServerInv, TearInv
        <5>. QED
          BY <2>2, <3>3, <5>1, <5>2
      <4>. QED
        BY <4>1, <4>2, <4>3 DEF Kinds
    <3>. QED
      BY <1>2, <1>3, <2>8, <3>5, <3>6, <3>7 DEF ServerInv, TearInv
  <2>9. TearInv'
    BY <1>2, <2>8 DEF ServerInv, TearInv
  <2>. QED
    BY <1>3, <2>4, <2>6, <2>7, <2>9 DEF ServerInv
<1>. QED
  BY <1>8, <1>9

\* A structure goes back to the end of its pool.
LEMMA EnqueueStep ==
  ASSUME ServerInv, NEW w \in Workers, NEW k \in Kinds, Enqueue(w, k)
  PROVE  ServerInv'
<1>1. /\ work[w].at = EnqueueAt[k] /\ Goto(w, After[k])
      /\ pool' = [pool EXCEPT ![k] = Append(pool[k], overlapped[work[w].client][k])]
      /\ UNCHANGED <<accepted, main, grown, Client, overlapped, m_clients, teardowns, stale, m_IoState, ops, port>>
  BY DEF Enqueue, socketVars, historyVars
<1>2. Begun' = Begun /\ ListInv' /\ NetInv'
  BY <1>1, NetStays, ListStays DEF ServerInv, Begun
<1>3. /\ work[w].at \in Tearing \cup TornDown /\ After[k] \in Tearing \cup TornDown
      /\ \A j \in Kinds : After[k] # EnqueueAt[j]
      /\ work[w].at \in OffRecv /\ work[w].at # "remove" /\ (work[w].at \in Tearing <=> After[k] \in Tearing)
  BY <1>1, TearSteps
<1>4. work[w].client \in Sessions /\ overlapped[work[w].client][k] # <<k, NULL>>
  BY <1>1, <1>3, BegunIs DEF ServerInv, WorkInv
<1>5. overlapped[work[w].client][k] \in Structures(k)
  BY <1>4 DEF ServerInv, PoolInv, TypeInv
<1>6. pool[k] \in Seq(Structures(k)) /\ pool = [j \in Kinds |-> pool[j]]
      /\ \A j \in Kinds : pool[j] \in Seq(Structures(j))
  BY DEF ServerInv, PoolInv, TypeInv
<1>7. Append(pool[k], overlapped[work[w].client][k]) \in Seq(Structures(k))
  BY <1>5, <1>6
<1>8. pool' = [j \in Kinds |-> pool'[j]] /\ \A j \in Kinds : pool'[j] \in Seq(Structures(j))
  BY <1>1, <1>6, <1>7
<1>9. PoolInv'
  BY <1>1, <1>8 DEF ServerInv, PoolInv, TypeInv, GrownInv, TieInv, Making, crashed
<1>10. /\ WorkInv' /\ ~ crashed /\ \A v \in Workers : v # w => work'[v] = work[v]
       /\ work'[w].at = After[k] /\ work'[w].client = work[w].client
  BY <1>1, <1>3, TearGoto
<1>11. TearInv' /\ TornDownIsUnlisted'
  BY <1>1, <1>3, <1>10, QuietTear, QuietList
<1>. QED
  BY <1>2, <1>9, <1>10, <1>11 DEF ServerInv

\* TcpClient::Close at the end of a teardown, and the flag after it.
LEMMA CloseStep ==
  ASSUME ServerInv, NEW w \in Workers, Close(w)
  PROVE  ServerInv'
<1>1. /\ work[w].at = "closesocket" /\ closesocket(work[w].client) /\ Goto(w, "closing")
      /\ UNCHANGED <<accepted, main, poolVars, m_clients, teardowns, stale, m_IoState>>
  BY DEF Close, historyVars
<1>2. Begun' = Begun /\ ListInv' /\ PoolInv' /\ UNCHANGED <<Client, overlapped>>
  BY <1>1, PoolsStay, ListStays DEF ServerInv, Begun, poolVars
<1>3. NetInv'
  <2>1. PICK T : Abort({o \in ops : o.conn \in T})
    BY <1>1 DEF closesocket
  <2>. QED
    BY <1>1, <2>1, AbortStep DEF ServerInv
<1>4. /\ work[w].at \in Tearing \cup TornDown /\ "closing" \in Tearing \cup TornDown
      /\ work[w].at \notin Tearing /\ "closing" \notin Tearing /\ work[w].at # "remove"
      /\ work[w].at \in OffRecv /\ \A j \in Kinds : "closing" # EnqueueAt[j]
  BY <1>1 DEF Tearing, TornDown, OffRecv, Kinds, EnqueueAt
<1>5. /\ WorkInv' /\ ~ crashed /\ \A v \in Workers : v # w => work'[v] = work[v]
      /\ work'[w].at = "closing" /\ work'[w].client = work[w].client
  BY <1>1, <1>2, <1>4, TearGoto
<1>6. TearInv' /\ TornDownIsUnlisted'
  BY <1>1, <1>2, <1>4, <1>5, QuietTear, QuietList
<1>. QED
  BY <1>2, <1>3, <1>5, <1>6 DEF ServerInv

\* The end of CloseSession: the session is unlisted already.
LEMMA SetClosingStep ==
  ASSUME ServerInv, NEW w \in Workers, SetClosing(w)
  PROVE  ServerInv'
<1>1. /\ work[w].at \in {"closing", "closingSelf"}
      /\ \E l \in {"idle", "packets"} : Goto(w, l) /\ (l = "packets" => work[w].at = "closingSelf")
      /\ UNCHANGED <<accepted, main, poolVars, m_clients, teardowns, stale, m_IoState, ops, port>>
  BY DEF SetClosing, socketVars, historyVars
<1>2. PICK l \in {"idle", "packets"} : Goto(w, l) /\ (l = "packets" => work[w].at = "closingSelf")
  BY <1>1
<1>3. ListInv' /\ NetInv'
  BY <1>1, NetStays, ListStays DEF ServerInv, Begun
<1>4. /\ l \in {"idle"} \cup Looking \cup (Serving \ {"flush"}) /\ (l \in Serving => work[w].at \in Serving)
      /\ work[w].at \notin Tearing \cup {"idle", "crashed"} /\ (~ stale' => ~ stale)
  BY <1>1, <1>2 DEF Serving, Tearing
<1>. QED
  BY <1>1, <1>2, <1>3, <1>4, CalmGoto

-----------------------------------------------------------------------------
(* The theorems.                                                           *)

\* The pools are full, and nothing is accepted or in flight.
LEMMA InitServer == Init => ServerInv
<1> SUFFICES ASSUME Init PROVE ServerInv
  OBVIOUS
<1>1. accepted = 0 /\ main = "accept" /\ Begun = {} /\ ~ crashed /\ \A k \in Kinds : ~ Making(k)
  BY DEF Init, Begun, crashed, Making
<1>2. TypeInv
  <2>1. \A k \in Kinds : Fresh(k, 0) \in Seq(Structures(k))
    <3>1. SUFFICES ASSUME NEW k \in Kinds PROVE Fresh(k, 0) \in Seq(Structures(k))
      OBVIOUS
    <3>2. PoolSize <= PoolSize * (MaxSessions + 1)
      BY BoundsAssumption, Sizes DEF Numbers
    <3>3. \A i \in 1 .. PoolSize : <<k, 0 + i>> \in Structures(k)
      BY <3>2, BoundsAssumption, Sizes DEF Structures
    <3>4. Fresh(k, 0) \in [1 .. PoolSize -> Structures(k)]
      BY <3>3 DEF Fresh
    <3>. QED
      BY <3>4, BoundsAssumption
  <2>2. pool = [k \in Kinds |-> pool[k]] /\ \A k \in Kinds : pool[k] \in Seq(Structures(k))
    BY <2>1 DEF Init
  <2>3. grown \in [Kinds -> Nat] /\ Client \in [Overlapped -> Numbers] /\ accepted \in Numbers
    BY BoundsAssumption DEF Init, Numbers, NULL
  <2>4. overlapped \in [Sessions -> [Kinds -> Overlapped \cup {<<"recv", NULL>>, <<"send", NULL>>}]]
    BY DEF Init, Kinds
  <2>5. \A s \in Sessions, k \in Kinds : overlapped[s][k] \in Structures(k) \cup {<<k, NULL>>}
    BY DEF Init
  <2>. QED
    BY <1>1, <2>2, <2>3, <2>4, <2>5 DEF TypeInv, MainSteps
<1>3. GrownInv
  <2>1. \A k \in Kinds : grown[k] = PoolSize
    BY DEF Init
  <2>2. PoolSize * (0 + 1) = PoolSize
    BY BoundsAssumption
  <2>. QED
    BY <1>1, <2>1, <2>2, BoundsAssumption DEF GrownInv
<1>4. TieInv
  BY <1>1 DEF TieInv, Init, Sessions
<1>5. ListInv
  BY <1>1 DEF ListInv, Init
<1>6. NetInv
  BY <1>1, FS_EmptySet DEF NetInv, Init
<1>7. WorkInv
  <2>1. \A w \in Workers : work[w] = Idle
    BY DEF Init
  <2>2. work \in [Workers -> WorkRecords]
    BY IdleIs DEF Init
  <2>3. "idle" \notin Serving /\ "idle" \notin Tearing \cup TornDown /\ \A k \in Kinds : EnqueueAt[k] # "idle"
    BY DEF Serving, Tearing, TornDown, Kinds, EnqueueAt
  <2>. QED
    BY <1>1, <2>1, <2>2, <2>3, IdleIs DEF WorkInv
<1>8. TearInv
  <2>1. \A s \in Sessions : teardowns[s] = 0 /\ ~ Held(s)
    BY DEF Init, Held, Sessions, NULL
  <2>2. \A w \in Workers : work[w].at \notin Tearing \cup TornDown /\ work[w].at \notin OffRecv
    BY IdleIs DEF Init, Tearing, TornDown, OffRecv
  <2>3. Cardinality(Workers) \in Nat /\ teardowns \in [Sessions -> Nat]
    BY BoundsAssumption, FS_CardinalityType DEF Init
  <2>. QED
    BY <2>1, <2>2, <2>3 DEF TearInv
<1>. QED
  BY <1>2, <1>3, <1>4, <1>5, <1>6, <1>7, <1>8 DEF ServerInv, PoolInv, TornDownIsUnlisted, Init

\* ServerInv is inductive.
LEMMA NextServer == ServerInv /\ [Next]_vars => ServerInv'
<1> SUFFICES ASSUME ServerInv, [Next]_vars PROVE ServerInv'
  OBVIOUS
<1>1. ASSUME Run PROVE ServerInv'
  <2>1. CASE TakeRecvOverlapped
    <3>1. "recv" \in Kinds /\ Making("recv")
      BY <2>1 DEF TakeRecvOverlapped, Making, Kinds
    <3>. QED
      BY <2>1, <3>1, TakeStep DEF TakeRecvOverlapped, socketVars, historyVars
  <2>2. CASE TakeSendOverlapped
    <3>1. "send" \in Kinds /\ Making("send")
      BY <2>2 DEF TakeSendOverlapped, Making, Kinds
    <3>. QED
      BY <2>2, <3>1, TakeStep DEF TakeSendOverlapped, socketVars, historyVars
  <2>. QED
    BY <1>1, <2>1, <2>2, AcceptStep, AddStep, BindStep, FirstReceiveStep DEF Run
<1>2. ASSUME NEW w \in Workers, WorkerThread(w) PROVE ServerInv'
  BY <1>2, GetCompletionStep, LookStep, DispatchStep, PacketsStep, FlushWorkStep, IsValidStep,
     NextReceiveStep, CloseSessionStep, RemoveStep, DisownStep, EnqueueStep, CloseStep, SetClosingStep
  DEF WorkerThread
<1>3. ASSUME UNCHANGED vars PROVE ServerInv'
  <2>1. /\ UNCHANGED <<accepted, main, poolVars, m_clients, m_IoState, ops, port, work, teardowns, stale>>
    BY <1>3 DEF vars, poolVars
  <2>2. NetInv'
    BY <2>1, NetStays DEF ServerInv, Begun
  <2>. QED
    BY <2>1, <2>2, KernelStep
<1>. QED
  BY <1>1, <1>2, <1>3, CompleteStep, PeerResetStep DEF Next

\* In every reachable state, pools, structures, sessions and workers fit
\* together as ServerInv says.
LEMMA ServerSafe == Spec => []ServerInv
  BY InitServer, NextServer, PTL DEF Spec

\* With any number of workers, sessions and structures, a session of which every
\* completion goes to its own session is torn down no more often than there are
\* workers (CloseSession).
THEOREM NeverTornDownMore == Spec => []TornDownOnce
<1>1. ServerInv => TornDownOnce
  BY DEF ServerInv, TearInv, TornDownOnce
<1>. QED
  BY <1>1, ServerSafe, PTL

\* A session that CloseSession has got hold of is off the list, or the worker
\* that got hold of it is about to take it off (RemoveTcpClient).
THEOREM TornDownAreUnlisted == Spec => []TornDownIsUnlisted
<1>1. ServerInv => TornDownIsUnlisted
  BY DEF ServerInv
<1>. QED
  BY <1>1, ServerSafe, PTL

-----------------------------------------------------------------------------
(* One receive for each session.                                           *)

\* The receives of a session that the kernel holds, that are queued at the port,
\* and that a worker has.
RecvOps(s)  == {o \in ops : o.of = s /\ o.data[1] = "recv"}
RecvDone(s) == {i \in 1 .. Len(port) : port[i].of = s /\ port[i].data[1] = "recv"}
RecvWork(s) == {w \in Workers : work[w].at # "idle" /\ work[w].of = s /\ work[w].data[1] = "recv"}

\* At most one element in three sets.
One(A, B, C) ==
  /\ \A x, y \in A : x = y
  /\ \A x, y \in B : x = y
  /\ \A x, y \in C : x = y
  /\ A = {} \/ B = {}
  /\ A = {} \/ C = {}
  /\ B = {} \/ C = {}

\* Nobody but the main thread gives a structure to a session, so that of the
\* session it works on, or worked on last, has this client or none.
LastInv ==
  \A k \in Kinds : accepted \in Sessions /\ ~ Making(k) =>
    Client[overlapped[accepted][k]] \in {accepted, NULL}

\* A worker serves the session of its completion, and receives after a receive;
\* a session has no receive before FirstReceive.
RecvInv ==
  /\ LastInv
  /\ \A w \in Workers : work[w].at \in Serving => work[w].client = work[w].of
  /\ \A w \in Workers : work[w].at = "recvasync" => work[w].data[1] = "recv"
  /\ main # "accept" => RecvOps(accepted) = {} /\ RecvDone(accepted) = {} /\ RecvWork(accepted) = {}
  /\ \A s \in Sessions : One(RecvOps(s), RecvDone(s), RecvWork(s))

ReceiveInv == ~ crashed /\ ~ stale => RecvInv

\* The main thread gets on without a receive.
LEMMA MakingKeepsRecv ==
  ASSUME ServerInv, RecvInv, ~ crashed,
         Accept \/ TakeRecvOverlapped \/ TakeSendOverlapped \/ AddTcpClient \/ BindSocket
  PROVE  RecvInv'
<1>1. UNCHANGED <<ops, port, work>>
  BY DEF Accept, TakeRecvOverlapped, TakeSendOverlapped, AddTcpClient, BindSocket, socketVars
<1>2. \A s : RecvOps(s)' = RecvOps(s) /\ RecvDone(s)' = RecvDone(s) /\ RecvWork(s)' = RecvWork(s)
  BY <1>1 DEF RecvOps, RecvDone, RecvWork
<1>3. RecvOps(accepted)' = RecvOps(accepted') /\ RecvDone(accepted)' = RecvDone(accepted')
      /\ RecvWork(accepted)' = RecvWork(accepted')
  BY <1>1 DEF RecvOps, RecvDone, RecvWork
<1>4. RecvOps(accepted') = {} /\ RecvDone(accepted') = {} /\ RecvWork(accepted') = {}
  <2>1. CASE Accept
    <3>1. accepted' \notin Begun
      BY <2>1 DEF Accept, Begun, ServerInv, PoolInv, TypeInv, Numbers
    <3>2. \A w \in Workers : work[w].at # "idle" => work[w].of \in Begun
      BY DEF ServerInv, WorkInv
    <3>. QED
      BY <3>1, <3>2 DEF RecvOps, RecvDone, RecvWork, ServerInv, NetInv
  <2>2. CASE ~ Accept
    <3>1. accepted' = accepted /\ main # "accept"
      BY <2>2 DEF TakeRecvOverlapped, TakeSendOverlapped, AddTcpClient, BindSocket
    <3>. QED
      BY <3>1 DEF RecvInv
  <2>. QED
    BY <2>1, <2>2
<1>5. LastInv'
  <2>1. CASE Accept
    BY <2>1 DEF Accept, LastInv, Making
  <2>2. CASE AddTcpClient \/ BindSocket
    BY <2>2 DEF AddTcpClient, BindSocket, poolVars, LastInv, Making, RecvInv
  <2>3. ASSUME NEW k \in Kinds, Making(k), TakeOverlapped(accepted, k), UNCHANGED accepted,
               (main = "takeSend" /\ k = "send" /\ main' = "add") \/ (main' = "takeSend" /\ k = "recv")
        PROVE  LastInv'
    <3>1. accepted \in Sessions
      BY <2>3 DEF Making, ServerInv, PoolInv, TypeInv
    <3>2. PICK o \in Structures(k) : /\ overlapped' = [overlapped EXCEPT ![accepted][k] = o]
                                     /\ Client' = [Client EXCEPT ![o] = accepted]
      BY <2>3, <3>1, TakeIs, SMTT(30) DEF ServerInv, PoolInv
    <3>3. SUFFICES ASSUME NEW j \in Kinds, ~ Making(j)'
                   PROVE  Client'[overlapped'[accepted][j]] \in {accepted, NULL}
      BY <2>3 DEF LastInv
    <3>4. CASE j = k
      <4>1. overlapped'[accepted][j] = o
        BY <3>1, <3>2, <3>4 DEF ServerInv, PoolInv, TypeInv
      <4>2. Client'[o] = accepted
        BY <3>2, StructuresAre DEF ServerInv, PoolInv, TypeInv
      <4>. QED
        BY <4>1, <4>2
    <3>5. CASE j # k
      <4>1. overlapped'[accepted][j] = overlapped[accepted][j] /\ ~ Making(j)
        <5>1. overlapped'[accepted][j] = overlapped[accepted][j]
          BY <3>1, <3>2, <3>5 DEF ServerInv, PoolInv, TypeInv
        <5>2. main' = "takeSend" /\ k = "recv" => j = "send"
          BY <3>5 DEF Kinds
        <5>3. main' = "add"
          BY <2>3, <3>3, <5>2 DEF Making
        <5>4. ~ Making(j)
          BY <2>3, <3>5, <5>3 DEF Making, Kinds
        <5>. QED
          BY <5>1, <5>4
      <4>2. overlapped[accepted][j] # o
        <5>1. overlapped[accepted][j] \in Structures(j) \cup {<<j, NULL>>}
          BY <3>1 DEF ServerInv, PoolInv, TypeInv
        <5>2. overlapped[accepted][j][1] = j
          <6>1. <<j, NULL>>[1] = j /\ \A x \in Structures(j) : x[1] = j
            BY StructuresAre
          <6>. QED
            BY <5>1, <6>1
        <5>3. o[1] = k
          BY StructuresAre
        <5>. QED
          BY <3>5, <5>2, <5>3
      <4>3. Client[overlapped[accepted][j]] \in {accepted, NULL}
        BY <3>1, <4>1 DEF RecvInv, LastInv
      <4>4. Client'[overlapped[accepted][j]] = Client[overlapped[accepted][j]]
        BY <3>2, <4>2 DEF ServerInv, PoolInv, TypeInv
      <4>. QED
        BY <4>1, <4>3, <4>4
    <3>. QED
      BY <3>4, <3>5
  <2>4. CASE TakeRecvOverlapped
    BY <2>3, <2>4 DEF TakeRecvOverlapped, Making, Kinds
  <2>5. CASE TakeSendOverlapped
    BY <2>3, <2>5 DEF TakeSendOverlapped, Making, Kinds
  <2>. QED
    BY <2>1, <2>2, <2>4, <2>5
<1>. QED
  BY <1>1, <1>2, <1>3, <1>4, <1>5 DEF RecvInv

\* The first receive of a session is the only one.
LEMMA FirstReceiveOne ==
  ASSUME ServerInv, RecvInv, FirstReceive, ~ crashed'
  PROVE  RecvInv'
<1>1. /\ main = "recv" /\ main' = "accept" /\ RecvAsync(Client[overlapped[accepted]["recv"]])
      /\ Client[overlapped[accepted]["recv"]] # NULL
      /\ UNCHANGED <<work, Client, overlapped, accepted, port>>
  BY DEF FirstReceive, Crash, crashed, poolVars
<1>2. accepted \in Sessions /\ "recv" \in Kinds /\ ~ Making("recv")
  BY <1>1 DEF ServerInv, PoolInv, TypeInv, Making, Kinds
<1>3. Client[overlapped[accepted]["recv"]] = accepted
  BY <1>1, <1>2 DEF RecvInv, LastInv
<1>4. \E e : e.of = accepted /\ ops' \subseteq ops \cup {e}
  <2>1. RecvAsync(accepted)
    BY <1>1, <1>3
  <2>2. CASE UNCHANGED ops
    <3>1. [of |-> accepted].of = accepted /\ ops' \subseteq ops \cup {[of |-> accepted]}
      BY <2>2
    <3>. QED
      BY <3>1
  <2>3. CASE Post(accepted, "recv")
    BY <2>3 DEF Post
  <2>. QED
    BY <2>1, <2>2, <2>3 DEF RecvAsync
<1>5. PICK e : e.of = accepted /\ ops' \subseteq ops \cup {e}
  BY <1>4
<1>6. RecvOps(accepted) = {} /\ RecvDone(accepted) = {} /\ RecvWork(accepted) = {}
  BY <1>1 DEF RecvInv
<1>7. \A s : RecvDone(s)' = RecvDone(s) /\ RecvWork(s)' = RecvWork(s)
  BY <1>1 DEF RecvDone, RecvWork
<1>8. ASSUME NEW s \in Sessions PROVE One(RecvOps(s), RecvDone(s), RecvWork(s))'
  <2>1. CASE s = accepted
    <3>1. RecvOps(s)' \subseteq {e}
      BY <1>5, <1>6, <2>1 DEF RecvOps
    <3>. QED
      BY <1>6, <1>7, <2>1, <3>1 DEF One
  <2>2. CASE s # accepted
    <3>1. RecvOps(s)' \subseteq RecvOps(s)
      BY <1>5, <2>2 DEF RecvOps
    <3>2. One(RecvOps(s), RecvDone(s), RecvWork(s))
      BY DEF RecvInv
    <3>. QED
      BY <1>7, <3>1, <3>2 DEF One
  <2>. QED
    BY <2>1, <2>2
<1>9. LastInv'
  <2>1. \A k \in Kinds : ~ Making(k)
    BY <1>1 DEF Making
  <2>. QED
    BY <1>1, <2>1 DEF RecvInv, LastInv
<1>. QED
  BY <1>1, <1>8, <1>9 DEF RecvInv

\* Receives that are not posted anew are no more than before.
LEMMA FewerKeep ==
  ASSUME NEW A, NEW B, NEW C, One(A, B, C),
         NEW D \in SUBSET A, NEW E \in SUBSET B, NEW F \in SUBSET C
  PROVE  One(D, E, F)
  BY DEF One

\* Operations that end with an error.
LEMMA AbortOne ==
  ASSUME ServerInv, NEW S \in SUBSET ops, Abort(S), NEW s, NEW C,
         One(RecvOps(s), RecvDone(s), C)
  PROVE  /\ One(RecvOps(s)', RecvDone(s)', C)
         /\ RecvOps(s) = {} /\ RecvDone(s) = {} => RecvOps(s)' = {} /\ RecvDone(s)' = {}
<1> DEFINE heard == {o \in S : ~ Unbound(o.conn)}
           n == Cardinality(heard)
<1>1. PICK q \in [1 .. n -> heard] :
        /\ Range(q) = heard
        /\ port' = port \o [i \in DOMAIN q |-> [data |-> q[i].data, of |-> q[i].of, ok |-> FALSE]]
  BY DEF Abort
<1>2. ops' = ops \ S /\ heard \subseteq S
  BY DEF Abort
<1>3. IsFiniteSet(heard) /\ n \in Nat
  BY FS_Subset, FS_CardinalityType DEF ServerInv, NetInv
<1>4. \A i, j \in 1 .. n : q[i] = q[j] => i = j
  <2>1. q \in Surjection(1 .. n, heard)
    BY <1>1 DEF Range, Surjection
  <2>2. IsFiniteSet(1 .. n) /\ Cardinality(1 .. n) = n
    BY <1>3, FS_Interval
  <2>3. q \in Injection(1 .. n, heard)
    BY <2>1, <2>2, FS_SurjSameCardinalityImpliesInj
  <2>. QED
    BY <2>3 DEF Injection, IsInjective
<1> DEFINE z == [i \in 1 .. n |-> [data |-> q[i].data, of |-> q[i].of, ok |-> FALSE]]
<1>5. port' = port \o z
  BY <1>1
<1>6. \A i \in 1 .. n : q[i] \in S /\ z[i].of = q[i].of /\ z[i].data = q[i].data
  BY <1>1, <1>2
<1> HIDE DEF heard, n
<1>7. z \in Seq([data : {q[i].data : i \in 1 .. n}, of : {q[i].of : i \in 1 .. n}, ok : BOOLEAN]) /\ Len(z) = n
  BY <1>3
<1> HIDE DEF z
<1>8. port \in Seq([data : Overlapped, of : Numbers, ok : BOOLEAN])
  BY DEF ServerInv, NetInv
<1>9. Len(port') = Len(port) + n /\ Len(port) \in Nat
  BY <1>5, <1>7, <1>8
<1>10. ASSUME NEW i \in 1 .. Len(port')
       PROVE  \/ i \in 1 .. Len(port) /\ port'[i] = port[i]
              \/ i - Len(port) \in 1 .. n /\ port'[i] = z[i - Len(port)]
  BY <1>3, <1>5, <1>7, <1>8, <1>9
<1>11. ASSUME NEW i \in RecvDone(s)'
       PROVE  \/ i \in RecvDone(s)
              \/ i - Len(port) \in 1 .. n /\ q[i - Len(port)] \in RecvOps(s)
  BY <1>6, <1>10 DEF RecvDone, RecvOps
<1>12. RecvOps(s)' = RecvOps(s) \ S
  BY <1>2 DEF RecvOps
<1>13. RecvDone(s)' \subseteq Int /\ \A i \in RecvDone(s)' : i \in RecvDone(s) \/ i > Len(port)
  BY <1>9, <1>11 DEF RecvDone
<1>14. CASE RecvOps(s) = {}
  BY <1>11, <1>12, <1>14 DEF One
<1>15. CASE RecvOps(s) # {}
  <2>1. PICK o : o \in RecvOps(s)
    BY <1>15
  <2>2. RecvOps(s) = {o} /\ RecvDone(s) = {} /\ C = {}
    BY <2>1 DEF One
  <2>3. \A i \in RecvDone(s)' : i - Len(port) \in 1 .. n /\ q[i - Len(port)] = o
    BY <1>11, <2>2
  <2>4. \A i, j \in RecvDone(s)' : i = j
    BY <1>4, <1>9, <1>13, <2>3
  <2>5. RecvDone(s)' # {} => o \in S
    BY <1>6, <2>3
  <2>6. RecvOps(s)' \subseteq {o} /\ (o \in S => RecvOps(s)' = {})
    BY <1>12, <2>2
  <2>. QED
    BY <1>15, <2>2, <2>4, <2>5, <2>6 DEF One
<1>. QED
  BY <1>14, <1>15

\* A reset starts no receive.
LEMMA PeerResetOne ==
  ASSUME ServerInv, RecvInv, PeerReset
  PROVE  RecvInv'
<1>1. PICK t \in Sessions : Abort({o \in ops : o.conn = t})
  BY DEF PeerReset
<1>2. UNCHANGED <<accepted, main, Client, overlapped, work>>
  BY DEF PeerReset, poolVars
<1>3. \A s : RecvWork(s)' = RecvWork(s)
  BY <1>2 DEF RecvWork
<1>4. \A s \in Sessions : One(RecvOps(s), RecvDone(s), RecvWork(s))'
  BY <1>1, <1>3, AbortOne DEF RecvInv
<1>5. ASSUME main' # "accept"
      PROVE  RecvOps(accepted)' = {} /\ RecvDone(accepted)' = {} /\ RecvWork(accepted)' = {}
  <2>1. RecvOps(accepted) = {} /\ RecvDone(accepted) = {} /\ RecvWork(accepted) = {}
    BY <1>2, <1>5 DEF RecvInv
  <2>2. One(RecvOps(accepted), RecvDone(accepted), {})
    BY <2>1 DEF One
  <2>3. PICK s : s = accepted
    OBVIOUS
  <2>4. RecvOps(s)' = {} /\ RecvDone(s)' = {}
    BY <1>1, <2>1, <2>2, <2>3, AbortOne
  <2>. QED
    BY <1>2, <1>3, <2>1, <2>3, <2>4 DEF RecvOps, RecvDone, RecvWork
<1>6. LastInv'
  BY <1>2 DEF RecvInv, LastInv, Making
<1>. QED
  BY <1>2, <1>4, <1>5, <1>6 DEF RecvInv

\* A receive moves from the kernel to the port, and stays one.
LEMMA CompleteOne ==
  ASSUME ServerInv, RecvInv, Complete
  PROVE  RecvInv'
<1>1. PICK o \in ops, ok \in BOOLEAN :
        /\ ops' = ops \ {o}
        /\ port' = port \/ port' = Append(port, [data |-> o.data, of |-> o.of, ok |-> ok])
  BY DEF Complete
<1>2. UNCHANGED <<accepted, main, Client, overlapped, work>>
  BY DEF Complete, poolVars
<1> DEFINE e == [data |-> o.data, of |-> o.of, ok |-> ok]
<1>3. port' = port \/ port' = Append(port, e)
  BY <1>1
<1>4. e.data = o.data /\ e.of = o.of
  OBVIOUS
<1> HIDE DEF e
<1>5. port \in Seq([data : Overlapped, of : Numbers, ok : BOOLEAN])
  BY DEF ServerInv, NetInv
<1>6. ASSUME NEW s, One(RecvOps(s), RecvDone(s), RecvWork(s))
      PROVE  /\ One(RecvOps(s)', RecvDone(s)', RecvWork(s)')
             /\ RecvOps(s) = {} /\ RecvDone(s) = {} => RecvOps(s)' = {} /\ RecvDone(s)' = {}
  <2>1. RecvWork(s)' = RecvWork(s)
    BY <1>2 DEF RecvWork
  <2>2. RecvOps(s)' = RecvOps(s) \ {o}
    BY <1>1 DEF RecvOps
  <2>3. \A i \in RecvDone(s)' : i \in RecvDone(s) \/ (i = Len(port) + 1 /\ o \in RecvOps(s))
    <3>1. CASE port' = port
      BY <3>1 DEF RecvDone
    <3>2. CASE port' = Append(port, e)
      BY <1>1, <1>4, <1>5, <3>2 DEF RecvDone, RecvOps
    <3>. QED
      BY <1>3, <3>1, <3>2
  <2>4. CASE o \in RecvOps(s)
    <3>1. RecvOps(s) = {o} /\ RecvDone(s) = {} /\ RecvWork(s) = {}
      BY <1>6, <2>4 DEF One
    <3>. QED
      BY <2>1, <2>2, <2>3, <3>1 DEF One
  <2>5. CASE o \notin RecvOps(s)
    BY <1>6, <2>1, <2>2, <2>3, <2>5 DEF One
  <2>. QED
    BY <2>4, <2>5
<1>7. \A s \in Sessions : One(RecvOps(s), RecvDone(s), RecvWork(s))'
  <2>1. SUFFICES ASSUME NEW s \in Sessions PROVE One(RecvOps(s), RecvDone(s), RecvWork(s))'
    OBVIOUS
  <2>2. One(RecvOps(s), RecvDone(s), RecvWork(s))
    BY DEF RecvInv
  <2>3. One(RecvOps(s)', RecvDone(s)', RecvWork(s)')
    BY <1>6, <2>2
  <2>. QED
    BY <2>3
<1>8. ASSUME main' # "accept"
      PROVE  RecvOps(accepted)' = {} /\ RecvDone(accepted)' = {} /\ RecvWork(accepted)' = {}
  <2>1. RecvOps(accepted) = {} /\ RecvDone(accepted) = {} /\ RecvWork(accepted) = {}
    BY <1>2, <1>8 DEF RecvInv
  <2>2. One(RecvOps(accepted), RecvDone(accepted), RecvWork(accepted))
    BY <2>1 DEF One
  <2>3. PICK s : s = accepted
    OBVIOUS
  <2>4. RecvOps(s)' = {} /\ RecvDone(s)' = {}
    BY <1>6, <2>1, <2>2, <2>3
  <2>. QED
    BY <1>2, <2>1, <2>3, <2>4 DEF RecvOps, RecvDone, RecvWork
<1>9. LastInv'
  BY <1>2 DEF RecvInv, LastInv, Making
<1>. QED
  BY <1>2, <1>7, <1>8, <1>9 DEF RecvInv

\* What a worker does with its record once it has a completion.
LEMMA WorkerKeeps ==
  ASSUME ServerInv, RecvInv, NEW w \in Workers, ~ crashed', ~ stale',
         WorkerThread(w), ~ GetCompletion(w)
  PROVE  /\ UNCHANGED <<accepted, main, overlapped>>
         /\ \A o \in Overlapped : Client'[o] = Client[o] \/ Client'[o] = NULL
         /\ work[w].at # "idle" /\ \A v \in Workers : v # w => work'[v] = work[v]
         /\ work'[w].at = "idle" \/ (work'[w].of = work[w].of /\ work'[w].data = work[w].data)
         /\ work'[w].at \in Serving => work'[w].client = work'[w].of
         /\ work'[w].at = "recvasync" => work'[w].data[1] = "recv"
<1> DEFINE Kept ==
      /\ UNCHANGED <<accepted, main, overlapped>>
      /\ \A o \in Overlapped : Client'[o] = Client[o] \/ Client'[o] = NULL
      /\ work[w].at # "idle" /\ \A v \in Workers : v # w => work'[v] = work[v]
      /\ work'[w].at = "idle" \/ (work'[w].of = work[w].of /\ work'[w].data = work[w].data)
      /\ work'[w].at \in Serving => work'[w].client = work'[w].of
      /\ work'[w].at = "recvasync" => work'[w].data[1] = "recv"
<1>0. ~ Crash
  BY DEF Crash, crashed
<1>1. /\ work \in [Workers -> WorkRecords] /\ work[w] \in WorkRecords
      /\ work[w].at \in Serving => work[w].client = work[w].of
      /\ work[w].next \in {"idle", "packets", "isvalid"}
      /\ Idle.at = "idle" /\ "idle" \notin Serving
  BY IdleIs DEF ServerInv, WorkInv, RecvInv, WorkRecords, Serving
<1>2. CASE FailedCompletion(w)
  BY <1>0, <1>1, <1>2 DEF FailedCompletion, Goto, Done, poolVars, Serving, WorkRecords
<1>3. CASE ExpiredTest(w) \/ ClientTest(w)
  BY <1>1, <1>3 DEF ExpiredTest, ClientTest, Goto, Done, poolVars, Serving, WorkRecords
<1>4. CASE Dispatch(w)
  <2>1. CASE Done(w) /\ UNCHANGED main
    BY <1>1, <1>4, <2>1 DEF Dispatch, Done, poolVars, WorkRecords
  <2>2. CASE /\ work' = [work EXCEPT ![w].client = Client[work[w].data],
                              ![w].at = IF work[w].data[1] = "recv" THEN "packets" ELSE "isvalid"]
             /\ stale' = (stale \/ Client[work[w].data] # work[w].of)
             /\ UNCHANGED main
    <3>1. Client[work[w].data] = work[w].of
      BY <2>2
    <3>2. work'[w].at \in {"packets", "isvalid"}
      BY <1>1, <2>2 DEF WorkRecords
    <3>3. /\ work'[w].client = Client[work[w].data] /\ work'[w].of = work[w].of
          /\ work'[w].data = work[w].data /\ \A v \in Workers : v # w => work'[v] = work[v]
      BY <1>1, <2>2 DEF WorkRecords
    <3>. QED
      BY <1>4, <2>2, <3>1, <3>2, <3>3 DEF Dispatch, poolVars
  <2>. QED
    BY <1>0, <1>4, <2>1, <2>2 DEF Dispatch
<1>5. CASE Broadcast(w)
  BY <1>1, <1>5 DEF Broadcast, poolVars, Serving, WorkRecords
<1>6. CASE Relay(w)
  BY <1>1, <1>6 DEF Relay, poolVars, Serving, WorkRecords
<1>7. CASE Flush(w)
  BY <1>1, <1>7 DEF Flush, Goto, Done, poolVars, Serving, WorkRecords
<1>8. CASE CloseSelf(w)
  BY <1>1, <1>8 DEF CloseSelf, poolVars, Serving, WorkRecords
<1>9. CASE EndOfPackets(w)
  BY <1>1, <1>9 DEF EndOfPackets, poolVars, Serving, WorkRecords
<1>10. CASE IsValid(w)
  BY <1>1, <1>10 DEF IsValid, Goto, Done, poolVars, Serving, WorkRecords
<1>11. CASE NextReceive(w)
  BY <1>1, <1>11 DEF NextReceive, Done, poolVars, WorkRecords
<1>12. CASE CloseSession(w)
  BY <1>1, <1>12 DEF CloseSession, Done, poolVars, Serving, WorkRecords
<1>13. CASE RemoveTcpClient(w)
  BY <1>1, <1>13 DEF RemoveTcpClient, Goto, poolVars, Serving, WorkRecords
<1>14. ASSUME NEW k \in Kinds, Disown(w, k) \/ Enqueue(w, k) PROVE Kept
  <2>1. /\ work[w].at \in {DisownAt[k], EnqueueAt[k]} /\ UNCHANGED <<accepted, main, overlapped>>
        /\ \E l \in {EnqueueAt[k], After[k]} : Goto(w, l)
    BY <1>14 DEF Disown, Enqueue
  <2>2. PICK l \in {EnqueueAt[k], After[k]} : Goto(w, l)
    BY <2>1
  <2>3. l \in Tearing \cup TornDown /\ work[w].at \in Tearing \cup TornDown
    BY <2>1, TearSteps
  <2>4. l # "idle" /\ l \notin Serving /\ l # "recvasync" /\ work[w].at # "idle"
    BY <2>3 DEF Tearing, TornDown, Serving
  <2>5. /\ \A v \in Workers : v # w => work'[v] = work[v]
        /\ work'[w].at = l /\ work'[w].of = work[w].of /\ work'[w].data = work[w].data
    BY <1>1, <2>2, <2>4 DEF Goto, WorkRecords
  <2>6. \A o \in Overlapped : Client'[o] = Client[o] \/ Client'[o] = NULL
    BY <1>14 DEF Disown, Enqueue, ServerInv, PoolInv, TypeInv
  <2>. QED
    BY <2>1, <2>4, <2>5, <2>6
<1>15. CASE Close(w) \/ SetClosing(w)
  BY <1>1, <1>15 DEF Close, SetClosing, Goto, Done, poolVars, Serving, WorkRecords
<1>. QED
  BY <1>2, <1>3, <1>4, <1>5, <1>6, <1>7, <1>8, <1>9, <1>10, <1>11, <1>12, <1>13, <1>14, <1>15
  DEF WorkerThread

\* A worker posts a receive only when it has finished the one before.
LEMMA WorkerOne ==
  ASSUME ServerInv, RecvInv, NEW w \in Workers, ~ crashed, ~ crashed', ~ stale',
         WorkerThread(w), ~ GetCompletion(w)
  PROVE  RecvInv'
<1>1. /\ UNCHANGED <<accepted, main, overlapped>>
      /\ \A o \in Overlapped : Client'[o] = Client[o] \/ Client'[o] = NULL
      /\ work[w].at # "idle" /\ \A v \in Workers : v # w => work'[v] = work[v]
      /\ work'[w].at = "idle" \/ (work'[w].of = work[w].of /\ work'[w].data = work[w].data)
      /\ work'[w].at \in Serving => work'[w].client = work'[w].of
      /\ work'[w].at = "recvasync" => work'[w].data[1] = "recv"
  BY WorkerKeeps
<1>2. LastInv'
  <2>1. SUFFICES ASSUME NEW k \in Kinds, accepted \in Sessions, ~ Making(k)
                 PROVE  Client'[overlapped[accepted][k]] \in {accepted, NULL}
    BY <1>1 DEF LastInv, Making
  <2>2. overlapped[accepted][k] \in Overlapped
    <3>1. overlapped[accepted][k] # <<k, NULL>>
      BY <2>1, BoundsAssumption DEF ServerInv, PoolInv, TieInv, Sessions
    <3>2. overlapped[accepted][k] \in Structures(k) \cup {<<k, NULL>>} /\ Structures(k) \subseteq Overlapped
      BY <2>1, StructuresAre DEF ServerInv, PoolInv, TypeInv
    <3>. QED
      BY <3>1, <3>2
  <2>3. Client[overlapped[accepted][k]] \in {accepted, NULL}
    BY <2>1 DEF RecvInv, LastInv
  <2>. QED
    BY <1>1, <2>2, <2>3
<1>3. \A s : RecvWork(s)' \subseteq RecvWork(s)
  BY <1>1 DEF RecvWork
<1>4. ASSUME NEW s, One(RecvOps(s), RecvDone(s), RecvWork(s))
      PROVE  /\ One(RecvOps(s)', RecvDone(s)', RecvWork(s)')
             /\ RecvOps(s) = {} /\ RecvDone(s) = {} /\ RecvWork(s) = {} =>
                  RecvOps(s)' = {} /\ RecvDone(s)' = {} /\ RecvWork(s)' = {}
  <2>1. CASE UNCHANGED <<ops, port>>
    <3>1. RecvOps(s)' = RecvOps(s) /\ RecvDone(s)' = RecvDone(s)
      BY <2>1 DEF RecvOps, RecvDone
    <3>. QED
      BY <1>3, <1>4, <3>1 DEF One
  <2>2. CASE Flush(w)
    <3>1. ops' = ops \/ \E e : e.data[1] = "send" /\ ops' = ops \cup {e}
      <4>1. CASE Post(work[w].target, "send")
        <5>1. PICK e : e.data = overlapped[work[w].target]["send"] /\ ops' = ops \cup {e}
          BY <4>1 DEF Post
        <5>2. work[w].target \in Sessions /\ "send" \in Kinds
          BY <2>2, BegunIs DEF ServerInv, WorkInv, Flush, Kinds
        <5>3. overlapped[work[w].target]["send"] \in Structures("send") \cup {<<"send", NULL>>}
          BY <5>2 DEF ServerInv, PoolInv, TypeInv
        <5>4. overlapped[work[w].target]["send"][1] = "send"
          <6>1. <<"send", NULL>>[1] = "send" /\ \A x \in Structures("send") : x[1] = "send"
            BY <5>2, StructuresAre
          <6>. QED
            BY <5>3, <6>1
        <5>. QED
          BY <5>1, <5>4
      <4>. QED
        BY <2>2, <4>1 DEF Flush, FlushSendBuffer
    <3>2. RecvOps(s)' = RecvOps(s)
      BY <3>1 DEF RecvOps
    <3>3. RecvDone(s)' = RecvDone(s)
      BY <2>2 DEF Flush, RecvDone
    <3>. QED
      BY <1>3, <1>4, <3>2, <3>3 DEF One
  <2>3. CASE NextReceive(w)
    <3>1. /\ work[w].at = "recvasync" /\ RecvAsync(work[w].client) /\ UNCHANGED port
          /\ work'[w].at = "idle"
      BY <2>3, IdleIs DEF NextReceive, Done, ServerInv, WorkInv
    <3>2. work[w].client = work[w].of /\ work[w].data[1] = "recv"
      BY <3>1 DEF RecvInv, Serving
    <3>3. RecvDone(s)' = RecvDone(s)
      BY <3>1 DEF RecvDone
    <3>4. ops' = ops \/ \E e : e.of = work[w].of /\ ops' = ops \cup {e}
      BY <3>1, <3>2 DEF RecvAsync, Post
    <3>5. CASE s = work[w].of
      <4>1. w \in RecvWork(s) /\ w \notin RecvWork(s)'
        BY <1>1, <3>1, <3>2, <3>5 DEF RecvWork
      <4>2. RecvOps(s) = {} /\ RecvDone(s) = {} /\ RecvWork(s) = {w}
        BY <1>4, <4>1 DEF One
      <4>3. \E e : RecvOps(s)' \subseteq {e}
        <5>1. CASE ops' = ops
          BY <4>2, <5>1 DEF RecvOps
        <5>2. CASE ops' # ops
          <6>1. PICK e : ops' = ops \cup {e}
            BY <3>4, <5>2
          <6>2. RecvOps(s)' \subseteq {e}
            BY <4>2, <6>1 DEF RecvOps
          <6>. QED
            BY <6>2
        <5>. QED
          BY <5>1, <5>2
      <4>4. RecvWork(s)' = {}
        BY <1>3, <4>1, <4>2
      <4>. QED
        BY <3>3, <4>1, <4>2, <4>3, <4>4 DEF One
    <3>6. CASE s # work[w].of
      <4>1. RecvOps(s)' = RecvOps(s)
        BY <3>4, <3>6 DEF RecvOps
      <4>. QED
        BY <1>3, <1>4, <3>3, <4>1 DEF One
    <3>. QED
      BY <3>5, <3>6
  <2>4. CASE CloseSelf(w) \/ Close(w)
    <3>1. PICK T : Abort({o \in ops : o.conn \in T})
      BY <2>4 DEF CloseSelf, Close, closesocket
    <3>2. /\ One(RecvOps(s)', RecvDone(s)', RecvWork(s))
          /\ RecvOps(s) = {} /\ RecvDone(s) = {} => RecvOps(s)' = {} /\ RecvDone(s)' = {}
      BY <1>4, <3>1, AbortOne
    <3>. QED
      BY <1>3, <3>2 DEF One
  <2>. QED
    BY <2>1, <2>2, <2>3, <2>4
    DEF WorkerThread, FailedCompletion, ExpiredTest, ClientTest, Dispatch, Broadcast, Relay,
        EndOfPackets, IsValid, CloseSession, RemoveTcpClient, Disown, Enqueue, SetClosing, socketVars
<1>5. ASSUME NEW s \in Sessions PROVE One(RecvOps(s), RecvDone(s), RecvWork(s))'
  <2>1. One(RecvOps(s), RecvDone(s), RecvWork(s))
    BY DEF RecvInv
  <2>2. One(RecvOps(s)', RecvDone(s)', RecvWork(s)')
    BY <1>4, <2>1
  <2>. QED
    BY <2>2
<1>6. ASSUME main' # "accept"
      PROVE  RecvOps(accepted)' = {} /\ RecvDone(accepted)' = {} /\ RecvWork(accepted)' = {}
  <2>1. RecvOps(accepted) = {} /\ RecvDone(accepted) = {} /\ RecvWork(accepted) = {}
    BY <1>1, <1>6 DEF RecvInv
  <2>2. PICK s : s = accepted
    OBVIOUS
  <2>3. One(RecvOps(s), RecvDone(s), RecvWork(s))
    BY <2>1, <2>2 DEF One
  <2>4. RecvOps(s)' = {} /\ RecvDone(s)' = {} /\ RecvWork(s)' = {}
    BY <1>4, <2>1, <2>2, <2>3
  <2>. QED
    BY <1>1, <2>2, <2>4 DEF RecvOps, RecvDone, RecvWork
<1>7. \A v \in Workers : /\ work'[v].at \in Serving => work'[v].client = work'[v].of
                         /\ work'[v].at = "recvasync" => work'[v].data[1] = "recv"
  BY <1>1 DEF RecvInv
<1>. QED
  BY <1>2, <1>5, <1>6, <1>7 DEF RecvInv

\* A receive moves from the port to one worker.
LEMMA GetCompletionOne ==
  ASSUME ServerInv, RecvInv, NEW w \in Workers, GetCompletion(w)
  PROVE  RecvInv'
<1> DEFINE e == Head(port)
<1>1. /\ work[w].at = "idle" /\ port # << >> /\ port' = Tail(port)
      /\ work' = [work EXCEPT ![w] = [Idle EXCEPT !.at = IF e.ok THEN "expired?" ELSE "failed",
                                                  !.data = e.data, !.of = e.of]]
      /\ UNCHANGED <<accepted, main, Client, overlapped, ops>>
  BY DEF GetCompletion, poolVars
<1>2. /\ work'[w].at \in {"expired?", "failed"} /\ work'[w].of = e.of /\ work'[w].data = e.data
      /\ \A v \in Workers : v # w => work'[v] = work[v]
  BY <1>1 DEF Idle, ServerInv, WorkInv
<1>3. port \in Seq([data : Overlapped, of : Numbers, ok : BOOLEAN])
  BY DEF ServerInv, NetInv
<1>4. /\ 1 \in 1 .. Len(port) /\ e = port[1]
      /\ \A i \in 1 .. Len(port') : i + 1 \in 1 .. Len(port) /\ port'[i] = port[i + 1]
  BY <1>1, <1>3, HeadTailProperties
<1> HIDE DEF e
<1>5. ASSUME NEW s
      PROVE  /\ RecvOps(s)' = RecvOps(s) /\ RecvDone(s)' \subseteq Int /\ RecvDone(s) \subseteq Int
             /\ \A i \in RecvDone(s)' : i + 1 \in RecvDone(s) /\ i + 1 # 1
             /\ 1 \in RecvDone(s) => RecvWork(s)' = RecvWork(s) \cup {w}
             /\ 1 \notin RecvDone(s) => RecvWork(s)' = RecvWork(s)
  <2>1. RecvOps(s)' = RecvOps(s)
    BY <1>1 DEF RecvOps
  <2>2. /\ RecvDone(s)' \subseteq Int /\ RecvDone(s) \subseteq Int
        /\ \A i \in RecvDone(s)' : i + 1 \in RecvDone(s) /\ i + 1 # 1
    BY <1>4 DEF RecvDone
  <2>3. 1 \in RecvDone(s) <=> e.of = s /\ e.data[1] = "recv"
    BY <1>4 DEF RecvDone
  <2>4. w \notin RecvWork(s) /\ (w \in RecvWork(s)' <=> 1 \in RecvDone(s))
    BY <1>1, <1>2, <2>3 DEF RecvWork
  <2>5. \A v : v # w => (v \in RecvWork(s)' <=> v \in RecvWork(s))
    BY <1>2 DEF RecvWork
  <2>. QED
    BY <2>1, <2>2, <2>4, <2>5
<1>6. ASSUME NEW s \in Sessions PROVE One(RecvOps(s), RecvDone(s), RecvWork(s))'
  <2>1. One(RecvOps(s), RecvDone(s), RecvWork(s))
    BY DEF RecvInv
  <2>2. CASE 1 \in RecvDone(s)
    <3>1. RecvOps(s) = {} /\ RecvWork(s) = {} /\ \A i \in RecvDone(s) : i = 1
      BY <2>1, <2>2 DEF One
    <3>2. RecvDone(s)' = {} /\ RecvWork(s)' = {w} /\ RecvOps(s)' = {}
      BY <1>5, <2>2, <3>1
    <3>. QED
      BY <3>2 DEF One
  <2>3. CASE 1 \notin RecvDone(s)
    <3>1. \A i, j \in RecvDone(s)' : i = j
      <4>1. SUFFICES ASSUME NEW i \in RecvDone(s)', NEW j \in RecvDone(s)' PROVE i = j
        OBVIOUS
      <4>2. i + 1 = j + 1 /\ i \in Int /\ j \in Int
        BY <1>5, <2>1 DEF One
      <4>. QED
        BY <4>2
    <3>2. RecvDone(s) = {} => RecvDone(s)' = {}
      BY <1>5
    <3>. QED
      BY <1>5, <2>1, <2>3, <3>1, <3>2 DEF One
  <2>. QED
    BY <2>2, <2>3
<1>7. ASSUME main' # "accept"
      PROVE  RecvOps(accepted)' = {} /\ RecvDone(accepted)' = {} /\ RecvWork(accepted)' = {}
  <2>1. RecvOps(accepted) = {} /\ RecvDone(accepted) = {} /\ RecvWork(accepted) = {}
    BY <1>1, <1>7 DEF RecvInv
  <2>2. PICK s : s = accepted
    OBVIOUS
  <2>3. RecvOps(s)' = {} /\ RecvDone(s)' = {} /\ RecvWork(s)' = {}
    BY <1>5, <2>1, <2>2
  <2>. QED
    BY <1>1, <2>2, <2>3 DEF RecvOps, RecvDone, RecvWork
<1>8. \A v \in Workers : /\ work'[v].at \in Serving => work'[v].client = work'[v].of
                         /\ work'[v].at = "recvasync" => work'[v].data[1] = "recv"
  BY <1>2 DEF RecvInv, Serving
<1>9. LastInv'
  BY <1>1 DEF RecvInv, LastInv, Making
<1>. QED
  BY <1>6, <1>7, <1>8, <1>9 DEF RecvInv

\* At first there is no receive.
LEMMA InitReceive == Init => ReceiveInv
<1> SUFFICES ASSUME Init PROVE RecvInv
  BY DEF ReceiveInv
<1>1. \A s : RecvOps(s) = {} /\ RecvDone(s) = {} /\ RecvWork(s) = {}
  BY IdleIs DEF Init, RecvOps, RecvDone, RecvWork
<1>2. LastInv
  BY DEF Init, LastInv, Sessions
<1>3. \A w \in Workers : work[w].at = "idle"
  BY IdleIs DEF Init
<1>. QED
  BY <1>1, <1>2, <1>3 DEF RecvInv, One, Serving

\* Nothing happens after a crash.
LEMMA CrashedStops ==
  ASSUME ServerInv, Next
  PROVE  ~ crashed
<1>1. SUFFICES ASSUME crashed PROVE FALSE
  OBVIOUS
<1>2. ~ Run /\ ~ Complete /\ ~ PeerReset
  BY <1>1 DEF Run, Accept, TakeRecvOverlapped, TakeSendOverlapped, AddTcpClient, BindSocket,
              FirstReceive, Complete, PeerReset, crashed
<1>3. ASSUME NEW w \in Workers, WorkerThread(w) PROVE FALSE
  <2>1. work[w].at = "crashed"
    BY <1>1 DEF ServerInv, WorkInv
  <2>2. \A k \in Kinds : DisownAt[k] # "crashed" /\ EnqueueAt[k] # "crashed"
    BY DEF Kinds, DisownAt, EnqueueAt
  <2>. QED
    BY <1>3, <2>1, <2>2
    DEF WorkerThread, GetCompletion, FailedCompletion, ExpiredTest, ClientTest, Dispatch,
        Broadcast, Relay, Flush, CloseSelf, EndOfPackets, IsValid, NextReceive, CloseSession,
        RemoveTcpClient, Disown, Enqueue, Close, SetClosing
<1>. QED
  BY <1>2, <1>3 DEF Next

\* A completion that went to another session is not forgotten.
LEMMA StaleStays ==
  ASSUME Next, ~ stale'
  PROVE  ~ stale
<1>1. stale' = stale \/ \E w \in Workers : Dispatch(w) \/ CloseSession(w)
  BY ZenonT(30) DEF Next, Run, Accept, TakeRecvOverlapped, TakeSendOverlapped, AddTcpClient, BindSocket,
         FirstReceive, Complete, PeerReset, WorkerThread, GetCompletion, FailedCompletion,
         ExpiredTest, ClientTest, Broadcast, Relay, Flush, CloseSelf, EndOfPackets, IsValid,
         NextReceive, RemoveTcpClient, Disown, Enqueue, Close, SetClosing, historyVars
<1>2. ASSUME NEW w \in Workers, Dispatch(w) \/ CloseSession(w) PROVE ~ stale
  BY <1>2 DEF Dispatch, CloseSession
<1>. QED
  BY <1>1, <1>2

\* ReceiveInv is inductive relative to ServerInv.
LEMMA NextReceiveInv == ServerInv /\ ReceiveInv /\ [Next]_vars => ReceiveInv'
<1> SUFFICES ASSUME ServerInv, ReceiveInv, [Next]_vars, ~ crashed', ~ stale' PROVE RecvInv'
  BY DEF ReceiveInv
<1>1. CASE UNCHANGED vars
  BY <1>1 DEF vars, ReceiveInv, RecvInv, LastInv, Making, RecvOps, RecvDone, RecvWork, crashed
<1>2. CASE Next
  <2>1. ~ crashed /\ ~ stale
    BY <1>2, CrashedStops, StaleStays
  <2>2. RecvInv
    BY <2>1 DEF ReceiveInv
  <2>3. CASE Run
    BY <2>1, <2>2, <2>3, MakingKeepsRecv, FirstReceiveOne DEF Run
  <2>4. ASSUME NEW w \in Workers, WorkerThread(w) PROVE RecvInv'
    BY <2>1, <2>2, <2>4, WorkerOne, GetCompletionOne
  <2>. QED
    BY <1>2, <2>2, <2>3, <2>4, CompleteOne, PeerResetOne DEF Next
<1>. QED
  BY <1>1, <1>2

\* With any number of workers, a session has at most one receive on its way (with
\* the kernel, at the port or with a worker) as long as no worker crashes and
\* every completion goes to its own session; so OnReceived runs alone on the
\* session's receive buffer, which has no lock.
THEOREM NeverTwoReceives == Spec => []OneReceive
<1>1. ServerInv /\ ReceiveInv => OneReceive
  <2> SUFFICES ASSUME ServerInv, RecvInv, NEW s \in Sessions PROVE Cardinality(Receiving(s)) <= 1
    BY DEF ReceiveInv, OneReceive
  <2>1. One(RecvOps(s), RecvDone(s), RecvWork(s))
    BY DEF RecvInv
  <2>2. Receiving(s) = RecvOps(s) \cup {<<i, port[i]>> : i \in RecvDone(s)} \cup RecvWork(s)
    <3>1. DOMAIN port = 1 .. Len(port)
      BY DEF ServerInv, NetInv
    <3>. QED
      BY <3>1 DEF Receiving, RecvOps, RecvDone, RecvWork
  <2>3. \A x, y \in Receiving(s) : x = y
    BY <2>1, <2>2 DEF One
  <2>4. Receiving(s) = {} \/ \E x : Receiving(s) = {x}
    BY <2>3
  <2>5. Cardinality({}) = 0 /\ \A x : Cardinality({x}) = 1
    BY FS_EmptySet, FS_Singleton
  <2>6. Cardinality(Receiving(s)) \in {0, 1}
    BY <2>4, <2>5
  <2>. QED
    BY <2>6
<1>. QED
  BY <1>1, InitReceive, NextReceiveInv, ServerSafe, PTL DEF Spec

-----------------------------------------------------------------------------
(* The pools account for all structures.                                   *)

\* The steps of a teardown before the structure of pool k is disowned.
Before(k) == IF k = "recv" THEN {"remove", "disownRecv"} ELSE Tearing

\* Each session is torn down by one worker; until that worker has come to a
\* structure of it, the structure has the session as its client.
OwnedInv ==
  /\ \A w \in Workers : work[w].at \in Tearing \cup TornDown => teardowns[work[w].client] = 1
  /\ \A v, w \in Workers :
       work[v].at \in Tearing \cup TornDown /\ work[w].at \in Tearing \cup TornDown
         /\ work[v].client = work[w].client => v = w
  /\ \A s \in Sessions, k \in Kinds :
       teardowns[s] = 0 /\ overlapped[s][k] # <<k, NULL>> => Client[overlapped[s][k]] = s
  /\ \A w \in Workers, k \in Kinds :
       work[w].at \in Before(k) /\ overlapped[work[w].client][k] # <<k, NULL>> =>
         Client[overlapped[work[w].client][k]] = work[w].client

\* A structure without a client is in its pool, once, or with one worker that
\* puts it back, and those beyond the ones allocated are with nobody.
FreeOf(k) ==
  /\ \A i, j \in 1 .. Len(pool[k]) : pool[k][i] = pool[k][j] => i = j
  /\ \A i \in 1 .. Len(pool[k]) : pool[k][i][2] <= grown[k] /\ Client[pool[k][i]] = NULL
  /\ \A w \in Workers : work[w].at = EnqueueAt[k] =>
       /\ overlapped[work[w].client][k][2] <= grown[k]
       /\ Client[overlapped[work[w].client][k]] = NULL
       /\ \A i \in 1 .. Len(pool[k]) : pool[k][i] # overlapped[work[w].client][k]
  /\ \A v, w \in Workers :
       work[v].at = EnqueueAt[k] /\ work[w].at = EnqueueAt[k]
         /\ overlapped[work[v].client][k] = overlapped[work[w].client][k] => v = w
  /\ \A o \in Structures(k) : o[2] <= grown[k] /\ Client[o] = NULL =>
       \/ \E i \in 1 .. Len(pool[k]) : pool[k][i] = o
       \/ \E w \in Workers : work[w].at = EnqueueAt[k] /\ overlapped[work[w].client][k] = o
  /\ \A o \in Structures(k) : o[2] > grown[k] => Client[o] = NULL

FreeInv == \A k \in Kinds : FreeOf(k)

AccountInv == ~ crashed /\ ~ TornDownTwice => OwnedInv /\ FreeInv

\* Steps that begin no teardown, and steps that leave the structures of a pool
\* alone.
LEMMA OwnedStays ==
  ASSUME OwnedInv, UNCHANGED <<Client, overlapped, teardowns>>,
         \A v \in Workers :
           /\ work'[v].at \in Tearing \cup TornDown =>
                work[v].at \in Tearing \cup TornDown /\ work'[v].client = work[v].client
           /\ \A k \in Kinds : work'[v].at \in Before(k) => work[v].at \in Before(k)
  PROVE  OwnedInv'
<1>1. \A k \in Kinds : Before(k) \subseteq Tearing \cup TornDown
  BY DEF Before, Tearing
<1>. QED
  BY <1>1, ZenonT(30) DEF OwnedInv

\* The free structures of a kind, when nothing of that kind moves.
LEMMA FreeStays ==
  ASSUME NEW k \in Kinds, FreeOf(k), UNCHANGED <<Client, overlapped>>,
         pool'[k] = pool[k], grown'[k] = grown[k],
         \A v \in Workers : /\ work'[v].at = EnqueueAt[k] <=> work[v].at = EnqueueAt[k]
                            /\ work[v].at = EnqueueAt[k] => work'[v].client = work[v].client
  PROVE  FreeOf(k)'
<1>1. /\ \A w \in Workers : work'[w].at = EnqueueAt[k] =>
           /\ overlapped[work'[w].client][k][2] <= grown[k]
           /\ Client[overlapped[work'[w].client][k]] = NULL
           /\ \A i \in 1 .. Len(pool[k]) : pool[k][i] # overlapped[work'[w].client][k]
      /\ \A v, w \in Workers :
           work'[v].at = EnqueueAt[k] /\ work'[w].at = EnqueueAt[k]
             /\ overlapped[work'[v].client][k] = overlapped[work'[w].client][k] => v = w
      /\ \A o \in Structures(k) : o[2] <= grown[k] /\ Client[o] = NULL =>
           \/ \E i \in 1 .. Len(pool[k]) : pool[k][i] = o
           \/ \E w \in Workers : work'[w].at = EnqueueAt[k] /\ overlapped[work'[w].client][k] = o
  BY DEF FreeOf
<1>. QED
  BY <1>1 DEF FreeOf

\* The accounts, when no structure changes hands.
LEMMA AccountStays ==
  ASSUME OwnedInv, FreeInv, UNCHANGED <<pool, grown, Client, overlapped, teardowns>>,
         \A v \in Workers :
           /\ work'[v].at \in Tearing \cup TornDown =>
                work[v].at \in Tearing \cup TornDown /\ work'[v].client = work[v].client
           /\ \A k \in Kinds : work'[v].at \in Before(k) => work[v].at \in Before(k)
           /\ \A k \in Kinds : work'[v].at = EnqueueAt[k] <=> work[v].at = EnqueueAt[k]
           /\ \A k \in Kinds : work[v].at = EnqueueAt[k] => work'[v].client = work[v].client
  PROVE  OwnedInv' /\ FreeInv'
<1>1. OwnedInv'
  BY OwnedStays
<1>2. ASSUME NEW k \in Kinds PROVE FreeOf(k)'
  BY FreeStays DEF FreeInv
<1>. QED
  BY <1>1, <1>2 DEF FreeInv

\* MakeClientSessionEx takes a structure without a client.
LEMMA TakeAccount ==
  ASSUME ServerInv, OwnedInv, FreeInv, ~ crashed, NEW k \in Kinds, Making(k), accepted \in Sessions,
         TakeOverlapped(accepted, k), UNCHANGED <<work, teardowns>>
  PROVE  OwnedInv' /\ FreeInv'
<1> DEFINE q == IF pool[k] = << >> THEN Fresh(k, grown[k]) ELSE pool[k]
           g == IF pool[k] = << >> THEN grown[k] + PoolSize ELSE grown[k]
<1>1. /\ pool' = [pool EXCEPT ![k] = Tail(q)] /\ grown' = [grown EXCEPT ![k] = g]
      /\ overlapped' = [overlapped EXCEPT ![accepted][k] = Head(q)]
      /\ Client' = [Client EXCEPT ![Head(q)] = accepted]
  BY DEF TakeOverlapped
<1>2. q \in Seq(Structures(k)) /\ q # << >>
  BY FreshIs DEF ServerInv, PoolInv, TypeInv
<1>3. grown[k] \in Nat /\ PoolSize \in Nat /\ g \in Nat /\ grown[k] <= g
  BY BoundsAssumption DEF ServerInv, PoolInv, TypeInv
<1>4. /\ \A i, j \in 1 .. Len(q) : q[i] = q[j] => i = j
      /\ \A i \in 1 .. Len(q) : q[i][2] <= g /\ Client[q[i]] = NULL
      /\ \A i \in 1 .. Len(q) : pool[k] = << >> => q[i][2] > grown[k]
      /\ \A o \in Structures(k) : o[2] <= g /\ Client[o] = NULL =>
           \/ \E i \in 1 .. Len(q) : q[i] = o
           \/ \E w \in Workers : work[w].at = EnqueueAt[k] /\ overlapped[work[w].client][k] = o
  <2>1. CASE pool[k] # << >>
    BY <2>1 DEF FreeInv, FreeOf
  <2>2. CASE pool[k] = << >>
    <3>1. /\ q = [i \in 1 .. PoolSize |-> <<k, grown[k] + i>>] /\ g = grown[k] + PoolSize
          /\ \A i \in 1 .. PoolSize : q[i] = <<k, grown[k] + i>>
      BY <2>2 DEF Fresh
    <3>2. Len(q) = PoolSize
      BY <1>2, <1>3, <3>1
    <3> HIDE DEF q, g
    <3>3. \A i \in 1 .. Len(q) : q[i][2] = grown[k] + i /\ q[i] \in Structures(k)
      <4>1. ASSUME NEW i \in 1 .. Len(q) PROVE q[i][2] = grown[k] + i
        <5>1. q[i] = <<k, grown[k] + i>>
          BY <3>1, <3>2
        <5>. QED
          BY <5>1
      <4>. QED
        BY <1>2, <4>1
    <3>4. \A i, j \in 1 .. Len(q) : q[i] = q[j] => i = j
      BY <1>3, <3>2, <3>3
    <3>5. \A i \in 1 .. Len(q) : q[i][2] <= g /\ q[i][2] > grown[k]
      BY <1>3, <3>1, <3>2, <3>3
    <3>6. \A i \in 1 .. Len(q) : Client[q[i]] = NULL
      BY <3>3, <3>5 DEF FreeInv, FreeOf
    <3>7. ASSUME NEW o \in Structures(k), o[2] <= g, Client[o] = NULL
          PROVE  \/ \E i \in 1 .. Len(q) : q[i] = o
                 \/ \E w \in Workers : work[w].at = EnqueueAt[k] /\ overlapped[work[w].client][k] = o
      <4>1. o[2] \in Nat /\ o = <<k, o[2]>>
        BY StructureIs
      <4>2. CASE o[2] <= grown[k]
        <5>1. Len(pool[k]) = 0
          BY <2>2
        <5>2. \A i \in 1 .. Len(pool[k]) : FALSE
          BY <5>1
        <5>. QED
          BY <3>7, <4>2, <5>2 DEF FreeInv, FreeOf
      <4>3. CASE o[2] > grown[k]
        <5>1. o[2] - grown[k] \in 1 .. Len(q)
          BY <1>3, <3>1, <3>2, <3>7, <4>1, <4>3
        <5>2. q[o[2] - grown[k]] = <<k, grown[k] + (o[2] - grown[k])>>
          BY <3>1, <3>2, <5>1
        <5>3. grown[k] + (o[2] - grown[k]) = o[2]
          BY <1>3, <4>1
        <5>. QED
          BY <4>1, <5>1, <5>2, <5>3
      <4>. QED
        BY <1>3, <4>1, <4>2, <4>3
    <3>. QED
      BY <3>4, <3>5, <3>6, <3>7
  <2>. QED
    BY <2>1, <2>2
<1> HIDE DEF q, g
<1>5. /\ Head(q) = q[1] /\ 1 \in 1 .. Len(q) /\ Head(q) \in Structures(k)
      /\ Len(Tail(q)) = Len(q) - 1 /\ Len(q) \in Nat
      /\ \A i \in 1 .. Len(Tail(q)) : i + 1 \in 1 .. Len(q) /\ i \in Nat /\ Tail(q)[i] = q[i + 1]
  BY <1>2, HeadTailProperties
<1>6. PICK o \in Structures(k) : o = Head(q)
  BY <1>5
<1>7. o \in Overlapped /\ o[1] = k /\ o # <<k, NULL>> /\ Client[o] = NULL
  <2>1. o \in Overlapped /\ o[1] = k /\ o # <<k, NULL>>
    BY StructuresAre
  <2>2. Client[o] = NULL
    BY <1>4, <1>5, <1>6
  <2>. QED
    BY <2>1, <2>2
<1>8. /\ Client'[o] = accepted /\ \A x \in Overlapped : x # o => Client'[x] = Client[x]
      /\ accepted # NULL
  BY <1>1, <1>6, <1>7, BegunIs DEF ServerInv, PoolInv, TypeInv
<1>9. /\ overlapped'[accepted][k] = o
      /\ \A s \in Sessions, j \in Kinds : ~ (s = accepted /\ j = k) => overlapped'[s][j] = overlapped[s][j]
  BY <1>1, <1>6 DEF ServerInv, PoolInv, TypeInv
<1>10. overlapped[accepted][k] = <<k, NULL>>
  BY DEF ServerInv, PoolInv, TieInv
<1>11. \A s \in Sessions, j \in Kinds : overlapped[s][j] # <<j, NULL>> =>
         overlapped[s][j] \in Overlapped /\ overlapped[s][j] \in Structures(j)
  BY StructuresAre DEF ServerInv, PoolInv, TypeInv
<1>12. \A w \in Workers : work[w].at \in Tearing \cup TornDown => work[w].client \in Sessions
  BY BegunIs DEF ServerInv, WorkInv
<1>13. \A j \in Kinds : Before(j) \subseteq Tearing \cup TornDown /\ EnqueueAt[j] \in Tearing \cup TornDown
  BY TearSteps DEF Before, Tearing
<1>14. OwnedInv'
  <2>1. ASSUME NEW s \in Sessions, NEW j \in Kinds, overlapped'[s][j] # <<j, NULL>>,
               overlapped[s][j] # <<j, NULL>> => Client[overlapped[s][j]] = s
        PROVE  Client'[overlapped'[s][j]] = s
    <3>1. CASE s = accepted /\ j = k
      BY <1>8, <1>9, <3>1
    <3>2. CASE ~ (s = accepted /\ j = k)
      <4>1. overlapped'[s][j] = overlapped[s][j] /\ Client[overlapped[s][j]] = s
        BY <1>9, <2>1, <3>2
      <4>2. overlapped[s][j] # o /\ overlapped[s][j] \in Overlapped
        BY <1>7, <1>9, <1>11, <2>1, <4>1, BegunIs DEF ServerInv
      <4>. QED
        BY <1>8, <4>1, <4>2
    <3>. QED
      BY <3>1, <3>2
  <2>. QED
    BY <1>12, <1>13, <2>1 DEF OwnedInv
<1>15. ASSUME NEW j \in Kinds, j # k
       PROVE  /\ pool'[j] = pool[j] /\ grown'[j] = grown[j]
              /\ \A x \in Structures(j) : Client'[x] = Client[x]
              /\ \A s \in Sessions : overlapped'[s][j] = overlapped[s][j]
  <2>1. \A x \in Structures(j) : x \in Overlapped /\ x # o
    BY <1>7, <1>15, StructuresAre
  <2>. QED
    BY <1>1, <1>8, <1>9, <1>15, <2>1 DEF ServerInv, PoolInv, TypeInv
<1>16. ASSUME NEW w \in Workers, NEW j \in Kinds, work[w].at = EnqueueAt[j]
       PROVE  /\ work[w].client \in Sessions /\ overlapped[work[w].client][j] \in Structures(j)
              /\ overlapped'[work[w].client][j] = overlapped[work[w].client][j]
  <2>1. work[w].client \in Sessions /\ overlapped[work[w].client][j] # <<j, NULL>>
    BY <1>12, <1>13, <1>16 DEF ServerInv, WorkInv
  <2>2. ~ (work[w].client = accepted /\ j = k)
    BY <1>10, <2>1
  <2>. QED
    BY <1>9, <1>11, <2>1, <2>2
<1>17. ASSUME NEW j \in Kinds, j # k
       PROVE  /\ \A i \in 1 .. Len(pool[j]) : pool[j][i] \in Structures(j)
  BY DEF ServerInv, PoolInv, TypeInv
<1>18. ASSUME NEW j \in Kinds, j # k PROVE FreeOf(j)'
  <2>1. FreeOf(j)
    BY DEF FreeInv
  <2>2. /\ pool'[j] = pool[j] /\ grown'[j] = grown[j]
        /\ \A x \in Structures(j) : Client'[x] = Client[x]
    BY <1>15, <1>18
  <2>3. \A i \in 1 .. Len(pool[j]) : pool[j][i] \in Structures(j)
    BY <1>17, <1>18
  <2>. QED
    BY <1>16, <2>1, <2>2, <2>3 DEF FreeOf
<1>19. FreeOf(k)'
  <2>1. pool'[k] = Tail(q) /\ grown'[k] = g
    BY <1>1 DEF ServerInv, PoolInv, TypeInv
  <2>2. FreeOf(k)
    BY DEF FreeInv
  <2>3. \A i \in 1 .. Len(q) : q[i] \in Structures(k) /\ q[i] \in Overlapped
    <3>1. \A i \in 1 .. Len(q) : q[i] \in Structures(k)
      BY <1>2
    <3>. QED
      BY <3>1, StructureIs
  <2>4. \A i, j \in 1 .. Len(Tail(q)) : Tail(q)[i] = Tail(q)[j] => i = j
    <3>1. SUFFICES ASSUME NEW i \in 1 .. Len(Tail(q)), NEW j \in 1 .. Len(Tail(q)), Tail(q)[i] = Tail(q)[j]
                   PROVE  i = j
      OBVIOUS
    <3>2. q[i + 1] = q[j + 1] /\ i + 1 \in 1 .. Len(q) /\ j + 1 \in 1 .. Len(q) /\ i \in Nat /\ j \in Nat
      BY <1>5, <3>1
    <3>3. i + 1 = j + 1
      BY <1>4, <3>2
    <3>. QED
      BY <3>2, <3>3
  <2>5. ASSUME NEW i \in 1 .. Len(Tail(q))
        PROVE  Tail(q)[i] # o /\ Tail(q)[i][2] <= g /\ Client'[Tail(q)[i]] = NULL
    <3>1. Tail(q)[i] = q[i + 1] /\ i + 1 \in 1 .. Len(q) /\ i + 1 # 1 /\ o = q[1]
      BY <1>5, <1>6
    <3>2. q[i + 1] # q[1]
      BY <1>4, <1>5, <3>1
    <3>3. Client'[q[i + 1]] = Client[q[i + 1]]
      BY <1>8, <2>3, <3>1, <3>2
    <3>. QED
      BY <1>4, <3>1, <3>2, <3>3
  <2>6. ASSUME NEW w \in Workers, work[w].at = EnqueueAt[k]
        PROVE  /\ overlapped[work[w].client][k][2] <= g
               /\ overlapped[work[w].client][k] # o
               /\ Client'[overlapped[work[w].client][k]] = NULL
               /\ \A i \in 1 .. Len(Tail(q)) : Tail(q)[i] # overlapped[work[w].client][k]
    <3>1. PICK x \in Structures(k) : x = overlapped[work[w].client][k]
      BY <1>16, <2>6
    <3>2. /\ x[2] <= grown[k] /\ Client[x] = NULL /\ \A i \in 1 .. Len(pool[k]) : pool[k][i] # x
      BY <2>2, <2>6, <3>1 DEF FreeOf
    <3>3. x[2] \in Nat /\ x \in Overlapped
      BY StructureIs
    <3>4. \A i \in 1 .. Len(q) : q[i] # x
      <4>1. CASE pool[k] = << >>
        BY <1>3, <1>4, <3>2, <3>3, <4>1
      <4>2. CASE pool[k] # << >>
        BY <3>2, <4>2 DEF q
      <4>. QED
        BY <4>1, <4>2
    <3>5. x # o /\ \A i \in 1 .. Len(Tail(q)) : Tail(q)[i] # x
      BY <1>5, <1>6, <3>4
    <3>6. x[2] <= g
      BY <1>3, <3>2, <3>3
    <3>. QED
      BY <1>8, <3>1, <3>2, <3>3, <3>5, <3>6
  <2>7. ASSUME NEW x \in Structures(k), x[2] <= g, Client'[x] = NULL
        PROVE  \/ \E i \in 1 .. Len(Tail(q)) : Tail(q)[i] = x
               \/ \E w \in Workers : work[w].at = EnqueueAt[k] /\ overlapped[work[w].client][k] = x
    <3>1. x # o /\ x \in Overlapped
      BY <1>8, <2>7, StructuresAre
    <3>2. Client[x] = NULL
      BY <1>8, <2>7, <3>1
    <3>3. ASSUME NEW i \in 1 .. Len(q), q[i] = x PROVE \E j \in 1 .. Len(Tail(q)) : Tail(q)[j] = x
      <4>1. i # 1 /\ i \in Nat
        BY <1>5, <1>6, <3>1, <3>3
      <4>2. i - 1 \in 1 .. Len(Tail(q)) /\ (i - 1) + 1 = i
        BY <1>5, <4>1
      <4>. QED
        BY <1>5, <3>3, <4>2
    <3>. QED
      BY <1>4, <2>7, <3>2, <3>3
  <2>8. ASSUME NEW x \in Structures(k), x[2] > g PROVE Client'[x] = NULL
    <3>1. x[2] \in Nat /\ x \in Overlapped
      BY StructureIs
    <3>2. x[2] > grown[k] /\ x # o
      <4>1. o[2] <= g
        BY <1>4, <1>5, <1>6
      <4>. QED
        BY <1>3, <2>8, <3>1, <4>1
    <3>. QED
      BY <1>8, <2>2, <3>1, <3>2 DEF FreeOf
  <2>9. \A v, w \in Workers :
           work[v].at = EnqueueAt[k] /\ work[w].at = EnqueueAt[k]
             /\ overlapped[work[v].client][k] = overlapped[work[w].client][k] => v = w
    BY <2>2 DEF FreeOf
  <2>10. \A w \in Workers : work[w].at = EnqueueAt[k] =>
           overlapped'[work[w].client][k] = overlapped[work[w].client][k]
    BY <1>16
  <2>. QED
    BY <2>1, <2>4, <2>5, <2>6, <2>7, <2>8, <2>9, <2>10 DEF FreeOf
<1>20. FreeInv'
  BY <1>18, <1>19 DEF FreeInv
<1>. QED
  BY <1>14, <1>20

\* CloseSession gets hold of a session for the first time.
LEMMA CloseAccount ==
  ASSUME ServerInv, OwnedInv, FreeInv, NEW w \in Workers, CloseSession(w), ~ TornDownTwice'
  PROVE  OwnedInv' /\ FreeInv'
<1>1. /\ work[w].at = "close" /\ UNCHANGED <<pool, grown, Client, overlapped>>
  BY DEF CloseSession, poolVars
<1>2. /\ work \in [Workers -> WorkRecords] /\ work[w] \in WorkRecords
      /\ "close" \notin Tearing \cup TornDown /\ "idle" \notin Tearing \cup TornDown
  BY DEF ServerInv, WorkInv, Tearing, TornDown
<1>3. \A k \in Kinds : /\ Before(k) \subseteq Tearing /\ "remove" \in Before(k)
                       /\ EnqueueAt[k] \in Tearing \cup TornDown /\ EnqueueAt[k] # "remove"
  BY TearSteps DEF Before, Tearing
<1>4. CASE Done(w) /\ UNCHANGED <<teardowns, stale>>
  <2>1. work'[w] = Idle /\ \A v \in Workers : v # w => work'[v] = work[v]
    BY <1>2, <1>4 DEF Done
  <2>2. \A v \in Workers :
           /\ work'[v].at \in Tearing \cup TornDown =>
                work[v].at \in Tearing \cup TornDown /\ work'[v].client = work[v].client
           /\ \A k \in Kinds : work'[v].at \in Before(k) => work[v].at \in Before(k)
           /\ \A k \in Kinds : work'[v].at = EnqueueAt[k] <=> work[v].at = EnqueueAt[k]
           /\ \A k \in Kinds : work[v].at = EnqueueAt[k] => work'[v].client = work[v].client
    BY <1>1, <1>2, <1>3, <2>1, IdleIs
  <2>. QED
    BY <1>1, <1>4, <2>2, AccountStays
<1>5. CASE Client[work[w].data] # NULL /\ ~ (Done(w) /\ UNCHANGED <<teardowns, stale>>)
  <2>1. PICK c : c = Client[work[w].data]
    OBVIOUS
  <2>2. /\ work' = [work EXCEPT ![w].at = "remove", ![w].client = c]
        /\ teardowns' = [teardowns EXCEPT ![c] = @ + 1]
    BY <1>5, <2>1 DEF CloseSession
  <2>3. c \in Sessions
    BY <1>2, <1>5, <2>1, BoundsAssumption
    DEF WorkRecords, ServerInv, PoolInv, TypeInv, Numbers, Sessions, NULL
  <2>4. /\ work'[w].at = "remove" /\ work'[w].client = c
        /\ \A v \in Workers : v # w => work'[v] = work[v]
    BY <1>2, <2>2 DEF WorkRecords
  <2>5. /\ teardowns \in [Sessions -> Nat] /\ teardowns'[c] = teardowns[c] + 1
        /\ \A s \in Sessions : s # c => teardowns'[s] = teardowns[s]
    BY <2>2, <2>3 DEF ServerInv, TearInv
  <2>6. teardowns[c] = 0 /\ teardowns'[c] = 1
    BY <2>3, <2>5 DEF TornDownTwice
  <2>7. ASSUME NEW v \in Workers, work[v].at \in Tearing \cup TornDown
        PROVE  work[v].client # c /\ work[v].client \in Sessions /\ v # w /\ work'[v] = work[v]
    BY <1>1, <1>2, <2>4, <2>6, <2>7, BegunIs DEF OwnedInv, ServerInv, WorkInv
  <2>8. OwnedInv'
    <3>1. \A v \in Workers : work'[v].at \in Tearing \cup TornDown => teardowns'[work'[v].client] = 1
      BY <2>4, <2>5, <2>6, <2>7 DEF OwnedInv
    <3>2. \A u, v \in Workers :
            work'[u].at \in Tearing \cup TornDown /\ work'[v].at \in Tearing \cup TornDown
              /\ work'[u].client = work'[v].client => u = v
      BY <2>4, <2>7 DEF OwnedInv
    <3>3. \A s \in Sessions, k \in Kinds :
            teardowns'[s] = 0 /\ overlapped[s][k] # <<k, NULL>> => Client[overlapped[s][k]] = s
      BY <2>5, <2>6 DEF OwnedInv
    <3>4. \A v \in Workers, k \in Kinds :
            work'[v].at \in Before(k) /\ overlapped[work'[v].client][k] # <<k, NULL>> =>
              Client[overlapped[work'[v].client][k]] = work'[v].client
      <4>1. SUFFICES ASSUME NEW v \in Workers, NEW k \in Kinds, work'[v].at \in Before(k),
                            overlapped[work'[v].client][k] # <<k, NULL>>
                     PROVE  Client[overlapped[work'[v].client][k]] = work'[v].client
        OBVIOUS
      <4>2. CASE v = w
        BY <2>3, <2>4, <2>6, <4>1, <4>2 DEF OwnedInv
      <4>3. CASE v # w
        BY <2>4, <4>1, <4>3 DEF OwnedInv
      <4>. QED
        BY <4>2, <4>3
    <3>. QED
      BY <1>1, <3>1, <3>2, <3>3, <3>4 DEF OwnedInv
  <2>9. FreeInv'
    <3>1. \A v \in Workers, k \in Kinds :
            /\ work'[v].at = EnqueueAt[k] <=> work[v].at = EnqueueAt[k]
            /\ work[v].at = EnqueueAt[k] => work'[v].client = work[v].client
      BY <1>1, <1>2, <1>3, <2>4, <2>7
    <3>2. ASSUME NEW k \in Kinds PROVE FreeOf(k)'
      <4>1. FreeOf(k)
        BY DEF FreeInv
      <4>. QED
        BY <1>1, <3>1, <4>1 DEF FreeOf
    <3>. QED
      BY <3>2 DEF FreeInv
  <2>. QED
    BY <2>8, <2>9
<1>. QED
  BY <1>4, <1>5 DEF CloseSession

\* A worker takes a structure off its session, and puts it back.
LEMMA DisownAccount ==
  ASSUME ServerInv, OwnedInv, FreeInv, NEW w \in Workers, NEW k \in Kinds, Disown(w, k)
  PROVE  OwnedInv' /\ FreeInv'
<1>1. PICK c : c = work[w].client
  OBVIOUS
<1>2. PICK o : o = overlapped[c][k]
  OBVIOUS
<1>3. work[w].at = DisownAt[k] /\ UNCHANGED <<pool, grown, overlapped, teardowns>>
  BY DEF Disown, historyVars
<1>4. /\ DisownAt[k] \in Tearing /\ DisownAt[k] \in Before(k)
      /\ \A j \in Kinds : DisownAt[k] # EnqueueAt[j] /\ Before(j) \subseteq Tearing
      /\ \A j \in Kinds : DisownAt[j] \notin Before(k) \/ j = k \/ k = "send"
  BY DEF Before, Tearing, DisownAt, EnqueueAt, Kinds
<1>5. \A j \in Kinds : EnqueueAt[k] \in Before(j) \/ After[k] \in Before(j) => DisownAt[k] \in Before(j)
  BY DEF Before, Tearing, DisownAt, EnqueueAt, After, Kinds
<1>6. EnqueueAt[k] \notin Before(k) /\ EnqueueAt[k] \in Tearing \cup TornDown
      /\ After[k] \in Tearing \cup TornDown /\ EnqueueAt[k] # "idle" /\ After[k] # "idle"
      /\ \A j \in Kinds : After[k] # EnqueueAt[j] /\ (EnqueueAt[j] = EnqueueAt[k] => j = k)
  BY DEF Before, Tearing, TornDown, EnqueueAt, After, Kinds
<1>7. c \in Sessions /\ teardowns[c] = 1 /\ work \in [Workers -> WorkRecords] /\ work[w] \in WorkRecords
  BY <1>1, <1>3, <1>4, BegunIs DEF ServerInv, WorkInv, OwnedInv
<1>8. CASE o = <<k, NULL>>
  <2>1. Goto(w, After[k]) /\ UNCHANGED Client
    BY <1>1, <1>2, <1>8 DEF Disown
  <2>2. work'[w].at = After[k] /\ work'[w].client = c /\ \A v \in Workers : v # w => work'[v] = work[v]
    BY <1>1, <1>6, <1>7, <2>1 DEF Goto, WorkRecords
  <2>3. \A v \in Workers :
           /\ work'[v].at \in Tearing \cup TornDown =>
                work[v].at \in Tearing \cup TornDown /\ work'[v].client = work[v].client
           /\ \A j \in Kinds : work'[v].at \in Before(j) => work[v].at \in Before(j)
           /\ \A j \in Kinds : work'[v].at = EnqueueAt[j] <=> work[v].at = EnqueueAt[j]
           /\ \A j \in Kinds : work[v].at = EnqueueAt[j] => work'[v].client = work[v].client
    BY <1>1, <1>3, <1>4, <1>5, <1>6, <2>2
  <2>. QED
    BY <1>3, <2>1, <2>3, AccountStays
<1>9. CASE o # <<k, NULL>>
  <2>1. Goto(w, EnqueueAt[k]) /\ Client' = [Client EXCEPT ![o] = NULL]
    BY <1>1, <1>2, <1>9 DEF Disown
  <2>2. work'[w].at = EnqueueAt[k] /\ work'[w].client = c /\ \A v \in Workers : v # w => work'[v] = work[v]
    BY <1>1, <1>6, <1>7, <2>1 DEF Goto, WorkRecords
  <2>3. o \in Structures(k) /\ c # NULL
    BY <1>2, <1>7, <1>9 DEF ServerInv, PoolInv, TypeInv, Sessions, NULL
  <2>4. o \in Overlapped /\ o[1] = k /\ o[2] \in Nat
    BY <2>3, StructureIs
  <2>5. Client[o] = c
    BY <1>1, <1>2, <1>3, <1>4, <1>9 DEF OwnedInv
  <2>6. Client'[o] = NULL /\ \A x \in Overlapped : x # o => Client'[x] = Client[x]
    BY <2>1, <2>4 DEF ServerInv, PoolInv, TypeInv
  <2>7. ASSUME NEW s \in Sessions, NEW j \in Kinds, overlapped[s][j] # <<j, NULL>>,
               Client[overlapped[s][j]] = s, s # c \/ j # k
        PROVE  Client'[overlapped[s][j]] = s
    <3>1. overlapped[s][j] \in Structures(j)
      BY <2>7 DEF ServerInv, PoolInv, TypeInv
    <3>2. overlapped[s][j] \in Overlapped /\ overlapped[s][j][1] = j
      BY <3>1, StructureIs
    <3>3. overlapped[s][j] # o
      BY <2>4, <2>5, <2>7, <3>2
    <3>. QED
      BY <2>6, <2>7, <3>2, <3>3
  <2>8. OwnedInv'
    <3>1. \A v \in Workers : work'[v].at \in Tearing \cup TornDown =>
            work[v].at \in Tearing \cup TornDown /\ work'[v].client = work[v].client
      BY <1>1, <1>3, <1>4, <2>2
    <3>2. ASSUME NEW s \in Sessions, NEW j \in Kinds, teardowns[s] = 0, overlapped[s][j] # <<j, NULL>>
          PROVE  Client'[overlapped[s][j]] = s
      <4>1. Client[overlapped[s][j]] = s /\ s # c
        BY <1>7, <3>2 DEF OwnedInv
      <4>. QED
        BY <2>7, <3>2, <4>1
    <3>3. ASSUME NEW v \in Workers, NEW j \in Kinds, work'[v].at \in Before(j),
                 overlapped[work'[v].client][j] # <<j, NULL>>
          PROVE  Client'[overlapped[work'[v].client][j]] = work'[v].client
      <4>1. work[v].at \in Before(j) /\ work'[v].client = work[v].client /\ (v = w => j # k)
        BY <1>1, <1>3, <1>5, <1>6, <2>2, <3>3
      <4>2. work[v].at \in Tearing /\ work[v].client \in Sessions
        BY <1>4, <4>1, BegunIs DEF ServerInv, WorkInv
      <4>3. v # w => work[v].client # c
        BY <1>1, <1>3, <1>4, <4>2 DEF OwnedInv
      <4>4. Client[overlapped[work[v].client][j]] = work[v].client
        BY <3>3, <4>1 DEF OwnedInv
      <4>5. PICK s \in Sessions : s = work[v].client
        BY <4>2
      <4>. QED
        BY <1>1, <2>7, <3>3, <4>1, <4>3, <4>4, <4>5
    <3>. QED
      BY <1>3, <3>1, <3>2, <3>3 DEF OwnedInv
  <2>9. ASSUME NEW j \in Kinds
        PROVE  /\ FreeOf(j)
               /\ \A v \in Workers : v # w =>
                    (work'[v].at = EnqueueAt[j] <=> work[v].at = EnqueueAt[j]) /\ work'[v].client = work[v].client
               /\ work[w].at # EnqueueAt[j] /\ (work'[w].at = EnqueueAt[j] <=> j = k)
               /\ \A x \in Structures(j) : x \in Overlapped /\ (x = o => j = k)
               /\ \A i \in 1 .. Len(pool[j]) : pool[j][i] \in Structures(j)
               /\ \A v \in Workers : work[v].at = EnqueueAt[j] => overlapped[work[v].client][j] \in Structures(j)
    <3>1. /\ FreeOf(j) /\ work[w].at # EnqueueAt[j] /\ (work'[w].at = EnqueueAt[j] <=> j = k)
          /\ \A v \in Workers : v # w =>
               (work'[v].at = EnqueueAt[j] <=> work[v].at = EnqueueAt[j]) /\ work'[v].client = work[v].client
      BY <1>3, <1>4, <1>6, <2>2 DEF FreeInv
    <3>2. \A x \in Structures(j) : x \in Overlapped /\ (x = o => j = k)
      BY <2>4, StructureIs
    <3>3. \A i \in 1 .. Len(pool[j]) : pool[j][i] \in Structures(j)
      BY DEF ServerInv, PoolInv, TypeInv
    <3>4. \A v \in Workers : work[v].at = EnqueueAt[j] => overlapped[work[v].client][j] \in Structures(j)
      <4>1. SUFFICES ASSUME NEW v \in Workers, work[v].at = EnqueueAt[j]
                     PROVE  overlapped[work[v].client][j] \in Structures(j)
        OBVIOUS
      <4>2. work[v].client \in Sessions /\ overlapped[work[v].client][j] # <<j, NULL>>
        BY <4>1, TearSteps, BegunIs DEF ServerInv, WorkInv
      <4>. QED
        BY <4>2 DEF ServerInv, PoolInv, TypeInv
    <3>. QED
      BY <3>1, <3>2, <3>3, <3>4
  <2>10. o[2] <= grown[k]
    <3>1. grown[k] \in Nat
      BY DEF ServerInv, PoolInv, TypeInv
    <3>. QED
      BY <2>3, <2>4, <2>5, <2>9, <3>1 DEF FreeOf
  <2>11. ASSUME NEW j \in Kinds, j # k PROVE FreeOf(j)'
    <3>1. /\ FreeOf(j)
          /\ \A v \in Workers : /\ work'[v].at = EnqueueAt[j] <=> work[v].at = EnqueueAt[j]
                                /\ work[v].at = EnqueueAt[j] => work'[v].client = work[v].client
      BY <2>9, <2>11
    <3>2. \A x \in Structures(j) : Client'[x] = Client[x]
      BY <2>6, <2>9, <2>11
    <3>3. /\ \A i \in 1 .. Len(pool[j]) : pool[j][i] \in Structures(j)
          /\ \A v \in Workers : work[v].at = EnqueueAt[j] => overlapped[work[v].client][j] \in Structures(j)
      BY <2>9
    <3>. QED
      BY <1>3, <3>1, <3>2, <3>3 DEF FreeOf
  <2>12. FreeOf(k)'
    <3>1. \A x \in Structures(k) : Client'[x] = IF x = o THEN NULL ELSE Client[x]
      BY <2>6, <2>9
    <3>2. \A i \in 1 .. Len(pool[k]) : pool[k][i] # o
      BY <2>3, <2>5, <2>9 DEF FreeOf
    <3>3. \A v \in Workers : work[v].at = EnqueueAt[k] => overlapped[work[v].client][k] # o
      BY <2>3, <2>5, <2>9 DEF FreeOf
    <3>4. ASSUME NEW v \in Workers, work'[v].at = EnqueueAt[k]
          PROVE  /\ overlapped[work'[v].client][k][2] <= grown[k]
                 /\ Client'[overlapped[work'[v].client][k]] = NULL
                 /\ \A i \in 1 .. Len(pool[k]) : pool[k][i] # overlapped[work'[v].client][k]
      <4>1. CASE v = w
        BY <1>2, <2>2, <2>6, <2>10, <3>2, <4>1
      <4>2. CASE v # w
        BY <2>9, <3>1, <3>4, <4>2 DEF FreeOf
      <4>. QED
        BY <4>1, <4>2
    <3>5. ASSUME NEW u \in Workers, NEW v \in Workers, work'[u].at = EnqueueAt[k], work'[v].at = EnqueueAt[k],
                 overlapped[work'[u].client][k] = overlapped[work'[v].client][k]
          PROVE  u = v
      <4>1. CASE u # w /\ v # w
        BY <2>9, <3>5, <4>1 DEF FreeOf
      <4>2. CASE u = w /\ v # w
        BY <1>2, <2>2, <2>9, <3>3, <3>5, <4>2
      <4>3. CASE u # w /\ v = w
        BY <1>2, <2>2, <2>9, <3>3, <3>5, <4>3
      <4>. QED
        BY <4>1, <4>2, <4>3
    <3>6. ASSUME NEW x \in Structures(k), x[2] <= grown[k], Client'[x] = NULL
          PROVE  \/ \E i \in 1 .. Len(pool[k]) : pool[k][i] = x
                 \/ \E v \in Workers : work'[v].at = EnqueueAt[k] /\ overlapped[work'[v].client][k] = x
      <4>1. CASE x = o
        BY <1>2, <2>2, <4>1
      <4>2. CASE x # o
        <5>1. \/ \E i \in 1 .. Len(pool[k]) : pool[k][i] = x
              \/ \E v \in Workers : work[v].at = EnqueueAt[k] /\ overlapped[work[v].client][k] = x
          BY <2>9, <3>1, <3>6, <4>2 DEF FreeOf
        <5>. QED
          BY <2>9, <5>1
      <4>. QED
        BY <4>1, <4>2
    <3>7. \A x \in Structures(k) : x[2] > grown[k] => Client'[x] = NULL
      BY <2>9, <3>1 DEF FreeOf
    <3>8. /\ \A i, j \in 1 .. Len(pool[k]) : pool[k][i] = pool[k][j] => i = j
          /\ \A i \in 1 .. Len(pool[k]) : pool[k][i][2] <= grown[k] /\ Client'[pool[k][i]] = NULL
      BY <2>9, <3>1, <3>2 DEF FreeOf
    <3>. QED
      BY <1>3, <3>4, <3>5, <3>6, <3>7, <3>8 DEF FreeOf
  <2>. QED
    BY <2>8, <2>11, <2>12 DEF FreeInv
<1>. QED
  BY <1>8, <1>9

\* Enqueue moves a structure from the worker to its pool.
LEMMA EnqueueAccount ==
  ASSUME ServerInv, OwnedInv, FreeInv, NEW w \in Workers, NEW k \in Kinds, Enqueue(w, k)
  PROVE  OwnedInv' /\ FreeInv'
<1>1. PICK o : o = overlapped[work[w].client][k]
  OBVIOUS
<1>2. /\ work[w].at = EnqueueAt[k] /\ pool' = [pool EXCEPT ![k] = Append(pool[k], o)] /\ Goto(w, After[k])
      /\ UNCHANGED <<grown, Client, overlapped, teardowns>>
  BY <1>1 DEF Enqueue, historyVars
<1>3. /\ EnqueueAt[k] \in Tearing \cup TornDown /\ After[k] \in Tearing \cup TornDown /\ After[k] # "idle"
      /\ \A j \in Kinds : /\ After[k] # EnqueueAt[j] /\ (EnqueueAt[j] = EnqueueAt[k] => j = k)
                          /\ After[k] \in Before(j) => EnqueueAt[k] \in Before(j)
                          /\ Before(j) \subseteq Tearing
  BY DEF Before, Tearing, TornDown, EnqueueAt, After, Kinds
<1>4. work \in [Workers -> WorkRecords] /\ work[w] \in WorkRecords
  BY DEF ServerInv, WorkInv
<1>5. /\ work'[w].at = After[k] /\ work'[w].client = work[w].client
      /\ \A v \in Workers : v # w => work'[v] = work[v]
  BY <1>2, <1>3, <1>4 DEF Goto, WorkRecords
<1>6. OwnedInv'
  <2>1. \A v \in Workers :
           /\ work'[v].at \in Tearing \cup TornDown =>
                work[v].at \in Tearing \cup TornDown /\ work'[v].client = work[v].client
           /\ \A j \in Kinds : work'[v].at \in Before(j) => work[v].at \in Before(j)
    BY <1>2, <1>3, <1>5
  <2>. QED
    BY <1>2, <2>1, OwnedStays
<1>7. /\ pool'[k] = Append(pool[k], o) /\ \A j \in Kinds : j # k => pool'[j] = pool[j]
      /\ pool[k] \in Seq(Structures(k))
  BY <1>2 DEF ServerInv, PoolInv, TypeInv
<1>8. o \in Structures(k)
  <2>1. work[w].client \in Sessions /\ o # <<k, NULL>>
    BY <1>1, <1>2, <1>3, BegunIs DEF ServerInv, WorkInv
  <2>. QED
    BY <1>1, <2>1 DEF ServerInv, PoolInv, TypeInv
<1>9. ASSUME NEW j \in Kinds, j # k PROVE FreeOf(j)'
  <2>1. FreeOf(j)
    BY DEF FreeInv
  <2>2. \A v \in Workers : /\ work'[v].at = EnqueueAt[j] <=> work[v].at = EnqueueAt[j]
                           /\ work[v].at = EnqueueAt[j] => work'[v].client = work[v].client
    BY <1>2, <1>3, <1>5, <1>9
  <2>3. pool'[j] = pool[j] /\ grown'[j] = grown[j]
    BY <1>2, <1>7, <1>9
  <2>. QED
    BY <1>2, <2>1, <2>2, <2>3, FreeStays
<1>10. FreeOf(k)'
  <2>1. FreeOf(k)
    BY DEF FreeInv
  <2>2. \A v \in Workers : /\ work'[v].at = EnqueueAt[k] <=> work[v].at = EnqueueAt[k] /\ v # w
                           /\ work'[v].client = work[v].client
    BY <1>2, <1>3, <1>5
  <2>3. PICK p : p = Append(pool[k], o)
    OBVIOUS
  <2>4. /\ Len(p) = Len(pool[k]) + 1 /\ Len(pool[k]) \in Nat /\ p[Len(pool[k]) + 1] = o
        /\ \A i \in 1 .. Len(pool[k]) : p[i] = pool[k][i]
    BY <1>7, <1>8, <2>3
  <2>5. \A i \in 1 .. Len(p) : i \in 1 .. Len(pool[k]) \/ i = Len(pool[k]) + 1
    BY <2>4
  <2>6. /\ o[2] <= grown[k] /\ Client[o] = NULL /\ \A i \in 1 .. Len(pool[k]) : pool[k][i] # o
    BY <1>1, <1>2, <2>1 DEF FreeOf
  <2>7. \A i, j \in 1 .. Len(p) : p[i] = p[j] => i = j
    BY <2>1, <2>4, <2>5, <2>6 DEF FreeOf
  <2>8. \A i \in 1 .. Len(p) : p[i][2] <= grown[k] /\ Client[p[i]] = NULL
    BY <2>1, <2>4, <2>5, <2>6 DEF FreeOf
  <2>9. ASSUME NEW v \in Workers, v # w, work[v].at = EnqueueAt[k]
        PROVE  /\ overlapped[work[v].client][k][2] <= grown[k]
               /\ Client[overlapped[work[v].client][k]] = NULL
               /\ \A i \in 1 .. Len(p) : p[i] # overlapped[work[v].client][k]
    <3>1. overlapped[work[v].client][k] # o
      BY <1>1, <1>2, <2>1, <2>9 DEF FreeOf
    <3>. QED
      BY <2>1, <2>4, <2>5, <2>9, <3>1 DEF FreeOf
  <2>10. ASSUME NEW x \in Structures(k), x[2] <= grown[k], Client[x] = NULL
         PROVE  \/ \E i \in 1 .. Len(p) : p[i] = x
                \/ \E v \in Workers : work'[v].at = EnqueueAt[k] /\ overlapped[work'[v].client][k] = x
    <3>1. \/ \E i \in 1 .. Len(pool[k]) : pool[k][i] = x
          \/ \E v \in Workers : work[v].at = EnqueueAt[k] /\ overlapped[work[v].client][k] = x
      BY <2>1, <2>10 DEF FreeOf
    <3>2. Len(pool[k]) + 1 \in 1 .. Len(p) /\ \A i \in 1 .. Len(pool[k]) : i \in 1 .. Len(p)
      BY <2>4
    <3>3. CASE \E i \in 1 .. Len(pool[k]) : pool[k][i] = x
      BY <2>4, <3>2, <3>3
    <3>4. CASE \E v \in Workers : work[v].at = EnqueueAt[k] /\ overlapped[work[v].client][k] = x
      <4>1. PICK v \in Workers : work[v].at = EnqueueAt[k] /\ overlapped[work[v].client][k] = x
        BY <3>4
      <4>2. CASE v = w
        BY <1>1, <2>4, <3>2, <4>1, <4>2
      <4>3. CASE v # w
        BY <2>2, <4>1, <4>3
      <4>. QED
        BY <4>2, <4>3
    <3>. QED
      BY <3>1, <3>3, <3>4
  <2>11. \A x \in Structures(k) : x[2] > grown[k] => Client[x] = NULL
    BY <2>1 DEF FreeOf
  <2>12. \A u, v \in Workers :
           work'[u].at = EnqueueAt[k] /\ work'[v].at = EnqueueAt[k]
             /\ overlapped[work'[u].client][k] = overlapped[work'[v].client][k] => u = v
    BY <2>1, <2>2 DEF FreeOf
  <2>13. pool'[k] = p
    BY <1>7, <2>3
  <2>. QED
    <3>1. \A v \in Workers : work'[v].at = EnqueueAt[k] =>
             /\ overlapped[work'[v].client][k][2] <= grown[k]
             /\ Client[overlapped[work'[v].client][k]] = NULL
             /\ \A i \in 1 .. Len(p) : p[i] # overlapped[work'[v].client][k]
      BY <2>2, <2>9
    <3>2. pool'[k] = p /\ grown'[k] = grown[k] /\ Client' = Client /\ overlapped' = overlapped
      BY <1>2, <2>13
    <3>3. \A x \in Structures(k) : x[2] <= grown[k] /\ Client[x] = NULL =>
             \/ \E i \in 1 .. Len(p) : p[i] = x
             \/ \E v \in Workers : work'[v].at = EnqueueAt[k] /\ overlapped[work'[v].client][k] = x
      BY <2>10
    <3>. QED
      BY <2>7, <2>8, <2>11, <2>12, <3>1, <3>2, <3>3 DEF FreeOf
<1>. QED
  BY <1>6, <1>9, <1>10 DEF FreeInv

\* The other steps of a worker.
LEMMA WorkerAccount ==
  ASSUME ServerInv, OwnedInv, FreeInv, NEW w \in Workers, WorkerThread(w), ~ crashed',
         ~ CloseSession(w), \A k \in Kinds : ~ Disown(w, k) /\ ~ Enqueue(w, k)
  PROVE  OwnedInv' /\ FreeInv'
<1>0. ~ Crash
  BY DEF Crash, crashed
<1>1. /\ work \in [Workers -> WorkRecords] /\ work[w] \in WorkRecords
      /\ work[w].next \in {"idle", "packets", "isvalid"} /\ Idle.at = "idle"
  BY IdleIs DEF ServerInv, WorkInv, WorkRecords
<1>2. UNCHANGED <<pool, grown, Client, overlapped, teardowns>>
  BY DEF WorkerThread, GetCompletion, FailedCompletion, ExpiredTest, ClientTest, Dispatch, Broadcast,
         Relay, Flush, CloseSelf, EndOfPackets, IsValid, NextReceive, RemoveTcpClient, Close, SetClosing,
         poolVars, historyVars
<1> DEFINE Calm == /\ \A v \in Workers : v # w => work'[v] = work[v]
                   /\ \/ /\ work'[w].at \notin Tearing \cup TornDown
                         /\ work[w].at \notin {"enqueueRecv", "enqueueSend"}
                      \/ /\ work[w].at = "remove" /\ work'[w].at = "disownRecv"
                         /\ work'[w].client = work[w].client
                      \/ /\ work[w].at = "closesocket" /\ work'[w].at = "closing"
                         /\ work'[w].client = work[w].client
<1>3. Calm
  <2>1. CASE GetCompletion(w)
    BY <1>1, <2>1 DEF GetCompletion, WorkRecords, Idle, Tearing, TornDown
  <2>2. CASE FailedCompletion(w)
    BY <1>0, <1>1, <2>2 DEF FailedCompletion, Goto, WorkRecords, Tearing, TornDown
  <2>3. CASE ExpiredTest(w) \/ ClientTest(w)
    BY <1>1, <2>3 DEF ExpiredTest, ClientTest, Goto, Done, WorkRecords, Tearing, TornDown
  <2>4. CASE Dispatch(w)
    BY <1>0, <1>1, <2>4 DEF Dispatch, Done, WorkRecords, Tearing, TornDown
  <2>5. CASE Broadcast(w)
    BY <1>1, <2>5 DEF Broadcast, WorkRecords, Tearing, TornDown
  <2>6. CASE Relay(w)
    BY <1>1, <2>6 DEF Relay, WorkRecords, Tearing, TornDown
  <2>7. CASE Flush(w)
    BY <1>1, <2>7 DEF Flush, Goto, Done, WorkRecords, Tearing, TornDown
  <2>8. CASE CloseSelf(w)
    BY <1>1, <2>8 DEF CloseSelf, WorkRecords, Tearing, TornDown
  <2>9. CASE EndOfPackets(w)
    BY <1>1, <2>9 DEF EndOfPackets, WorkRecords, Tearing, TornDown
  <2>10. CASE IsValid(w)
    BY <1>1, <2>10 DEF IsValid, Goto, Done, WorkRecords, Tearing, TornDown
  <2>11. CASE NextReceive(w)
    BY <1>1, <2>11 DEF NextReceive, Done, WorkRecords, Tearing, TornDown
  <2>12. CASE RemoveTcpClient(w)
    BY <1>1, <2>12 DEF RemoveTcpClient, Goto, WorkRecords
  <2>13. CASE Close(w)
    BY <1>1, <2>13 DEF Close, Goto, WorkRecords
  <2>14. CASE SetClosing(w)
    BY <1>1, <2>14 DEF SetClosing, Goto, Done, WorkRecords, Tearing, TornDown
  <2>. QED
    BY <2>1, <2>2, <2>3, <2>4, <2>5, <2>6, <2>7, <2>8, <2>9, <2>10, <2>11, <2>12, <2>13, <2>14 DEF WorkerThread
<1>4. /\ \A k \in Kinds : EnqueueAt[k] \in {"enqueueRecv", "enqueueSend"} /\ EnqueueAt[k] \in Tearing \cup TornDown
      /\ \A k \in Kinds : Before(k) \subseteq Tearing \cup TornDown /\ "remove" \in Before(k)
      /\ \A k \in Kinds : "closing" \notin Before(k)
      /\ {"remove", "disownRecv", "closesocket", "closing"} \subseteq Tearing \cup TornDown
      /\ \A k \in Kinds : EnqueueAt[k] \notin {"remove", "disownRecv", "closesocket", "closing"}
  BY DEF Kinds, EnqueueAt, Before, Tearing, TornDown
<1>5. \A v \in Workers :
         /\ work'[v].at \in Tearing \cup TornDown =>
              work[v].at \in Tearing \cup TornDown /\ work'[v].client = work[v].client
         /\ \A k \in Kinds : work'[v].at \in Before(k) => work[v].at \in Before(k)
         /\ \A k \in Kinds : work'[v].at = EnqueueAt[k] <=> work[v].at = EnqueueAt[k]
         /\ \A k \in Kinds : work[v].at = EnqueueAt[k] => work'[v].client = work[v].client
  <2>1. SUFFICES ASSUME NEW v \in Workers, v = w
                 PROVE  /\ work'[v].at \in Tearing \cup TornDown =>
                             work[v].at \in Tearing \cup TornDown /\ work'[v].client = work[v].client
                        /\ \A k \in Kinds : work'[v].at \in Before(k) => work[v].at \in Before(k)
                        /\ \A k \in Kinds : work'[v].at = EnqueueAt[k] <=> work[v].at = EnqueueAt[k]
                        /\ \A k \in Kinds : work[v].at = EnqueueAt[k] => work'[v].client = work[v].client
    BY <1>3
  <2>2. CASE /\ work'[w].at \notin Tearing \cup TornDown
             /\ work[w].at \notin {"enqueueRecv", "enqueueSend"}
    BY <1>4, <2>1, <2>2
  <2>3. CASE /\ work[w].at = "remove" /\ work'[w].at = "disownRecv" /\ work'[w].client = work[w].client
    <3>1. \A k \in Kinds : work[w].at # EnqueueAt[k] /\ work'[w].at # EnqueueAt[k]
      BY <1>4, <2>3
    <3>2. \A k \in Kinds : work'[w].at \in Before(k) => work[w].at \in Before(k)
      BY <1>4, <2>3
    <3>3. work[w].at \in Tearing \cup TornDown
      BY <2>3 DEF Tearing, TornDown
    <3>. QED
      BY <2>1, <2>3, <3>1, <3>2, <3>3
  <2>4. CASE /\ work[w].at = "closesocket" /\ work'[w].at = "closing" /\ work'[w].client = work[w].client
    <3>1. \A k \in Kinds : work[w].at # EnqueueAt[k] /\ work'[w].at # EnqueueAt[k]
      BY <1>4, <2>4
    <3>2. \A k \in Kinds : work'[w].at \in Before(k) => work[w].at \in Before(k)
      BY <1>4, <2>4
    <3>3. work[w].at \in Tearing \cup TornDown
      BY <2>4 DEF Tearing, TornDown
    <3>. QED
      BY <2>1, <2>4, <3>1, <3>2, <3>3
  <2>. QED
    BY <1>3, <2>2, <2>3, <2>4
<1>. QED
  BY <1>2, <1>5, AccountStays

\* At first every structure is in its pool.
LEMMA InitAccount == Init => AccountInv
<1> SUFFICES ASSUME Init PROVE OwnedInv /\ FreeInv
  BY DEF AccountInv
<1>1. \A w \in Workers : work[w].at = "idle"
  BY IdleIs DEF Init
<1>2. \A k \in Kinds : "idle" \notin Before(k) /\ "idle" # EnqueueAt[k] /\ "idle" \notin Tearing \cup TornDown
  BY DEF Kinds, Before, EnqueueAt, Tearing, TornDown
<1>3. OwnedInv
  <2>1. \A s \in Sessions, k \in Kinds : overlapped[s][k] = <<k, NULL>>
    BY DEF Init
  <2>2. \A w \in Workers : work[w].at \notin Tearing \cup TornDown
    BY <1>1 DEF Tearing, TornDown
  <2>. QED
    BY <1>1, <1>2, <2>1, <2>2 DEF OwnedInv
<1>4. ASSUME NEW k \in Kinds PROVE FreeOf(k)
  <2>1. /\ pool[k] = [i \in 1 .. PoolSize |-> <<k, 0 + i>>] /\ grown[k] = PoolSize
        /\ Client = [o \in Overlapped |-> NULL] /\ PoolSize \in Nat
    BY BoundsAssumption DEF Init, Fresh
  <2>2. /\ \A i \in 1 .. PoolSize : pool[k][i] = <<k, i>>
    BY <2>1
  <2>3. ServerInv
    BY InitServer
  <2>4. pool[k] \in Seq(Structures(k)) /\ Len(pool[k]) = PoolSize
    <3>1. pool[k] \in Seq(Structures(k))
      BY <2>3 DEF ServerInv, PoolInv, TypeInv
    <3>2. DOMAIN pool[k] = 1 .. PoolSize
      BY <2>1
    <3>. QED
      BY <2>1, <3>1, <3>2
  <2>5. \A x \in Structures(k) : Client[x] = NULL /\ x = <<k, x[2]>> /\ x[2] \in Nat \ {0}
    BY <2>1, StructureIs
  <2>6. \A i \in 1 .. PoolSize : pool[k][i] \in Structures(k) /\ pool[k][i][2] = i
    <3>1. SUFFICES ASSUME NEW i \in 1 .. PoolSize PROVE pool[k][i] \in Structures(k) /\ pool[k][i][2] = i
      OBVIOUS
    <3>2. pool[k][i] = <<k, i>>
      BY <2>2
    <3>3. pool[k][i] \in Structures(k)
      <4>1. i \in 1 .. Len(pool[k])
        BY <2>4
      <4>. QED
        BY <2>4, <4>1
    <3>4. <<k, i>>[2] = i
      OBVIOUS
    <3>. QED
      BY <3>2, <3>3, <3>4
  <2>7. \A i, j \in 1 .. PoolSize : pool[k][i] = pool[k][j] => i = j
    BY <2>6
  <2>8. \A i \in 1 .. PoolSize : pool[k][i][2] <= PoolSize /\ Client[pool[k][i]] = NULL
    BY <2>1, <2>5, <2>6
  <2>9. ASSUME NEW x \in Structures(k), x[2] <= PoolSize PROVE \E i \in 1 .. PoolSize : pool[k][i] = x
    <3>1. x[2] \in 1 .. PoolSize
      BY <2>1, <2>5, <2>9
    <3>. QED
      BY <2>2, <2>5, <3>1
  <2>10. \A w \in Workers : work[w].at # EnqueueAt[k]
    BY <1>1, <1>2
  <2>. QED
    BY <2>1, <2>4, <2>5, <2>7, <2>8, <2>9, <2>10 DEF FreeOf
<1>. QED
  BY <1>3, <1>4 DEF FreeInv

\* Nor is a second teardown.
LEMMA TwiceStays ==
  ASSUME ServerInv, Next, ~ TornDownTwice'
  PROVE  ~ TornDownTwice
<1>1. CASE UNCHANGED teardowns
  BY <1>1 DEF TornDownTwice
<1>2. CASE \E w \in Workers : CloseSession(w)
  <2>1. PICK w \in Workers : CloseSession(w)
    BY <1>2
  <2>2. UNCHANGED teardowns \/ \E c : teardowns' = [teardowns EXCEPT ![c] = @ + 1]
    BY <2>1 DEF CloseSession
  <2>3. \A s \in Sessions : teardowns[s] \in Nat /\ teardowns'[s] >= teardowns[s] /\ teardowns'[s] \in Nat
    BY <2>2 DEF ServerInv, TearInv
  <2>. QED
    BY <2>3 DEF TornDownTwice
<1>. QED
  BY <1>1, <1>2, ZenonT(30)
  DEF Next, Run, Accept, TakeRecvOverlapped, TakeSendOverlapped, AddTcpClient, BindSocket,
      FirstReceive, Complete, PeerReset, WorkerThread, GetCompletion, FailedCompletion,
      ExpiredTest, ClientTest, Dispatch, Broadcast, Relay, Flush, CloseSelf, EndOfPackets, IsValid,
      NextReceive, RemoveTcpClient, Disown, Enqueue, Close, SetClosing, historyVars

\* AccountInv is inductive relative to ServerInv.
LEMMA NextAccount == ServerInv /\ AccountInv /\ [Next]_vars => AccountInv'
<1> SUFFICES ASSUME ServerInv, AccountInv, [Next]_vars, ~ crashed', ~ TornDownTwice'
             PROVE  OwnedInv' /\ FreeInv'
  BY DEF AccountInv
<1>1. CASE UNCHANGED <<pool, grown, Client, overlapped, work, teardowns>> /\ ~ crashed
  BY <1>1, AccountStays DEF AccountInv, TornDownTwice
<1>2. CASE UNCHANGED vars
  BY <1>1, <1>2 DEF vars, crashed
<1>3. CASE Next
  <2>1. ~ crashed
    BY <1>3, CrashedStops
  <2>2. ~ TornDownTwice
    BY <1>3, TwiceStays
  <2>3. OwnedInv /\ FreeInv
    BY <2>1, <2>2 DEF AccountInv
  <2>4. CASE Accept \/ AddTcpClient \/ BindSocket \/ FirstReceive \/ Complete \/ PeerReset
    <3>1. UNCHANGED <<pool, grown, Client, overlapped, work, teardowns>>
      BY <2>4 DEF Accept, AddTcpClient, BindSocket, FirstReceive, Crash, crashed, Complete, PeerReset,
                  poolVars, historyVars
    <3>. QED
      BY <1>1, <2>1, <3>1
  <2>5. CASE TakeRecvOverlapped
    <3>1. "recv" \in Kinds /\ Making("recv") /\ accepted \in Sessions
      BY <2>5 DEF TakeRecvOverlapped, Making, Kinds, ServerInv, PoolInv, TypeInv
    <3>. QED
      BY <2>1, <2>3, <2>5, <3>1, TakeAccount DEF TakeRecvOverlapped, historyVars
  <2>6. CASE TakeSendOverlapped
    <3>1. "send" \in Kinds /\ Making("send") /\ accepted \in Sessions
      BY <2>6 DEF TakeSendOverlapped, Making, Kinds, ServerInv, PoolInv, TypeInv
    <3>. QED
      BY <2>1, <2>3, <2>6, <3>1, TakeAccount DEF TakeSendOverlapped, historyVars
  <2>7. ASSUME NEW w \in Workers, WorkerThread(w) PROVE OwnedInv' /\ FreeInv'
    BY <2>3, <2>7, CloseAccount, DisownAccount, EnqueueAccount, WorkerAccount
  <2>. QED
    BY <1>3, <2>4, <2>5, <2>6, <2>7 DEF Next, Run
<1>. QED
  BY <1>2, <1>3

\* With any number of workers, sessions and structures, and whatever is in flight:
\* as long as no session is torn down twice, the pools hold every structure
\* that no session has, once (MakeClientSessionEx and CloseSession).
THEOREM PoolsKeepAll == Spec => []PoolsAccountForAll
<1>1. ServerInv /\ AccountInv => PoolsAccountForAll
  <2> SUFFICES ASSUME ServerInv, OwnedInv, FreeInv, NEW k \in Kinds
               PROVE  LET handedBack == {w \in Workers : work[w].at = EnqueueAt[k]}
                          free == {<<k, n>> : n \in {i \in 1 .. grown[k] : Client[<<k, i>>] = NULL}}
                      IN /\ free = Range(pool[k]) \cup {overlapped[work[w].client][k] : w \in handedBack}
                         /\ Cardinality(free) = Len(pool[k]) + Cardinality(handedBack)
    BY DEF AccountInv, PoolsAccountForAll
  <2> DEFINE H == {w \in Workers : work[w].at = EnqueueAt[k]}
             free == {<<k, n>> : n \in {i \in 1 .. grown[k] : Client[<<k, i>>] = NULL}}
             f == [w \in H |-> overlapped[work[w].client][k]]
             B == {overlapped[work[w].client][k] : w \in H}
             A == Range(pool[k])
  <2>1. FreeOf(k)
    BY DEF FreeInv
  <2>2. /\ pool[k] \in Seq(Structures(k)) /\ Len(pool[k]) \in Nat /\ grown[k] \in Nat
        /\ A = {pool[k][i] : i \in 1 .. Len(pool[k])}
    BY DEF ServerInv, PoolInv, TypeInv, Range
  <2>3. grown[k] <= PoolSize * (MaxSessions + 1)
    <3>1. /\ grown[k] <= PoolSize * (accepted + 1) /\ accepted \in Numbers
          /\ PoolSize * (accepted + 1) <= PoolSize * (MaxSessions + 1)
      BY Sizes DEF ServerInv, PoolInv, GrownInv, TypeInv
    <3>2. PoolSize * (accepted + 1) \in Nat /\ PoolSize * (MaxSessions + 1) \in Nat
      BY <3>1, Sizes, BoundsAssumption DEF Numbers
    <3>. QED
      BY <2>2, <3>1, <3>2
  <2>4. \A x : x \in free <=> x \in Structures(k) /\ x[2] <= grown[k] /\ Client[x] = NULL
    <3>1. ASSUME NEW n \in 1 .. grown[k]
          PROVE  <<k, n>> \in Structures(k) /\ <<k, n>>[2] = n
      <4>1. n \in 1 .. PoolSize * (MaxSessions + 1)
        BY <2>2, <2>3, <3>1, Sizes, BoundsAssumption
      <4>2. <<k, n>> \in {k} \X (1 .. PoolSize * (MaxSessions + 1))
        BY <4>1
      <4>. QED
        BY <4>2 DEF Structures
    <3>2. ASSUME NEW x \in free PROVE x \in Structures(k) /\ x[2] <= grown[k] /\ Client[x] = NULL
      <4>1. PICK n \in 1 .. grown[k] : x = <<k, n>> /\ Client[<<k, n>>] = NULL
        BY <3>2
      <4>. QED
        BY <2>2, <3>1, <4>1
    <3>3. ASSUME NEW x \in Structures(k), x[2] <= grown[k], Client[x] = NULL PROVE x \in free
      <4>1. x = <<k, x[2]>> /\ x[2] \in 1 .. grown[k]
        BY <2>2, <3>3, StructureIs
      <4>. QED
        BY <3>3, <4>1
    <3>. QED
      BY <3>2, <3>3
  <2>5. \A w \in H : overlapped[work[w].client][k] \in Structures(k)
    <3>1. SUFFICES ASSUME NEW w \in H PROVE overlapped[work[w].client][k] \in Structures(k)
      OBVIOUS
    <3>2. work[w].client \in Sessions /\ overlapped[work[w].client][k] # <<k, NULL>>
      BY <3>1, TearSteps, BegunIs DEF ServerInv, WorkInv
    <3>. QED
      BY <3>2 DEF ServerInv, PoolInv, TypeInv
  <2>6. free = A \cup B
    <3> HIDE DEF free
    <3>1. \A x \in A \cup B : x \in free
      BY <2>1, <2>2, <2>4, <2>5 DEF FreeOf
    <3>2. \A x \in free : x \in A \cup B
      BY <2>1, <2>2, <2>4 DEF FreeOf
    <3>. QED
      BY <3>1, <3>2
  <2>7. IsFiniteSet(A) /\ Cardinality(A) = Len(pool[k])
    <3>1. pool[k] \in Bijection(1 .. Len(pool[k]), A)
      BY <2>1, <2>2 DEF FreeOf, Bijection, Injection, Surjection, IsInjective
    <3>2. IsFiniteSet(1 .. Len(pool[k])) /\ Cardinality(1 .. Len(pool[k])) = Len(pool[k])
      <4>1. 1 \in Int /\ Len(pool[k]) \in Int /\ Len(pool[k]) >= 0
        BY <2>2
      <4> DEFINE len == Len(pool[k])
      <4> HIDE DEF len
      <4>2. /\ IsFiniteSet(1 .. len)
            /\ Cardinality(1 .. len) = IF 1 > len THEN 0 ELSE len - 1 + 1
        BY <4>1, FS_Interval DEF len
      <4>3. Cardinality(1 .. len) = len
        BY <4>1, <4>2 DEF len
      <4>. QED
        BY <4>2, <4>3 DEF len
    <3>. QED
      BY <3>1, <3>2, FS_Bijection DEF ExistsBijection
  <2>8. IsFiniteSet(B) /\ Cardinality(B) = Cardinality(H) /\ Cardinality(H) \in Nat
    <3>1. f \in Bijection(H, B)
      BY <2>1 DEF FreeOf, Bijection, Injection, Surjection, IsInjective
    <3>2. IsFiniteSet(H) /\ Cardinality(H) \in Nat
      BY BoundsAssumption, FS_Subset, FS_CardinalityType
    <3>. QED
      BY <3>1, <3>2, FS_Bijection DEF ExistsBijection
  <2>9. A \cap B = {}
    BY <2>1, <2>2 DEF FreeOf
  <2> HIDE DEF A, B, H, free
  <2>10. Cardinality(free) = Len(pool[k]) + Cardinality(H)
    <3>1. Cardinality(A \cup B) = Cardinality(A) + Cardinality(B) - Cardinality(A \cap B)
      BY <2>7, <2>8, FS_Union
    <3>2. Cardinality(A \cap B) = 0
      BY <2>9, FS_EmptySet
    <3>. QED
      BY <2>2, <2>6, <2>7, <2>8, <3>1, <3>2
  <2>. QED
    BY <2>6, <2>10 DEF A, B, H, free
<1>. QED
  BY <1>1, InitAccount, NextAccount, ServerSafe, PTL DEF Spec
-----------------------------------------------------------------------------
(* No session is deaf.                                                     *)

\* A connection that has not been closed.
Up(s) == socket[s] \in {"open", "reset"}

\* A handle that is not closed stands for one connection.
HandleInv ==
  /\ handle \in [Sessions -> Numbers]
  /\ socket \in [Sessions -> {"none", "open", "reset", "closed"}]
  /\ m_isClosing \in [Sessions -> BOOLEAN]
  /\ \A s \in Sessions : socket[s] = "none" => handle[s] = 0
  /\ \A s \in Sessions : Up(s) => handle[s] # 0
  /\ \A s, t \in Sessions : Up(s) /\ Up(t) /\ handle[s] = handle[t] => s = t

\* An operation uses its session's own structure, up to the worker that gets its
\* completion.
DataInv ==
  /\ \A o \in ops : o.data = overlapped[o.of][o.data[1]]
  /\ \A i \in 1 .. Len(port) : port[i].data = overlapped[port[i].of][port[i].data[1]]
  /\ \A w \in Workers : work[w].at # "idle" => work[w].data = overlapped[work[w].of][work[w].data[1]]

\* What a worker does after a receive, and what after a send; it tears down the
\* session of its completion.
Turn(w) ==
  /\ work[w].at \in {"packets", "closingSelf", "recvasync"} => work[w].data[1] = "recv"
  /\ work[w].at = "flush" /\ work[w].next = "idle" => work[w].data[1] = "send"
  /\ work[w].at = "flush" /\ work[w].next = "packets" => work[w].data[1] = "recv"
  /\ work[w].at \in Tearing \cup TornDown => work[w].client = work[w].of

TurnInv == \A w \in Workers : Turn(w)

\* A session expects every receive that is on its way to Dispatch.
Early == {"failed", "expired?", "client?", "dispatch"}

Awaited(s) ==
  RecvOps(s) # {} \/ RecvDone(s) # {} \/ \E w \in RecvWork(s) : work[w].at \in Early

AwaitInv == \A s \in Sessions : Awaited(s) => m_IoState[s]["recv"] = "IO_PENDING"

\* A listed session that is closing has a worker that will tear it down.
ClosingInv ==
  \A s \in Sessions : m_isClosing[s] =>
    s \in Begun /\ (s \in m_clients => \E w \in RecvWork(s) : work[w].at # "recvasync")

\* A listed session has a receive on its own connection, or failed to post one,
\* or is not bound to the port for good, or has no connection any more.
Heard(s) ==
  \/ s \in recvFailed \/ s \in bindFailed
  \/ socket[s] = "closed"
  \/ \E o \in RecvOps(s) : o.conn = s
  \/ RecvDone(s) # {}
  \/ RecvWork(s) # {}

HeardInv == \A s \in m_clients : (s = accepted /\ main # "accept") \/ Heard(s)

HearInv == HandleInv /\ DataInv /\ TurnInv /\ AwaitInv /\ ClosingInv /\ HeardInv

\* What the steps of this part start from.
Good == ServerInv /\ RecvInv /\ OwnedInv /\ HearInv /\ Sane

\* The structures of a listed session are its own.
LEMMA ListedOwned ==
  ASSUME ServerInv, OwnedInv, Sane, NEW s \in m_clients, NEW k \in Kinds
  PROVE  Client[overlapped[s][k]] = s /\ s \in Sessions /\ s # NULL
<1>1. s \in Begun /\ s \in Sessions /\ s # NULL
  BY BegunIs DEF ServerInv, ListInv
<1>2. overlapped[s][k] # <<k, NULL>>
  <2>1. ~ (s > accepted \/ (s = accepted /\ Making(k)))
    BY <1>1, BoundsAssumption DEF Begun, Making, ServerInv, PoolInv, TypeInv, Numbers
  <2>. QED
    BY <1>1, <2>1 DEF Sane, ServerInv, PoolInv, TieInv
<1>3. CASE teardowns[s] = 0
  BY <1>1, <1>2, <1>3 DEF OwnedInv
<1>4. CASE teardowns[s] # 0
  <2>1. teardowns[s] > 0
    BY <1>1, <1>4 DEF ServerInv, TearInv
  <2>2. PICK w \in Workers : work[w].at = "remove" /\ work[w].client = s
    BY <2>1 DEF ServerInv, TornDownIsUnlisted, Sane
  <2>3. "remove" \in Before(k)
    BY DEF Before, Tearing, Kinds
  <2>. QED
    BY <1>1, <1>2, <2>2, <2>3 DEF OwnedInv
<1>. QED
  BY <1>1, <1>3, <1>4

\* Past RemoveTcpClient the session is not listed.
LEMMA TearingUnlisted ==
  ASSUME ServerInv, OwnedInv, Sane, NEW w \in Workers,
         work[w].at \in Tearing \cup TornDown, work[w].at # "remove"
  PROVE  work[w].client \notin m_clients
<1> SUFFICES ASSUME work[w].client \in m_clients PROVE FALSE
  OBVIOUS
<1>1. teardowns[work[w].client] = 1
  BY DEF OwnedInv
<1>2. PICK v \in Workers : work[v].at = "remove" /\ work[v].client = work[w].client
  BY <1>1 DEF ServerInv, TornDownIsUnlisted, Sane
<1>3. work[v].at \in Tearing \cup TornDown
  BY <1>2 DEF Tearing
<1>4. v = w
  BY <1>2, <1>3 DEF OwnedInv
<1>. QED
  BY <1>2, <1>4

\* How a worker that has a completion goes on, and when it is done with it.
LEMMA WorkerTurns ==
  ASSUME Good, NEW w \in Workers, ~ crashed', ~ stale', WorkerThread(w), ~ GetCompletion(w)
  PROVE  /\ Turn(w)'
         /\ work'[w].at \in Early => work[w].at \in Early
         /\ work'[w].at = "recvasync" => ~ m_isClosing[work[w].of]
         /\ work'[w].at = "idle" =>
              work[w].data[1] = "send" \/ work[w].at = "recvasync" \/ work[w].of \notin m_clients
<1> DEFINE Goal ==
      /\ Turn(w)'
      /\ work'[w].at \in Early => work[w].at \in Early
      /\ work'[w].at = "recvasync" => ~ m_isClosing[work[w].of]
      /\ work'[w].at = "idle" =>
           work[w].data[1] = "send" \/ work[w].at = "recvasync" \/ work[w].of \notin m_clients
<1> USE DEF Good
<1>0. ~ Crash /\ ~ crashed
  BY DEF Crash, crashed, Sane
<1>1. /\ work \in [Workers -> WorkRecords] /\ work[w] \in WorkRecords
      /\ work[w].at \in Serving => work[w].client = work[w].of
      /\ work[w].next \in {"idle", "packets", "isvalid"}
      /\ work[w].data \in Overlapped /\ work[w].data[1] \in Kinds
      /\ Idle.at = "idle" /\ Turn(w)
  <2>1. work \in [Workers -> WorkRecords] /\ work[w] \in WorkRecords
    BY DEF ServerInv, WorkInv
  <2>2. work[w].data \in Overlapped /\ work[w].next \in {"idle", "packets", "isvalid"}
    BY <2>1 DEF WorkRecords
  <2>3. work[w].data[1] \in Kinds
    BY <2>2 DEF Overlapped
  <2>. QED
    BY <2>1, <2>2, <2>3, IdleIs DEF RecvInv, HearInv, TurnInv
<1>2. work[w].at # "idle" /\ work[w].of \in m_clients =>
        Client[work[w].data] = work[w].of /\ work[w].of \in Sessions /\ work[w].of # NULL
  BY <1>1, ListedOwned DEF HearInv, DataInv
<1>3. CASE FailedCompletion(w)
  BY <1>0, <1>1, <1>3 DEF FailedCompletion, Goto, WorkRecords, Turn, Early, Tearing, TornDown
<1>4. CASE ExpiredTest(w)
  <2>1. CASE Client[work[w].data] = NULL
    BY <1>1, <1>2, <1>4, <2>1 DEF ExpiredTest, Done, WorkRecords, Turn, Early, Tearing, TornDown
  <2>2. CASE Client[work[w].data] # NULL
    BY <1>1, <1>4, <2>2 DEF ExpiredTest, Goto, WorkRecords, Turn, Early, Tearing, TornDown
  <2>. QED
    BY <2>1, <2>2
<1>5. CASE ClientTest(w)
  BY <1>1, <1>5 DEF ClientTest, Goto, WorkRecords, Turn, Early, Tearing, TornDown
<1>6. CASE Dispatch(w)
  <2>1. CASE Done(w)
    <3>1. work[w].at = "dispatch" /\ Client[work[w].data] # NULL
      BY <1>0, <1>6 DEF Dispatch
    <3>2. m_IoState[Client[work[w].data]][work[w].data[1]] # "IO_PENDING"
      <4>1. SUFFICES ASSUME m_IoState[Client[work[w].data]][work[w].data[1]] = "IO_PENDING" PROVE FALSE
        OBVIOUS
      <4>2. work'[w].at # "idle"
        BY <1>0, <1>1, <1>6, <4>1 DEF Dispatch, WorkRecords
      <4>. QED
        BY <1>1, <2>1, <4>2 DEF Done
    <3>3. ASSUME work[w].of \in m_clients, work[w].data[1] = "recv" PROVE FALSE
      <4>1. w \in RecvWork(work[w].of) /\ work[w].at \in Early
        BY <3>1, <3>3 DEF RecvWork, Early
      <4>2. m_IoState[work[w].of]["recv"] = "IO_PENDING"
        BY <1>2, <3>1, <3>3, <4>1 DEF HearInv, AwaitInv, Awaited
      <4>. QED
        BY <1>2, <3>1, <3>2, <3>3, <4>2
    <3>4. work[w].data[1] = "send" \/ work[w].of \notin m_clients
      BY <1>1, <3>3 DEF Kinds
    <3>. QED
      BY <1>1, <2>1, <3>4 DEF Done, Turn, Early, Tearing, TornDown
  <2>2. CASE work' = [work EXCEPT ![w].client = Client[work[w].data],
                           ![w].at = IF work[w].data[1] = "recv" THEN "packets" ELSE "isvalid"]
    <3>1. work'[w].at = IF work[w].data[1] = "recv" THEN "packets" ELSE "isvalid"
      BY <1>1, <2>2 DEF WorkRecords
    <3>2. work'[w].data = work[w].data
      BY <1>1, <2>2 DEF WorkRecords
    <3>. QED
      BY <3>1, <3>2 DEF Turn, Early, Tearing, TornDown
  <2>. QED
    BY <1>0, <1>6, <2>1, <2>2 DEF Dispatch
<1>7. CASE Broadcast(w)
  BY <1>1, <1>7 DEF Broadcast, WorkRecords, Turn, Early, Tearing, TornDown
<1>8. CASE Relay(w)
  BY <1>1, <1>8 DEF Relay, WorkRecords, Turn, Early, Tearing, TornDown
<1>9. CASE Flush(w)
  BY <1>1, <1>9 DEF Flush, Goto, Done, WorkRecords, Turn, Early, Tearing, TornDown
<1>10. CASE CloseSelf(w)
  BY <1>1, <1>10 DEF CloseSelf, WorkRecords, Turn, Early, Tearing, TornDown
<1>11. CASE EndOfPackets(w)
  BY <1>1, <1>11 DEF EndOfPackets, WorkRecords, Turn, Early, Tearing, TornDown
<1>12. CASE IsValid(w)
  <2>1. work[w].at = "isvalid" /\ work[w].client = work[w].of
    BY <1>1, <1>12 DEF IsValid, Serving
  <2>. QED
    BY <1>1, <1>12, <2>1 DEF IsValid, Goto, Done, WorkRecords, Turn, Early, Tearing, TornDown
<1>13. CASE NextReceive(w)
  BY <1>1, <1>13 DEF NextReceive, Done, WorkRecords, Turn, Early, Tearing, TornDown
<1>14. CASE CloseSession(w)
  <2>1. work[w].at = "close"
    BY <1>14 DEF CloseSession
  <2>2. CASE Done(w)
    <3>1. Client[work[w].data] = NULL
      <4>1. SUFFICES ASSUME Client[work[w].data] # NULL PROVE FALSE
        OBVIOUS
      <4>2. work'[w].at = "remove"
        BY <1>1, <1>14, <4>1 DEF CloseSession, WorkRecords
      <4>. QED
        BY <1>1, <2>2, <4>2 DEF Done
    <3>. QED
      BY <1>1, <1>2, <2>1, <2>2, <3>1 DEF Done, Turn, Early, Tearing, TornDown
  <2>3. CASE /\ work' = [work EXCEPT ![w].at = "remove", ![w].client = Client[work[w].data]]
             /\ stale' = (stale \/ Client[work[w].data] # work[w].of)
    <3>1. Client[work[w].data] = work[w].of
      BY <2>3
    <3>2. work'[w].at = "remove" /\ work'[w].client = Client[work[w].data] /\ work'[w].of = work[w].of
      BY <1>1, <2>3 DEF WorkRecords
    <3>. QED
      BY <3>1, <3>2 DEF Turn, Early
  <2>. QED
    BY <1>14, <2>2, <2>3 DEF CloseSession
<1>15. CASE RemoveTcpClient(w)
  BY <1>1, <1>15 DEF RemoveTcpClient, Goto, WorkRecords, Turn, Early, Tearing
<1>16. ASSUME NEW k \in Kinds, Disown(w, k) \/ Enqueue(w, k) PROVE Goal
  <2>1. /\ work[w].at \in {DisownAt[k], EnqueueAt[k]}
        /\ \E l \in {EnqueueAt[k], After[k]} : Goto(w, l)
    BY <1>16 DEF Disown, Enqueue
  <2>2. PICK l \in {EnqueueAt[k], After[k]} : Goto(w, l)
    BY <2>1
  <2>3. l \in Tearing \cup TornDown /\ work[w].at \in Tearing \cup TornDown
    BY <2>1, TearSteps
  <2>4. l \notin {"idle", "packets", "closingSelf", "recvasync", "flush"} /\ l \notin Early
    BY <2>3 DEF Tearing, TornDown, Early
  <2>5. work'[w].at = l /\ work'[w].of = work[w].of /\ work'[w].client = work[w].client
    BY <1>1, <2>2, <2>4 DEF Goto, WorkRecords
  <2>. QED
    BY <1>1, <2>3, <2>4, <2>5 DEF Turn
<1>17. CASE Close(w)
  BY <1>1, <1>17 DEF Close, Goto, WorkRecords, Turn, Early, TornDown
<1>18. CASE SetClosing(w)
  <2>1. CASE work[w].at = "closing"
    <3>1. work[w].of \notin m_clients
      BY <1>1, <2>1, TearingUnlisted DEF Turn, TornDown
    <3>. QED
      BY <1>1, <1>18, <2>1, <3>1 DEF SetClosing, Goto, Done, Turn, Early, Tearing, TornDown
  <2>2. CASE work[w].at = "closingSelf"
    BY <1>1, <1>18, <2>2 DEF SetClosing, Goto, WorkRecords, Turn, Early, Tearing, TornDown
  <2>. QED
    BY <1>18, <2>1, <2>2 DEF SetClosing
<1>. QED
  BY <1>3, <1>4, <1>5, <1>6, <1>7, <1>8, <1>9, <1>10, <1>11, <1>12, <1>13, <1>14, <1>15, <1>16, <1>17, <1>18
  DEF WorkerThread

\* The receives that the workers have, after a step of one of them.
LEMMA WorkerReceives ==
  ASSUME Good, NEW w \in Workers, ~ crashed', ~ stale', WorkerThread(w), ~ GetCompletion(w)
  PROVE  /\ UNCHANGED <<accepted, main, overlapped>>
         /\ TurnInv'
         /\ \A v \in Workers : work'[v].at # "idle" => work'[v].data = overlapped'[work'[v].of][work'[v].data[1]]
         /\ \A s : (\E v \in RecvWork(s)' : work'[v].at \in Early) => \E v \in RecvWork(s) : work[v].at \in Early
         /\ \A s \in m_clients : m_isClosing[s] /\ (\E v \in RecvWork(s) : work[v].at # "recvasync") =>
              \E v \in RecvWork(s)' : work'[v].at # "recvasync"
         /\ \A s \in m_clients : RecvWork(s) # {} =>
              RecvWork(s)' # {} \/ (work[w].at = "recvasync" /\ work[w].of = s)
<1> USE DEF Good
<1>1. /\ UNCHANGED <<accepted, main, overlapped>>
      /\ work[w].at # "idle" /\ \A v \in Workers : v # w => work'[v] = work[v]
      /\ work'[w].at = "idle" \/ (work'[w].of = work[w].of /\ work'[w].data = work[w].data)
  BY WorkerKeeps
<1>2. /\ Turn(w)'
      /\ work'[w].at \in Early => work[w].at \in Early
      /\ work'[w].at = "recvasync" => ~ m_isClosing[work[w].of]
      /\ work'[w].at = "idle" =>
           work[w].data[1] = "send" \/ work[w].at = "recvasync" \/ work[w].of \notin m_clients
  BY WorkerTurns
<1>3. TurnInv'
  <2>1. ASSUME NEW v \in Workers, v # w PROVE Turn(v)'
    BY <1>1, <2>1 DEF HearInv, TurnInv, Turn
  <2>. QED
    BY <1>2, <2>1 DEF TurnInv
<1>4. \A v \in Workers : work'[v].at # "idle" => work'[v].data = overlapped'[work'[v].of][work'[v].data[1]]
  <2>1. \A v \in Workers : work[v].at # "idle" => work[v].data = overlapped[work[v].of][work[v].data[1]]
    BY DEF HearInv, DataInv
  <2>. QED
    BY <1>1, <2>1
<1>5. "idle" \notin Early
  BY DEF Early
<1>6. ASSUME NEW s, NEW v \in RecvWork(s)', work'[v].at \in Early
      PROVE  v \in RecvWork(s) /\ work[v].at \in Early
  BY <1>1, <1>2, <1>5, <1>6 DEF RecvWork
<1>7. ASSUME NEW s \in m_clients, m_isClosing[s], NEW v \in RecvWork(s), work[v].at # "recvasync"
      PROVE  v \in RecvWork(s)' /\ work'[v].at # "recvasync"
  BY <1>1, <1>2, <1>7 DEF RecvWork
<1>8. ASSUME NEW s \in m_clients, NEW v \in RecvWork(s)
      PROVE  v \in RecvWork(s)' \/ (work[w].at = "recvasync" /\ work[w].of = s)
  BY <1>1, <1>2, <1>8 DEF RecvWork
<1>. QED
  BY <1>1, <1>3, <1>4, <1>6, <1>7, <1>8

\* Only the main thread binds sockets.
LEMMA WorkerBinds ==
  ASSUME NEW w \in Workers, WorkerThread(w)
  PROVE  UNCHANGED bindFailed
<1>1. CASE \/ GetCompletion(w) \/ FailedCompletion(w) \/ ExpiredTest(w) \/ ClientTest(w)
           \/ Dispatch(w) \/ Broadcast(w) \/ Relay(w) \/ Flush(w) \/ CloseSelf(w)
  BY <1>1, Zenon DEF GetCompletion, FailedCompletion, ExpiredTest, ClientTest, Dispatch,
     Broadcast, Relay, Flush, CloseSelf, historyVars
<1>2. CASE \/ EndOfPackets(w) \/ IsValid(w) \/ NextReceive(w) \/ CloseSession(w)
           \/ RemoveTcpClient(w) \/ Close(w) \/ SetClosing(w)
           \/ \E k \in Kinds : Disown(w, k) \/ Enqueue(w, k)
  BY <1>2, Zenon DEF EndOfPackets, IsValid, NextReceive, CloseSession, RemoveTcpClient,
     Disown, Enqueue, Close, SetClosing, historyVars
<1>. QED
  BY <1>1, <1>2 DEF WorkerThread

\* A step of a worker, when it is known what it does to the operations, the
\* sockets and the flags.
LEMMA WorkerCore ==
  ASSUME Good, NEW w \in Workers, ~ crashed', ~ stale', WorkerThread(w), ~ GetCompletion(w),
         HandleInv', AwaitInv', ClosingInv', m_clients' \subseteq m_clients, recvFailed \subseteq recvFailed',
         \A o \in ops' : o.data = overlapped'[o.of][o.data[1]],
         \A i \in 1 .. Len(port') : port'[i].data = overlapped'[port'[i].of][port'[i].data[1]],
         \A s \in Sessions : socket[s] = "closed" => socket'[s] = "closed",
         \A s \in Sessions : \A o \in RecvOps(s) : o.conn = s => o \in ops' \/ socket'[s] = "closed",
         \A s \in Sessions : RecvDone(s) # {} => RecvDone(s)' # {},
         \A s \in m_clients : work[w].at = "recvasync" /\ work[w].of = s => Heard(s)'
  PROVE  HearInv'
<1>0. UNCHANGED bindFailed
  BY WorkerBinds
<1>1. /\ UNCHANGED <<accepted, main, overlapped>>
      /\ TurnInv'
      /\ \A v \in Workers : work'[v].at # "idle" => work'[v].data = overlapped'[work'[v].of][work'[v].data[1]]
      /\ \A s \in m_clients : RecvWork(s) # {} =>
           RecvWork(s)' # {} \/ (work[w].at = "recvasync" /\ work[w].of = s)
  BY WorkerReceives
<1>2. DataInv'
  BY <1>1 DEF DataInv
<1>3. HeardInv'
  <2>1. SUFFICES ASSUME NEW s \in m_clients', ~ (s = accepted /\ main # "accept") PROVE Heard(s)'
    BY <1>1 DEF HeardInv
  <2>2. s \in m_clients /\ s \in Sessions /\ Heard(s)
    BY <2>1, BegunIs DEF Good, HearInv, HeardInv, ServerInv, ListInv
  <2>3. CASE s \in recvFailed \/ s \in bindFailed \/ socket[s] = "closed" \/ RecvDone(s) # {}
    BY <1>0, <2>2, <2>3 DEF Heard
  <2>4. CASE \E o \in RecvOps(s) : o.conn = s
    <3>1. PICK o \in RecvOps(s) : o.conn = s
      BY <2>4
    <3>2. o \in ops' => o \in RecvOps(s)'
      BY DEF RecvOps
    <3>. QED
      BY <2>2, <3>1, <3>2 DEF Heard
  <2>5. CASE RecvWork(s) # {}
    BY <1>1, <2>2, <2>5 DEF Heard
  <2>. QED
    BY <2>2, <2>3, <2>4, <2>5 DEF Heard
<1>. QED
  BY <1>1, <1>2, <1>3 DEF HearInv

\* The flags, when a step leaves them alone.
LEMMA ClosingKeeps ==
  ASSUME Good, NEW w \in Workers, ~ crashed', ~ stale', WorkerThread(w), ~ GetCompletion(w),
         m_clients' \subseteq m_clients, UNCHANGED m_isClosing
  PROVE  ClosingInv'
<1>1. /\ UNCHANGED <<accepted, main>>
      /\ \A s \in m_clients : m_isClosing[s] /\ (\E v \in RecvWork(s) : work[v].at # "recvasync") =>
           \E v \in RecvWork(s)' : work'[v].at # "recvasync"
  BY WorkerReceives
<1>2. Begun' = Begun
  BY <1>1 DEF Begun
<1>. QED
  BY <1>1, <1>2 DEF Good, HearInv, ClosingInv

\* IO_STATE, when a step posts and dispatches no receive.
LEMMA AwaitKeeps ==
  ASSUME Good, NEW w \in Workers, ~ crashed', ~ stale', WorkerThread(w), ~ GetCompletion(w),
         \A s \in Sessions : m_IoState'[s]["recv"] = m_IoState[s]["recv"],
         \A s \in Sessions : RecvOps(s)' # {} => RecvOps(s) # {},
         \A s \in Sessions : RecvDone(s)' # {} => RecvDone(s) # {} \/ RecvOps(s) # {}
  PROVE  AwaitInv'
<1>1. \A s : (\E v \in RecvWork(s)' : work'[v].at \in Early) => \E v \in RecvWork(s) : work[v].at \in Early
  BY WorkerReceives
<1>2. ASSUME NEW s \in Sessions, Awaited(s)' PROVE Awaited(s)
  BY <1>1, <1>2 DEF Awaited
<1>. QED
  BY <1>2 DEF Good, HearInv, AwaitInv

\* Steps of a worker that only read.
LEMMA QuietHears ==
  ASSUME Good, NEW w \in Workers, ~ crashed', ~ stale', WorkerThread(w), ~ GetCompletion(w),
         UNCHANGED <<handle, socket, ops, port, m_IoState, m_isClosing, recvFailed>>,
         m_clients' \subseteq m_clients, work[w].at # "recvasync"
  PROVE  HearInv'
<1>1. \A s : RecvOps(s)' = RecvOps(s) /\ RecvDone(s)' = RecvDone(s)
  BY DEF RecvOps, RecvDone
<1>2. UNCHANGED overlapped
  BY WorkerReceives
<1>3. HandleInv'
  BY DEF Good, HearInv, HandleInv, Up
<1>4. AwaitInv' /\ ClosingInv'
  BY <1>1, AwaitKeeps, ClosingKeeps
<1>5. /\ \A o \in ops' : o.data = overlapped'[o.of][o.data[1]]
      /\ \A i \in 1 .. Len(port') : port'[i].data = overlapped'[port'[i].of][port'[i].data[1]]
  BY <1>2 DEF Good, HearInv, DataInv
<1>6. \A s : \A o \in RecvOps(s) : o \in ops'
  BY DEF RecvOps
<1>. QED
  BY <1>1, <1>3, <1>4, <1>5, <1>6, WorkerCore

\* What RecvAsync posts is a receive on the session's own connection, if that is
\* not closed.
LEMMA PostedHears ==
  ASSUME ServerInv, HearInv, NEW s \in Sessions, RecvAsync(s), UNCHANGED <<handle, socket, overlapped>>
  PROVE  /\ \/ s \in recvFailed' \/ socket'[s] = "closed"
            \/ \E o \in RecvOps(s)' : o.conn = s
         /\ recvFailed \subseteq recvFailed' /\ ops \subseteq ops'
         /\ \A o \in ops' : o \in ops \/ (o.of = s /\ o.data = overlapped[s]["recv"] /\ o.data[1] = "recv")
<1>1. overlapped[s]["recv"][1] = "recv"
  <2>1. "recv" \in Kinds
    BY DEF Kinds
  <2>2. overlapped[s]["recv"] \in Structures("recv") \cup {<<"recv", NULL>>}
    BY <2>1 DEF ServerInv, PoolInv, TypeInv
  <2>3. \A o \in Structures("recv") : o[1] = "recv"
    BY <2>1, StructuresAre
  <2>. QED
    BY <2>2, <2>3
<1>2. CASE recvFailed' = recvFailed \cup {s} /\ UNCHANGED ops
  BY <1>2
<1>3. CASE Post(s, "recv") /\ UNCHANGED recvFailed
  <2>1. PICK t \in Owner(handle[s]) :
          ops' = ops \cup {[data |-> overlapped[s]["recv"], of |-> s, conn |-> t]}
    BY <1>3 DEF Post
  <2>2. PICK o : o = [data |-> overlapped[s]["recv"], of |-> s, conn |-> t]
    OBVIOUS
  <2>3. o.data = overlapped[s]["recv"] /\ o.of = s /\ o.conn = t /\ ops' = ops \cup {o}
    BY <2>1, <2>2
  <2>4. o \in RecvOps(s)'
    BY <1>1, <2>3 DEF RecvOps
  <2>5. t \in Sessions /\ handle[t] = handle[s] /\ Up(t)
    BY DEF Owner, Up
  <2>6. \/ socket'[s] = "closed" \/ \E p \in RecvOps(s)' : p.conn = s
    <3>1. CASE Up(s)
      <4>1. t = s
        BY <2>5, <3>1 DEF HearInv, HandleInv
      <4>. QED
        BY <2>3, <2>4, <4>1
    <3>2. CASE ~ Up(s)
      BY <2>5, <3>2 DEF HearInv, HandleInv, Up
    <3>. QED
      BY <3>1, <3>2
  <2>. QED
    BY <1>1, <1>3, <2>3, <2>6
<1>. QED
  BY <1>2, <1>3 DEF RecvAsync

\* What the port gets of operations that end with an error.
LEMMA AbortHears ==
  ASSUME ServerInv, NEW S \in SUBSET ops, Abort(S)
  PROVE  /\ ops' = ops \ S
         /\ \A i \in 1 .. Len(port) : i \in 1 .. Len(port') /\ port'[i] = port[i]
         /\ \A i \in 1 .. Len(port') :
              \/ i \in 1 .. Len(port) /\ port'[i] = port[i]
              \/ \E o \in S : port'[i].of = o.of /\ port'[i].data = o.data
         /\ \A o \in S : Unbound(o.conn) \/
              \E i \in 1 .. Len(port') : port'[i].of = o.of /\ port'[i].data = o.data
<1> DEFINE heard == {o \in S : ~ Unbound(o.conn)}
           n == Cardinality(heard)
<1>1. PICK q \in [1 .. n -> heard] :
        /\ Range(q) = heard
        /\ port' = port \o [i \in DOMAIN q |-> [data |-> q[i].data, of |-> q[i].of, ok |-> FALSE]]
  BY DEF Abort
<1>2. ops' = ops \ S /\ heard \subseteq S
  BY DEF Abort
<1>3. n \in Nat
  BY FS_Subset, FS_CardinalityType DEF ServerInv, NetInv
<1> DEFINE z == [i \in 1 .. n |-> [data |-> q[i].data, of |-> q[i].of, ok |-> FALSE]]
<1>4. port' = port \o z
  BY <1>1
<1>5. \A i \in 1 .. n : q[i] \in S /\ z[i].of = q[i].of /\ z[i].data = q[i].data
  BY <1>1, <1>2
<1>6. \A o \in S : Unbound(o.conn) \/ \E i \in 1 .. n : q[i] = o
  BY <1>1 DEF Range
<1> HIDE DEF heard, n
<1>7. z \in Seq([data : {q[i].data : i \in 1 .. n}, of : {q[i].of : i \in 1 .. n}, ok : BOOLEAN]) /\ Len(z) = n
  BY <1>3
<1> HIDE DEF z
<1>8. port \in Seq([data : Overlapped, of : Numbers, ok : BOOLEAN])
  BY DEF ServerInv, NetInv
<1>9. Len(port') = Len(port) + n /\ Len(port) \in Nat
  BY <1>4, <1>7, <1>8
<1>10. ASSUME NEW i \in 1 .. Len(port) PROVE i \in 1 .. Len(port') /\ port'[i] = port[i]
  BY <1>3, <1>4, <1>7, <1>8, <1>9
<1>11. ASSUME NEW i \in 1 .. n
       PROVE  Len(port) + i \in 1 .. Len(port') /\ port'[Len(port) + i] = z[i]
  <2>1. PICK j : j = Len(port) + i
    OBVIOUS
  <2>2. j \in 1 .. Len(port) + Len(z) /\ j > Len(port) /\ j - Len(port) = i
    BY <1>3, <1>7, <1>9, <1>11, <2>1
  <2>3. (port \o z)[j] = z[j - Len(port)]
    BY <1>7, <1>8, <2>2
  <2>. QED
    BY <1>4, <1>7, <1>9, <2>1, <2>2, <2>3
<1>12. ASSUME NEW i \in 1 .. Len(port')
       PROVE  \/ i \in 1 .. Len(port) /\ port'[i] = port[i]
              \/ \E o \in S : port'[i].of = o.of /\ port'[i].data = o.data
  <2>1. CASE i \in 1 .. Len(port)
    BY <1>10, <2>1
  <2>2. CASE i \notin 1 .. Len(port)
    <3>1. PICK j : j = i - Len(port)
      OBVIOUS
    <3>2. j \in 1 .. n /\ i = Len(port) + j
      BY <1>3, <1>9, <2>2, <3>1
    <3>3. port'[i] = z[j]
      BY <1>11, <3>2
    <3>. QED
      BY <1>5, <3>2, <3>3
  <2>. QED
    BY <2>1, <2>2
<1>13. ASSUME NEW o \in S, ~ Unbound(o.conn)
       PROVE  \E i \in 1 .. Len(port') : port'[i].of = o.of /\ port'[i].data = o.data
  <2>1. PICK i \in 1 .. n : q[i] = o
    BY <1>6, <1>13
  <2>2. Len(port) + i \in 1 .. Len(port') /\ port'[Len(port) + i] = z[i]
    BY <1>11
  <2>3. z[i].of = o.of /\ z[i].data = o.data
    BY <1>5, <2>1
  <2>. QED
    BY <2>2, <2>3
<1>. QED
  BY <1>2, <1>10, <1>12, <1>13

\* The port before and after.
LEMMA AbortPort ==
  ASSUME ServerInv, DataInv, NEW S \in SUBSET ops, Abort(S), UNCHANGED overlapped
  PROVE  /\ \A s : RecvOps(s)' = RecvOps(s) \ S
         /\ \A s : RecvDone(s) # {} => RecvDone(s)' # {}
         /\ \A s : RecvDone(s)' # {} => RecvDone(s) # {} \/ RecvOps(s) # {}
         /\ \A s : \A o \in RecvOps(s) \cap S : Unbound(o.conn) \/ RecvDone(s)' # {}
         /\ \A o \in ops' : o.data = overlapped'[o.of][o.data[1]]
         /\ \A i \in 1 .. Len(port') : port'[i].data = overlapped'[port'[i].of][port'[i].data[1]]
<1>1. /\ ops' = ops \ S
      /\ \A i \in 1 .. Len(port) : i \in 1 .. Len(port') /\ port'[i] = port[i]
      /\ \A i \in 1 .. Len(port') :
           \/ i \in 1 .. Len(port) /\ port'[i] = port[i]
           \/ \E o \in S : port'[i].of = o.of /\ port'[i].data = o.data
      /\ \A o \in S : Unbound(o.conn) \/
           \E i \in 1 .. Len(port') : port'[i].of = o.of /\ port'[i].data = o.data
  BY AbortHears
<1>2. \A s : RecvOps(s)' = RecvOps(s) \ S
  BY <1>1 DEF RecvOps
<1>3. \A s : RecvDone(s) # {} => RecvDone(s)' # {}
  BY <1>1 DEF RecvDone
<1>4. \A s : RecvDone(s)' # {} => RecvDone(s) # {} \/ RecvOps(s) # {}
  BY <1>1 DEF RecvDone, RecvOps
<1>5. \A s : \A o \in RecvOps(s) \cap S : Unbound(o.conn) \/ RecvDone(s)' # {}
  BY <1>1 DEF RecvDone, RecvOps
<1>6. \A o \in ops' : o.data = overlapped'[o.of][o.data[1]]
  BY <1>1 DEF DataInv
<1>7. \A i \in 1 .. Len(port') : port'[i].data = overlapped'[port'[i].of][port'[i].data[1]]
  <2>1. ASSUME NEW i \in 1 .. Len(port')
        PROVE  port'[i].data = overlapped[port'[i].of][port'[i].data[1]]
    <3>1. CASE i \in 1 .. Len(port) /\ port'[i] = port[i]
      BY <3>1 DEF DataInv
    <3>2. CASE \E o \in S : port'[i].of = o.of /\ port'[i].data = o.data
      BY <3>2 DEF DataInv
    <3>. QED
      BY <1>1, <3>1, <3>2
  <2>. QED
    BY <2>1
<1>. QED
  BY <1>2, <1>3, <1>4, <1>5, <1>6, <1>7

\* closesocket, by ProcessPacket or at the end of a teardown.
LEMMA CloseHears ==
  ASSUME Good, NEW w \in Workers, ~ crashed', ~ stale', CloseSelf(w) \/ Close(w)
  PROVE  HearInv'
<1> USE DEF Good
<1>1. WorkerThread(w) /\ ~ GetCompletion(w) /\ work[w].at \in {"packets", "closesocket"}
  BY DEF WorkerThread, GetCompletion, CloseSelf, Close
<1>2. /\ closesocket(work[w].client)
      /\ UNCHANGED <<overlapped, m_clients, m_IoState, m_isClosing, recvFailed>>
  BY DEF CloseSelf, Close, poolVars, historyVars
<1>3. PICK T : T = Owner(handle[work[w].client])
  OBVIOUS
<1>4. /\ socket' = [t \in Sessions |-> IF t \in T THEN "closed" ELSE socket[t]]
      /\ Abort({o \in ops : o.conn \in T}) /\ UNCHANGED handle
  BY <1>2, <1>3 DEF closesocket
<1>5. PICK S : S = {o \in ops : o.conn \in T}
  OBVIOUS
<1>6. S \in SUBSET ops /\ Abort(S)
  BY <1>4, <1>5
<1>7. /\ \A s : RecvOps(s)' = RecvOps(s) \ S
      /\ \A s : RecvDone(s) # {} => RecvDone(s)' # {}
      /\ \A s : RecvDone(s)' # {} => RecvDone(s) # {} \/ RecvOps(s) # {}
      /\ \A o \in ops' : o.data = overlapped'[o.of][o.data[1]]
      /\ \A i \in 1 .. Len(port') : port'[i].data = overlapped'[port'[i].of][port'[i].data[1]]
  BY <1>2, <1>6, AbortPort DEF HearInv
<1>8. HandleInv'
  <2>1. \A s \in Sessions : socket'[s] = "closed" \/ socket'[s] = socket[s]
    BY <1>4
  <2>2. \A s \in Sessions : Up(s)' => Up(s)
    BY <2>1 DEF Up
  <2>3. socket' \in [Sessions -> {"none", "open", "reset", "closed"}]
    BY <1>4 DEF HearInv, HandleInv
  <2>. QED
    BY <1>2, <1>4, <2>1, <2>2, <2>3 DEF HearInv, HandleInv
<1>9. AwaitInv'
  BY <1>1, <1>2, <1>7, AwaitKeeps
<1>10. ClosingInv'
  BY <1>1, <1>2, ClosingKeeps
<1>11. \A s \in Sessions : socket[s] = "closed" => socket'[s] = "closed"
  BY <1>4
<1>12. \A s \in Sessions : \A o \in RecvOps(s) : o.conn = s => o \in ops' \/ socket'[s] = "closed"
  <2>1. ASSUME NEW s \in Sessions, NEW o \in RecvOps(s), o.conn = s, o \notin ops' PROVE socket'[s] = "closed"
    <3>1. o \in ops /\ ops' = ops \ S
      BY <1>6 DEF RecvOps, Abort
    <3>2. s \in T
      BY <1>5, <2>1, <3>1
    <3>. QED
      BY <1>4, <3>2
  <2>. QED
    BY <2>1
<1>13. work[w].at # "recvasync"
  BY <1>1
<1>. QED
  BY <1>1, <1>2, <1>7, <1>8, <1>9, <1>10, <1>11, <1>12, <1>13, WorkerCore

\* A flush posts no receive.
LEMMA FlushHears ==
  ASSUME Good, NEW w \in Workers, ~ crashed', ~ stale', Flush(w)
  PROVE  HearInv'
<1> USE DEF Good
<1>1. WorkerThread(w) /\ ~ GetCompletion(w) /\ work[w].at = "flush" /\ ~ crashed
  BY DEF WorkerThread, GetCompletion, Flush, Sane
<1>2. /\ FlushSendBuffer(work[w].target)
      /\ UNCHANGED <<overlapped, m_clients, m_isClosing, recvFailed, handle, socket, port>>
  BY <1>1 DEF Flush, poolVars, historyVars, FlushSendBuffer, crashed
<1>3. PICK t : t = work[w].target
  OBVIOUS
<1>4. t \in Begun /\ t \in Sessions /\ "send" \in Kinds
  BY <1>1, <1>3, BegunIs DEF ServerInv, WorkInv, Kinds
<1>5. overlapped[t]["send"][1] = "send"
  <2>1. overlapped[t]["send"] \in Structures("send") \cup {<<"send", NULL>>}
    BY <1>4 DEF ServerInv, PoolInv, TypeInv
  <2>2. \A o \in Structures("send") : o[1] = "send"
    BY <1>4, StructuresAre
  <2>. QED
    BY <2>1, <2>2
<1>6. UNCHANGED ops \/ \E c : ops' = ops \cup {[data |-> overlapped[t]["send"], of |-> t, conn |-> c]}
  BY <1>2, <1>3 DEF FlushSendBuffer, Post
<1>7. /\ ops \subseteq ops'
      /\ \A o \in ops' : o \in ops \/ (o.of = t /\ o.data = overlapped[t]["send"])
  BY <1>6
<1>8. \A s : RecvOps(s)' = RecvOps(s) /\ RecvDone(s)' = RecvDone(s)
  BY <1>2, <1>5, <1>7 DEF RecvOps, RecvDone
<1>9. \A s \in Sessions : m_IoState'[s]["recv"] = m_IoState[s]["recv"]
  <2>1. UNCHANGED m_IoState \/ m_IoState' = [m_IoState EXCEPT ![t]["send"] = "IO_PENDING"]
    BY <1>2, <1>3 DEF FlushSendBuffer
  <2>. QED
    BY <1>4, <2>1 DEF ServerInv, ListInv, Kinds
<1>10. /\ \A o \in ops' : o.data = overlapped'[o.of][o.data[1]]
       /\ \A i \in 1 .. Len(port') : port'[i].data = overlapped'[port'[i].of][port'[i].data[1]]
  BY <1>2, <1>5, <1>7 DEF HearInv, DataInv
<1>11. HandleInv'
  BY <1>2 DEF HearInv, HandleInv, Up
<1>12. AwaitInv'
  BY <1>1, <1>8, <1>9, AwaitKeeps
<1>13. ClosingInv'
  BY <1>1, <1>2, ClosingKeeps
<1>14. \A s \in Sessions : \A o \in RecvOps(s) : o \in ops'
  BY <1>7 DEF RecvOps
<1>15. work[w].at # "recvasync"
  BY <1>1
<1>. QED
  BY <1>1, <1>2, <1>8, <1>10, <1>11, <1>12, <1>13, <1>14, <1>15, WorkerCore

\* A receive that is dispatched is awaited no longer.
LEMMA DispatchHears ==
  ASSUME Good, NEW w \in Workers, ~ crashed', ~ stale', Dispatch(w)
  PROVE  HearInv'
<1> USE DEF Good
<1>1. WorkerThread(w) /\ ~ GetCompletion(w) /\ work[w].at = "dispatch" /\ ~ Crash
  BY DEF WorkerThread, GetCompletion, Dispatch, Crash, crashed
<1>2. UNCHANGED <<handle, socket, ops, port, overlapped, m_isClosing, recvFailed, m_clients>>
  BY DEF Dispatch, socketVars, poolVars
<1>3. CASE UNCHANGED m_IoState
  BY <1>1, <1>2, <1>3, QuietHears
<1>4. CASE ~ UNCHANGED m_IoState
  <2>1. PICK c : c = work[w].of
    OBVIOUS
  <2>2. /\ m_IoState' = [m_IoState EXCEPT ![c][work[w].data[1]] = "IO_CONNECTED"]
        /\ work' = [work EXCEPT ![w].client = c,
                                ![w].at = IF work[w].data[1] = "recv" THEN "packets" ELSE "isvalid"]
    <3>1. /\ m_IoState' = [m_IoState EXCEPT ![Client[work[w].data]][work[w].data[1]] = "IO_CONNECTED"]
          /\ stale' = (stale \/ Client[work[w].data] # work[w].of)
          /\ work' = [work EXCEPT ![w].client = Client[work[w].data],
                                  ![w].at = IF work[w].data[1] = "recv" THEN "packets" ELSE "isvalid"]
      BY <1>1, <1>4 DEF Dispatch
    <3>2. Client[work[w].data] = c
      BY <2>1, <3>1
    <3>. QED
      BY <3>1, <3>2
  <2>3. work[w].data[1] \in Kinds /\ work[w] \in WorkRecords /\ work \in [Workers -> WorkRecords]
    BY DEF ServerInv, WorkInv, WorkRecords, Overlapped
  <2>4. c \in Sessions
    BY <1>1, <2>1, BegunIs DEF ServerInv, WorkInv
  <2>5. /\ m_IoState \in [Sessions -> [Kinds -> {"IO_NOT_CONNECTED", "IO_CONNECTED", "IO_PENDING"}]]
        /\ "recv" \in Kinds
    BY DEF ServerInv, ListInv, Kinds
  <2>6. \A s : RecvOps(s)' = RecvOps(s) /\ RecvDone(s)' = RecvDone(s)
    BY <1>2 DEF RecvOps, RecvDone
  <2>7. HandleInv' /\ ClosingInv'
    <3>1. HandleInv'
      BY <1>2 DEF HearInv, HandleInv, Up
    <3>2. ClosingInv'
      BY <1>1, <1>2, ClosingKeeps
    <3>. QED
      BY <3>1, <3>2
  <2>8. AwaitInv'
    <3>1. CASE work[w].data[1] = "recv"
      <4>1. \A s \in Sessions : s # c => m_IoState'[s]["recv"] = m_IoState[s]["recv"]
        BY <2>2, <2>3, <2>5
      <4>2. \A s : (\E v \in RecvWork(s)' : work'[v].at \in Early) => \E v \in RecvWork(s) : work[v].at \in Early
        BY <1>1, WorkerReceives
      <4>3. ~ Awaited(c)'
        <5>1. w \in RecvWork(c) /\ One(RecvOps(c), RecvDone(c), RecvWork(c))
          BY <1>1, <2>1, <2>4, <3>1 DEF RecvWork, RecvInv
        <5>2. RecvOps(c) = {} /\ RecvDone(c) = {} /\ \A v \in RecvWork(c) : v = w
          BY <5>1 DEF One
        <5>3. \A v \in Workers : v # w => work'[v] = work[v]
          BY <2>2, <2>3
        <5>4. \A v \in RecvWork(c)' : v = w
          BY <5>2, <5>3 DEF RecvWork
        <5>5. work'[w].at = "packets"
          BY <2>2, <2>3, <3>1 DEF WorkRecords
        <5>6. work'[w].at \notin Early
          BY <5>5 DEF Early
        <5>. QED
          BY <2>6, <5>2, <5>4, <5>6 DEF Awaited
      <4>4. ASSUME NEW s \in Sessions, s # c, Awaited(s)' PROVE Awaited(s)
        BY <2>6, <4>2, <4>4 DEF Awaited
      <4>5. ASSUME NEW s \in Sessions, Awaited(s)' PROVE m_IoState'[s]["recv"] = "IO_PENDING"
        BY <4>1, <4>3, <4>4, <4>5 DEF HearInv, AwaitInv
      <4>. QED
        BY <4>5 DEF AwaitInv
    <3>2. CASE work[w].data[1] # "recv"
      <4>1. \A s \in Sessions : m_IoState'[s]["recv"] = m_IoState[s]["recv"]
        BY <2>2, <2>3, <2>5, <3>2
      <4>. QED
        BY <1>1, <2>6, <4>1, AwaitKeeps
    <3>. QED
      BY <3>1, <3>2
  <2>9. /\ \A o \in ops' : o.data = overlapped'[o.of][o.data[1]]
        /\ \A i \in 1 .. Len(port') : port'[i].data = overlapped'[port'[i].of][port'[i].data[1]]
    BY <1>2 DEF HearInv, DataInv
  <2>10. \A s : \A o \in RecvOps(s) : o \in ops'
    BY <1>2 DEF RecvOps
  <2>11. work[w].at # "recvasync"
    BY <1>1
  <2>. QED
    BY <1>1, <1>2, <2>6, <2>7, <2>8, <2>9, <2>10, <2>11, WorkerCore
<1>. QED
  BY <1>3, <1>4

\* A worker that is done with a receive posts the next one.
LEMMA NextReceiveHears ==
  ASSUME Good, NEW w \in Workers, ~ crashed', ~ stale', NextReceive(w)
  PROVE  HearInv'
<1> USE DEF Good
<1>1. WorkerThread(w) /\ ~ GetCompletion(w) /\ work[w].at = "recvasync"
  BY DEF WorkerThread, GetCompletion, NextReceive
<1>2. UNCHANGED <<handle, socket, port, overlapped, m_isClosing, m_clients>> /\ RecvAsync(work[w].client)
  BY DEF NextReceive, poolVars
<1>3. PICK c : c = work[w].of
  OBVIOUS
<1>4. work[w].client = c /\ c \in Sessions
  <2>1. work[w].at \in Serving
    BY <1>1 DEF Serving
  <2>. QED
    BY <1>1, <1>3, <2>1, BegunIs DEF RecvInv, ServerInv, WorkInv
<1>5. RecvAsync(c)
  BY <1>2, <1>4
<1>6. /\ \/ c \in recvFailed' \/ socket'[c] = "closed"
         \/ \E o \in RecvOps(c)' : o.conn = c
      /\ recvFailed \subseteq recvFailed' /\ ops \subseteq ops'
      /\ \A o \in ops' : o \in ops \/ (o.of = c /\ o.data = overlapped[c]["recv"] /\ o.data[1] = "recv")
  BY <1>2, <1>4, <1>5, PostedHears
<1>7. HandleInv'
  BY <1>2 DEF HearInv, HandleInv, Up
<1>8. ClosingInv'
  BY <1>1, <1>2, ClosingKeeps
<1>9. AwaitInv'
  <2>1. m_IoState' = [m_IoState EXCEPT ![c]["recv"] = "IO_PENDING"]
    BY <1>5 DEF RecvAsync
  <2>2. m_IoState \in [Sessions -> [Kinds -> {"IO_NOT_CONNECTED", "IO_CONNECTED", "IO_PENDING"}]] /\ "recv" \in Kinds
    BY DEF ServerInv, ListInv, Kinds
  <2>3. /\ m_IoState'[c]["recv"] = "IO_PENDING"
        /\ \A s \in Sessions : s # c => m_IoState'[s]["recv"] = m_IoState[s]["recv"]
    BY <1>4, <2>1, <2>2
  <2>4. \A s : (\E v \in RecvWork(s)' : work'[v].at \in Early) => \E v \in RecvWork(s) : work[v].at \in Early
    BY <1>1, WorkerReceives
  <2>5. \A s : RecvDone(s)' = RecvDone(s)
    BY <1>2 DEF RecvDone
  <2>6. \A s : s # c => RecvOps(s)' \subseteq RecvOps(s)
    BY <1>6 DEF RecvOps
  <2>7. ASSUME NEW s \in Sessions, s # c, Awaited(s)' PROVE Awaited(s)
    BY <2>4, <2>5, <2>6, <2>7 DEF Awaited
  <2>8. ASSUME NEW s \in Sessions, Awaited(s)' PROVE m_IoState'[s]["recv"] = "IO_PENDING"
    BY <2>3, <2>7, <2>8 DEF HearInv, AwaitInv
  <2>. QED
    BY <2>8 DEF AwaitInv
<1>10. \A o \in ops' : o.data = overlapped'[o.of][o.data[1]]
  BY <1>2, <1>6 DEF HearInv, DataInv
<1>11. \A i \in 1 .. Len(port') : port'[i].data = overlapped'[port'[i].of][port'[i].data[1]]
  BY <1>2 DEF HearInv, DataInv
<1>12. /\ \A s \in Sessions : \A o \in RecvOps(s) : o \in ops'
       /\ \A s \in Sessions : RecvDone(s) # {} => RecvDone(s)' # {}
  BY <1>2, <1>6 DEF RecvOps, RecvDone
<1>13. \A s \in m_clients : work[w].of = s => Heard(s)'
  BY <1>3, <1>6 DEF Heard
<1>. QED
  BY <1>1, <1>2, <1>6, <1>7, <1>8, <1>9, <1>10, <1>11, <1>12, <1>13, WorkerCore

\* A session is closing when a worker has torn it down, or goes on to do so.
LEMMA SetClosingHears ==
  ASSUME Good, NEW w \in Workers, ~ crashed', ~ stale', SetClosing(w)
  PROVE  HearInv'
<1> USE DEF Good
<1>1. WorkerThread(w) /\ ~ GetCompletion(w) /\ work[w].at \in {"closing", "closingSelf"}
  BY DEF WorkerThread, GetCompletion, SetClosing
<1>2. UNCHANGED <<handle, socket, ops, port, overlapped, m_IoState, recvFailed, m_clients, accepted, main>>
  BY DEF SetClosing, socketVars, poolVars, historyVars
<1>3. PICK c : c = work[w].client
  OBVIOUS
<1>4. m_isClosing' = [m_isClosing EXCEPT ![c] = TRUE]
  BY <1>3 DEF SetClosing
<1>5. c \in Begun /\ c \in Sessions
  <2>1. work[w].at \in TornDown \/ work[w].at \in Serving
    BY <1>1 DEF TornDown, Serving
  <2>2. c \in Begun
    BY <1>3, <2>1 DEF ServerInv, TearInv, WorkInv, Sane
  <2>. QED
    BY <2>2, BegunIs DEF ServerInv
<1>6. m_isClosing \in [Sessions -> BOOLEAN]
  BY DEF HearInv, HandleInv
<1>7. m_isClosing' \in [Sessions -> BOOLEAN] /\ \A s \in Sessions : s # c => m_isClosing'[s] = m_isClosing[s]
  BY <1>4, <1>5, <1>6
<1>8. HandleInv'
  BY <1>2, <1>7 DEF HearInv, HandleInv, Up
<1>9. ClosingInv'
  <2>1. \A s \in m_clients : m_isClosing[s] /\ (\E v \in RecvWork(s) : work[v].at # "recvasync") =>
          \E v \in RecvWork(s)' : work'[v].at # "recvasync"
    BY <1>1, WorkerReceives
  <2>2. Begun' = Begun
    BY <1>2 DEF Begun
  <2>3. ASSUME NEW s \in Sessions, m_isClosing[s]
        PROVE  s \in Begun /\ (s \in m_clients => \E v \in RecvWork(s)' : work'[v].at # "recvasync")
    BY <2>1, <2>3 DEF HearInv, ClosingInv
  <2>4. c \in m_clients => \E v \in RecvWork(c)' : work'[v].at # "recvasync"
    <3>1. CASE work[w].at = "closing"
      <4>1. c \notin m_clients
        BY <1>3, <3>1, TearingUnlisted DEF TornDown
      <4>. QED
        BY <4>1
    <3>2. CASE work[w].at = "closingSelf"
      <4>1. work[w] \in WorkRecords /\ work \in [Workers -> WorkRecords]
        BY DEF ServerInv, WorkInv
      <4>2. work' = [work EXCEPT ![w].at = "packets"]
        BY <3>2 DEF SetClosing, Goto
      <4>3. work'[w].at = "packets" /\ work'[w].of = work[w].of /\ work'[w].data = work[w].data
        BY <4>1, <4>2 DEF WorkRecords
      <4>4. work[w].data[1] = "recv" /\ work[w].client = work[w].of
        BY <3>2 DEF HearInv, TurnInv, Turn, RecvInv, Serving
      <4>5. w \in RecvWork(c)'
        BY <1>3, <4>3, <4>4 DEF RecvWork
      <4>. QED
        BY <4>3, <4>5
    <3>. QED
      BY <1>1, <3>1, <3>2
  <2>5. ASSUME NEW s \in Sessions, m_isClosing'[s]
        PROVE  s \in Begun' /\ (s \in m_clients' => \E v \in RecvWork(s)' : work'[v].at # "recvasync")
    BY <1>2, <1>5, <1>7, <2>2, <2>3, <2>4, <2>5
  <2>. QED
    BY <2>5 DEF ClosingInv
<1>10. \A s : RecvOps(s)' = RecvOps(s) /\ RecvDone(s)' = RecvDone(s)
  BY <1>2 DEF RecvOps, RecvDone
<1>11. AwaitInv'
  BY <1>1, <1>2, <1>10, AwaitKeeps
<1>12. /\ \A o \in ops' : o.data = overlapped'[o.of][o.data[1]]
       /\ \A i \in 1 .. Len(port') : port'[i].data = overlapped'[port'[i].of][port'[i].data[1]]
  BY <1>2 DEF HearInv, DataInv
<1>13. \A s : \A o \in RecvOps(s) : o \in ops'
  BY <1>2 DEF RecvOps
<1>14. work[w].at # "recvasync"
  BY <1>1
<1>. QED
  BY <1>1, <1>2, <1>8, <1>9, <1>10, <1>11, <1>12, <1>13, <1>14, WorkerCore

\* Every step of a worker on its completion.
LEMMA WorkerHears ==
  ASSUME Good, NEW w \in Workers, ~ crashed', ~ stale', WorkerThread(w), ~ GetCompletion(w)
  PROVE  HearInv'
<1>1. ASSUME UNCHANGED <<socketVars, m_IoState, m_isClosing, recvFailed>>,
             m_clients' \subseteq m_clients, work[w].at # "recvasync"
      PROVE  HearInv'
  <2>1. UNCHANGED <<handle, socket, ops, port, m_IoState, m_isClosing, recvFailed>>
    BY <1>1 DEF socketVars
  <2>. QED
    BY <1>1, <2>1, QuietHears
<1>2. CASE \/ FailedCompletion(w) \/ ExpiredTest(w) \/ ClientTest(w) \/ Broadcast(w) \/ Relay(w)
           \/ EndOfPackets(w) \/ IsValid(w) \/ CloseSession(w) \/ RemoveTcpClient(w)
  <2>1. /\ UNCHANGED <<socketVars, m_IoState, m_isClosing, recvFailed>>
        /\ m_clients' \subseteq m_clients /\ work[w].at # "recvasync"
    <3> USE <1>2 DEF FailedCompletion, ExpiredTest, ClientTest, Broadcast, Relay, EndOfPackets,
                     IsValid, CloseSession, RemoveTcpClient
    <3>1. UNCHANGED <<socketVars, m_IoState>>
      BY Zenon
    <3>2. UNCHANGED m_isClosing
      BY Zenon
    <3>3. UNCHANGED recvFailed
      BY Zenon DEF historyVars
    <3>4. m_clients' \subseteq m_clients
      BY Zenon
    <3>5. work[w].at # "recvasync"
      BY Zenon
    <3>. QED
      BY ONLY <3>1, <3>2, <3>3, <3>4, <3>5
  <2>. QED
    BY <1>1, <2>1
<1>3. ASSUME NEW k \in Kinds, Disown(w, k) \/ Enqueue(w, k) PROVE HearInv'
  <2>1. /\ UNCHANGED <<socketVars, m_IoState, m_isClosing, recvFailed>>
        /\ m_clients' \subseteq m_clients /\ work[w].at \in {DisownAt[k], EnqueueAt[k]}
    BY <1>3 DEF Disown, Enqueue, historyVars
  <2>2. work[w].at # "recvasync"
    BY <2>1 DEF DisownAt, EnqueueAt, Kinds
  <2>. QED
    BY <1>1, <2>1, <2>2
<1>. QED
  BY <1>2, <1>3, DispatchHears, FlushHears, CloseHears, NextReceiveHears, SetClosingHears DEF WorkerThread


\* A receive moves from the port to a worker.
LEMMA GetCompletionHears ==
  ASSUME Good, NEW w \in Workers, GetCompletion(w)
  PROVE  HearInv'
<1> USE DEF Good
<1> DEFINE e == Head(port)
<1>1. /\ work[w].at = "idle" /\ port # << >> /\ port' = Tail(port)
      /\ work' = [work EXCEPT ![w] = [Idle EXCEPT !.at = IF e.ok THEN "expired?" ELSE "failed",
                                                  !.data = e.data, !.of = e.of]]
      /\ UNCHANGED <<accepted, main, overlapped, ops, handle, socket, m_clients, m_IoState, recvFailed, bindFailed>>
  BY DEF GetCompletion, poolVars, historyVars
<1>2. UNCHANGED m_isClosing
  BY Zenon DEF GetCompletion
<1>3. /\ work'[w].at \in {"expired?", "failed"} /\ work'[w].of = e.of /\ work'[w].data = e.data
      /\ \A v \in Workers : v # w => work'[v] = work[v]
  BY <1>1 DEF Idle, ServerInv, WorkInv
<1>4. port \in Seq([data : Overlapped, of : Numbers, ok : BOOLEAN])
  BY DEF ServerInv, NetInv
<1>5. /\ 1 \in 1 .. Len(port) /\ e = port[1]
      /\ \A i \in 1 .. Len(port') : i + 1 \in 1 .. Len(port) /\ port'[i] = port[i + 1]
      /\ \A i \in 1 .. Len(port) : i = 1 \/ i - 1 \in 1 .. Len(port')
  BY <1>1, <1>4, HeadTailProperties
<1> HIDE DEF e
<1>6. ASSUME NEW s
      PROVE  /\ RecvOps(s)' = RecvOps(s)
             /\ RecvDone(s)' # {} => RecvDone(s) # {}
             /\ w \notin RecvWork(s) /\ (w \in RecvWork(s)' => RecvDone(s) # {})
             /\ \A v : v # w => (v \in RecvWork(s)' <=> v \in RecvWork(s))
             /\ RecvDone(s) # {} => w \in RecvWork(s)' \/ RecvDone(s)' # {}
  <2>1. RecvOps(s)' = RecvOps(s)
    BY <1>1 DEF RecvOps
  <2>2. \A i \in RecvDone(s)' : i + 1 \in RecvDone(s)
    BY <1>5 DEF RecvDone
  <2>3. 1 \in RecvDone(s) <=> e.of = s /\ e.data[1] = "recv"
    BY <1>5 DEF RecvDone
  <2>4. w \notin RecvWork(s) /\ (w \in RecvWork(s)' <=> 1 \in RecvDone(s))
    BY <1>1, <1>3, <2>3 DEF RecvWork
  <2>5. \A v : v # w => (v \in RecvWork(s)' <=> v \in RecvWork(s))
    BY <1>3 DEF RecvWork
  <2>6. ASSUME NEW i \in RecvDone(s), i # 1 PROVE i - 1 \in RecvDone(s)'
    <3>1. i \in 1 .. Len(port) /\ i \in Int /\ port[i].of = s /\ port[i].data[1] = "recv"
      BY DEF RecvDone
    <3>2. i - 1 \in 1 .. Len(port') /\ port'[i - 1] = port[(i - 1) + 1]
      BY <1>5, <2>6, <3>1
    <3>3. (i - 1) + 1 = i
      BY <3>1
    <3>. QED
      BY <3>1, <3>2, <3>3 DEF RecvDone
  <2>7. RecvDone(s) # {} => w \in RecvWork(s)' \/ RecvDone(s)' # {}
    BY <2>4, <2>6
  <2>. QED
    BY <2>1, <2>2, <2>4, <2>5, <2>7
<1>7. HandleInv'
  BY <1>1, <1>2 DEF HearInv, HandleInv, Up
<1>8. DataInv'
  <2>1. \A o \in ops' : o.data = overlapped'[o.of][o.data[1]]
    BY <1>1 DEF HearInv, DataInv
  <2>2. \A i \in 1 .. Len(port') : port'[i].data = overlapped'[port'[i].of][port'[i].data[1]]
    BY <1>1, <1>5 DEF HearInv, DataInv
  <2>3. e.data = overlapped[e.of][e.data[1]]
    BY <1>5 DEF HearInv, DataInv
  <2>4. \A v \in Workers : work'[v].at # "idle" => work'[v].data = overlapped'[work'[v].of][work'[v].data[1]]
    BY <1>1, <1>3, <2>3 DEF HearInv, DataInv
  <2>. QED
    BY <2>1, <2>2, <2>4 DEF DataInv
<1>9. TurnInv'
  <2>1. ASSUME NEW v \in Workers, v # w PROVE Turn(v)'
    BY <1>3, <2>1 DEF HearInv, TurnInv, Turn
  <2>2. Turn(w)'
    BY <1>3 DEF Turn, Tearing, TornDown
  <2>. QED
    BY <2>1, <2>2 DEF TurnInv
<1>10. AwaitInv'
  <2>1. ASSUME NEW s \in Sessions, Awaited(s)' PROVE Awaited(s)
    <3>1. ASSUME NEW v \in RecvWork(s)', work'[v].at \in Early, v # w
          PROVE  v \in RecvWork(s) /\ work[v].at \in Early
      BY <1>3, <1>6, <3>1 DEF RecvWork
    <3>. QED
      BY <1>6, <2>1, <3>1 DEF Awaited
  <2>. QED
    BY <1>1, <2>1 DEF HearInv, AwaitInv
<1>11. ClosingInv'
  <2>1. Begun' = Begun
    BY <1>1 DEF Begun
  <2>2. ASSUME NEW s, NEW v \in RecvWork(s), work[v].at # "recvasync"
        PROVE  v \in RecvWork(s)' /\ work'[v].at # "recvasync"
    <3>1. v # w /\ v \in Workers
      BY <1>6 DEF RecvWork
    <3>. QED
      BY <1>3, <1>6, <2>2, <3>1
  <2>3. ASSUME NEW s \in Sessions, m_isClosing'[s]
        PROVE  s \in Begun' /\ (s \in m_clients' => \E v \in RecvWork(s)' : work'[v].at # "recvasync")
    <3>1. s \in Begun /\ (s \in m_clients => \E v \in RecvWork(s) : work[v].at # "recvasync")
      BY <1>2, <2>3 DEF HearInv, ClosingInv
    <3>. QED
      BY <1>1, <2>1, <2>2, <3>1
  <2>. QED
    BY <2>3 DEF ClosingInv
<1>12. HeardInv'
  <2>1. ASSUME NEW s, Heard(s) PROVE Heard(s)'
    BY <1>1, <1>6, <2>1 DEF Heard
  <2>. QED
    BY <1>1, <2>1 DEF HearInv, HeardInv
<1>. QED
  BY <1>7, <1>8, <1>9, <1>10, <1>11, <1>12 DEF HearInv

\* A step of the kernel, when it is known what it does to the operations and the
\* sockets.
LEMMA NetHears ==
  ASSUME Good, UNCHANGED <<accepted, main, overlapped, m_clients, m_IoState, work, recvFailed, bindFailed>>,
         UNCHANGED m_isClosing, HandleInv',
         \A o \in ops' : o.data = overlapped'[o.of][o.data[1]],
         \A i \in 1 .. Len(port') : port'[i].data = overlapped'[port'[i].of][port'[i].data[1]],
         \A s \in Sessions : socket[s] = "closed" => socket'[s] = "closed",
         \A s : RecvOps(s)' \subseteq RecvOps(s),
         \A s : RecvDone(s) # {} => RecvDone(s)' # {},
         \A s : RecvDone(s)' # {} => RecvDone(s) # {} \/ RecvOps(s) # {},
         \A s : \A o \in RecvOps(s) : o.conn = s => o \in RecvOps(s)' \/ Unbound(s) \/ RecvDone(s)' # {}
  PROVE  HearInv'
<1> USE DEF Good
<1>1. \A s : RecvWork(s)' = RecvWork(s)
  BY DEF RecvWork
<1>2. DataInv'
  BY DEF HearInv, DataInv
<1>3. TurnInv'
  BY DEF HearInv, TurnInv, Turn
<1>4. AwaitInv'
  <2>1. ASSUME NEW s \in Sessions, Awaited(s)' PROVE Awaited(s)
    BY <1>1, <2>1 DEF Awaited
  <2>. QED
    BY <2>1 DEF HearInv, AwaitInv
<1>5. ClosingInv'
  <2>1. Begun' = Begun
    BY DEF Begun
  <2>. QED
    BY <1>1, <2>1 DEF HearInv, ClosingInv
<1>6. HeardInv'
  <2>1. SUFFICES ASSUME NEW s \in m_clients, ~ (s = accepted /\ main # "accept") PROVE Heard(s)'
    BY DEF HeardInv
  <2>2. s \in Sessions /\ Heard(s)
    BY <2>1, BegunIs DEF HearInv, HeardInv, ServerInv, ListInv
  <2>3. ~ Unbound(s) \/ s \in bindFailed
    BY <2>1 DEF Unbound
  <2>4. CASE \E o \in RecvOps(s) : o.conn = s
    <3>1. PICK o \in RecvOps(s) : o.conn = s
      BY <2>4
    <3>2. o \in RecvOps(s)' \/ RecvDone(s)' # {} \/ s \in bindFailed'
      BY <2>3, <3>1
    <3>. QED
      BY <3>1, <3>2 DEF Heard
  <2>5. CASE ~ \E o \in RecvOps(s) : o.conn = s
    BY <1>1, <2>2, <2>5 DEF Heard
  <2>. QED
    BY <2>4, <2>5
<1>. QED
  BY <1>2, <1>3, <1>4, <1>5, <1>6 DEF HearInv

\* An operation ends, and the port hears of it if the socket is bound.
LEMMA CompleteHears ==
  ASSUME Good, Complete
  PROVE  HearInv'
<1> USE DEF Good
<1>1. PICK o \in ops, ok \in BOOLEAN :
        /\ ops' = ops \ {o}
        /\ port' = IF Unbound(o.conn) THEN port
                   ELSE Append(port, [data |-> o.data, of |-> o.of, ok |-> ok])
  BY DEF Complete
<1>2. UNCHANGED <<accepted, main, overlapped, m_clients, m_IoState, work, recvFailed, bindFailed, handle, socket>>
  BY DEF Complete, poolVars, historyVars
<1>3. UNCHANGED m_isClosing
  BY Zenon DEF Complete
<1>4. HandleInv'
  BY <1>2, <1>3 DEF HearInv, HandleInv, Up
<1>5. port \in Seq([data : Overlapped, of : Numbers, ok : BOOLEAN]) /\ Len(port) \in Nat
  BY DEF ServerInv, NetInv
<1>6. \A s : RecvOps(s)' = RecvOps(s) \ {o}
  BY <1>1 DEF RecvOps
<1>7. \A p \in ops' : p.data = overlapped'[p.of][p.data[1]]
  BY <1>1, <1>2 DEF HearInv, DataInv
<1>8. CASE Unbound(o.conn)
  <2>1. UNCHANGED port
    BY <1>1, <1>8
  <2>2. \A s : RecvDone(s)' = RecvDone(s)
    BY <2>1 DEF RecvDone
  <2>3. \A i \in 1 .. Len(port') : port'[i].data = overlapped'[port'[i].of][port'[i].data[1]]
    BY <1>2, <2>1 DEF HearInv, DataInv
  <2>4. \A s : \A p \in RecvOps(s) : p.conn = s => p \in RecvOps(s)' \/ Unbound(s)
    BY <1>6, <1>8
  <2>. QED
    BY <1>2, <1>3, <1>4, <1>6, <1>7, <2>2, <2>3, <2>4, NetHears
<1>9. CASE ~ Unbound(o.conn)
  <2>1. PICK x : x = [data |-> o.data, of |-> o.of, ok |-> ok]
    OBVIOUS
  <2>2. x.data = o.data /\ x.of = o.of
    BY <2>1
  <2>3. port' = Append(port, x)
    BY <1>1, <1>9, <2>1
  <2>4. /\ Len(port') = Len(port) + 1 /\ port'[Len(port) + 1] = x
        /\ \A i \in 1 .. Len(port) : port'[i] = port[i]
    BY <1>5, <2>3
  <2>5. \A i \in 1 .. Len(port') : i \in 1 .. Len(port) \/ i = Len(port) + 1
    BY <1>5, <2>4
  <2>6. /\ \A i \in 1 .. Len(port) : i \in 1 .. Len(port')
        /\ Len(port) + 1 \in 1 .. Len(port')
    BY <1>5, <2>4
  <2>7. \A i \in 1 .. Len(port') : port'[i].data = overlapped'[port'[i].of][port'[i].data[1]]
    <3>1. x.data = overlapped[x.of][x.data[1]]
      BY <1>1, <2>2 DEF HearInv, DataInv
    <3>. QED
      BY <1>2, <2>4, <2>5, <3>1 DEF HearInv, DataInv
  <2>8. \A s : RecvDone(s) \subseteq RecvDone(s)'
    BY <2>4, <2>6 DEF RecvDone
  <2>9. ASSUME NEW s, o \in RecvOps(s) PROVE RecvDone(s)' # {}
    <3>1. Len(port) + 1 \in RecvDone(s)'
      BY <2>2, <2>4, <2>6, <2>9 DEF RecvDone, RecvOps
    <3>. QED
      BY <3>1
  <2>10. ASSUME NEW s, RecvDone(s)' # {}, RecvDone(s) = {} PROVE RecvOps(s) # {}
    <3>1. PICK i \in RecvDone(s)' : i \notin RecvDone(s)
      BY <2>10
    <3>2. i = Len(port) + 1 /\ x.of = s /\ x.data[1] = "recv"
      BY <2>4, <2>5, <3>1 DEF RecvDone
    <3>. QED
      BY <1>1, <2>2, <3>2 DEF RecvOps
  <2>11. \A s : \A p \in RecvOps(s) : p \in RecvOps(s)' \/ RecvDone(s)' # {}
    BY <1>6, <2>9
  <2>. QED
    BY <1>2, <1>3, <1>4, <1>6, <1>7, <2>7, <2>8, <2>10, <2>11, NetHears
<1>. QED
  BY <1>8, <1>9

\* A reset ends the operations of one connection.
LEMMA PeerResetHears ==
  ASSUME Good, PeerReset
  PROVE  HearInv'
<1> USE DEF Good
<1>1. PICK t \in Sessions :
        /\ socket[t] = "open"
        /\ socket' = [socket EXCEPT ![t] = "reset"]
        /\ Abort({o \in ops : o.conn = t})
  BY DEF PeerReset
<1>2. UNCHANGED <<accepted, main, overlapped, m_clients, m_IoState, work, recvFailed, bindFailed, handle>>
  BY DEF PeerReset, poolVars, historyVars
<1>3. UNCHANGED m_isClosing
  BY Zenon DEF PeerReset
<1>4. PICK S : S = {o \in ops : o.conn = t}
  OBVIOUS
<1>5. S \in SUBSET ops /\ Abort(S)
  BY <1>1, <1>4
<1>6. /\ \A s : RecvOps(s)' = RecvOps(s) \ S
      /\ \A s : RecvDone(s) # {} => RecvDone(s)' # {}
      /\ \A s : RecvDone(s)' # {} => RecvDone(s) # {} \/ RecvOps(s) # {}
      /\ \A s : \A o \in RecvOps(s) \cap S : Unbound(o.conn) \/ RecvDone(s)' # {}
      /\ \A o \in ops' : o.data = overlapped'[o.of][o.data[1]]
      /\ \A i \in 1 .. Len(port') : port'[i].data = overlapped'[port'[i].of][port'[i].data[1]]
  BY <1>2, <1>5, AbortPort DEF HearInv
<1>7. HandleInv'
  <2>1. socket \in [Sessions -> {"none", "open", "reset", "closed"}]
    BY DEF HearInv, HandleInv
  <2>2. /\ socket' \in [Sessions -> {"none", "open", "reset", "closed"}]
        /\ \A s \in Sessions : socket'[s] = "none" => socket[s] = "none"
    BY <1>1, <2>1
  <2>3. \A s \in Sessions : Up(s)' => Up(s)
    BY <1>1, <2>1 DEF Up
  <2>. QED
    BY <1>2, <1>3, <2>2, <2>3 DEF HearInv, HandleInv
<1>8. \A s \in Sessions : socket[s] = "closed" => socket'[s] = "closed"
  BY <1>1 DEF HearInv, HandleInv
<1>9. \A s : \A o \in RecvOps(s) : o.conn = s => o \in RecvOps(s)' \/ Unbound(s) \/ RecvDone(s)' # {}
  BY <1>6
<1>10. \A s : RecvOps(s)' \subseteq RecvOps(s)
  BY <1>6
<1>. QED
  BY <1>2, <1>3, <1>6, <1>7, <1>8, <1>9, <1>10, NetHears


\* A step of the main thread, when it is known what it does to the sessions.
LEMMA MainHears ==
  ASSUME Good, UNCHANGED <<port, work, m_isClosing>>, HandleInv', AwaitInv', Begun \subseteq Begun',
         \A s \in Begun : overlapped'[s] = overlapped[s],
         ops \subseteq ops', \A o \in ops' : o \in ops \/ o.data = overlapped'[o.of][o.data[1]],
         recvFailed \subseteq recvFailed', bindFailed \subseteq bindFailed',
         \A s \in m_clients' : s \in m_clients \/ s \notin Begun,
         \A s \in m_clients' :
           \/ s = accepted' /\ main' # "accept"
           \/ Heard(s)'
           \/ s \in m_clients /\ ~ (s = accepted /\ main # "accept") /\ socket'[s] = socket[s]
  PROVE  HearInv'
<1> USE DEF Good
<1>1. \A s : RecvWork(s)' = RecvWork(s) /\ RecvDone(s)' = RecvDone(s) /\ RecvOps(s) \subseteq RecvOps(s)'
  BY DEF RecvWork, RecvDone, RecvOps
<1>2. DataInv'
  <2>1. \A o \in ops : o.of \in Begun
    BY DEF ServerInv, NetInv
  <2>2. \A i \in 1 .. Len(port) : port[i].of \in Begun
    BY DEF ServerInv, NetInv
  <2>3. \A w \in Workers : work[w].at # "idle" => work[w].of \in Begun
    BY DEF ServerInv, WorkInv, Sane
  <2>4. \A o \in ops' : o.data = overlapped'[o.of][o.data[1]]
    BY <2>1 DEF HearInv, DataInv
  <2>5. \A i \in 1 .. Len(port') : port'[i].data = overlapped'[port'[i].of][port'[i].data[1]]
    BY <2>2 DEF HearInv, DataInv
  <2>6. \A w \in Workers : work'[w].at # "idle" => work'[w].data = overlapped'[work'[w].of][work'[w].data[1]]
    BY <2>3 DEF HearInv, DataInv
  <2>. QED
    BY <2>4, <2>5, <2>6 DEF DataInv
<1>3. TurnInv'
  BY DEF HearInv, TurnInv, Turn
<1>4. ClosingInv'
  <2>1. ASSUME NEW s \in Sessions, m_isClosing[s]
        PROVE  s \in Begun /\ (s \in m_clients => \E w \in RecvWork(s) : work[w].at # "recvasync")
    BY <2>1 DEF HearInv, ClosingInv
  <2>2. ASSUME NEW s \in Sessions, m_isClosing[s]
        PROVE  s \in Begun' /\ (s \in m_clients' => \E w \in RecvWork(s)' : work'[w].at # "recvasync")
    BY <1>1, <2>1, <2>2
  <2>. QED
    BY <2>2 DEF ClosingInv
<1>5. HeardInv'
  <2>1. ASSUME NEW s \in m_clients, ~ (s = accepted /\ main # "accept"), socket'[s] = socket[s]
        PROVE  Heard(s)'
    <3>1. Heard(s)
      BY <2>1 DEF HearInv, HeardInv
    <3>. QED
      BY <1>1, <2>1, <3>1 DEF Heard
  <2>. QED
    BY <2>1 DEF HeardInv
<1>. QED
  BY <1>2, <1>3, <1>4, <1>5 DEF HearInv

\* What is awaited stays so while nothing is posted and IO_STATE stays.
LEMMA AwaitStays ==
  ASSUME AwaitInv, UNCHANGED <<ops, port, work>>,
         \A s \in Sessions : Awaited(s) => m_IoState'[s]["recv"] = m_IoState[s]["recv"]
  PROVE  AwaitInv'
<1>1. \A s : RecvWork(s)' = RecvWork(s) /\ RecvDone(s)' = RecvDone(s) /\ RecvOps(s)' = RecvOps(s)
  BY DEF RecvWork, RecvDone, RecvOps
<1>2. ASSUME NEW s, Awaited(s)' PROVE Awaited(s)
  BY <1>1, <1>2 DEF Awaited
<1>. QED
  BY <1>2 DEF AwaitInv

\* accept() returns a handle that no connection has.
LEMMA AcceptHears ==
  ASSUME Good, Accept
  PROVE  HearInv'
<1> USE DEF Good
<1>1. /\ main = "accept" /\ accepted < MaxSessions /\ accepted' = accepted + 1 /\ main' = "takeRecv"
      /\ UNCHANGED <<overlapped, recvFailed, bindFailed, m_clients, m_IoState, ops, port, work>>
  BY DEF Accept, poolVars, historyVars
<1>2. UNCHANGED m_isClosing
  BY Zenon DEF Accept
<1>3. accepted \in Nat /\ accepted + 1 \in Sessions
  BY <1>1, BoundsAssumption DEF ServerInv, PoolInv, TypeInv, Numbers, Sessions
<1>4. /\ \A s \in Sessions : s # accepted + 1 => socket'[s] = socket[s]
      /\ HandleInv'
  <2>1. CASE UNCHANGED <<handle, socket>>
    BY <1>2, <2>1 DEF HearInv, HandleInv, Up
  <2>2. CASE ~ UNCHANGED <<handle, socket>>
    <3>1. PICK h \in Sessions :
            /\ Owner(h) = {}
            /\ handle' = [handle EXCEPT ![accepted + 1] = h]
            /\ socket' = [socket EXCEPT ![accepted + 1] = "open"]
      BY <2>2 DEF Accept
    <3>2. PICK n : n = accepted + 1
      OBVIOUS
    <3>3. /\ handle \in [Sessions -> Numbers] /\ socket \in [Sessions -> {"none", "open", "reset", "closed"}]
          /\ n \in Sessions /\ h \in Numbers /\ h # 0
      BY <1>3, <3>2, BoundsAssumption DEF HearInv, HandleInv, Numbers, Sessions
    <3>4. /\ handle' \in [Sessions -> Numbers] /\ socket' \in [Sessions -> {"none", "open", "reset", "closed"}]
          /\ handle'[n] = h /\ socket'[n] = "open"
          /\ \A s \in Sessions : s # n => handle'[s] = handle[s] /\ socket'[s] = socket[s]
      BY <3>1, <3>2, <3>3
    <3>5. \A t \in Sessions : Up(t) => handle[t] # h
      BY <3>1 DEF Owner, Up
    <3>6. \A s \in Sessions : s # n => (Up(s)' <=> Up(s))
      BY <3>4 DEF Up
    <3>7. \A s, t \in Sessions : Up(s)' /\ Up(t)' /\ handle'[s] = handle'[t] => s = t
      <4>1. SUFFICES ASSUME NEW s \in Sessions, NEW t \in Sessions, Up(s)', Up(t)', handle'[s] = handle'[t], s # t
                     PROVE  FALSE
        OBVIOUS
      <4>2. CASE s = n
        BY <3>4, <3>5, <3>6, <4>1, <4>2
      <4>3. CASE t = n
        BY <3>4, <3>5, <3>6, <4>1, <4>3
      <4>4. CASE s # n /\ t # n
        BY <3>4, <3>6, <4>1, <4>4 DEF HearInv, HandleInv
      <4>. QED
        BY <4>2, <4>3, <4>4
    <3>8. \A s \in Sessions : (socket'[s] = "none" => handle'[s] = 0) /\ (Up(s)' => handle'[s] # 0)
      <4>1. SUFFICES ASSUME NEW s \in Sessions
                     PROVE  (socket'[s] = "none" => handle'[s] = 0) /\ (Up(s)' => handle'[s] # 0)
        OBVIOUS
      <4>2. CASE s = n
        BY <3>3, <3>4, <4>2
      <4>3. CASE s # n
        BY <3>4, <3>6, <4>3 DEF HearInv, HandleInv
      <4>. QED
        BY <4>2, <4>3
    <3>9. m_isClosing' \in [Sessions -> BOOLEAN]
      BY <1>2 DEF HearInv, HandleInv
    <3>. QED
      BY <3>2, <3>4, <3>7, <3>8, <3>9 DEF HandleInv
  <2>. QED
    BY <2>1, <2>2
<1>5. AwaitInv'
  BY <1>1, AwaitStays DEF HearInv
<1>6. Begun \subseteq Begun'
  BY <1>1, <1>3 DEF Begun
<1>7. \A s \in m_clients : s \in Sessions /\ s # accepted + 1
  <2>1. m_clients \subseteq Begun /\ Begun \subseteq 1 .. accepted /\ 1 .. accepted \subseteq Sessions
    BY BegunIs DEF ServerInv, ListInv
  <2>. QED
    BY <1>3, <2>1
<1>. QED
  BY <1>1, <1>2, <1>4, <1>5, <1>6, <1>7, MainHears

\* A session that is being made has no operation that could use a structure.
LEMMA TakeHears ==
  ASSUME Good, TakeRecvOverlapped \/ TakeSendOverlapped
  PROVE  HearInv'
<1> USE DEF Good
<1>1. /\ main \in {"takeRecv", "takeSend"} /\ main' \in {"takeSend", "add"}
      /\ \E k \in Kinds : TakeOverlapped(accepted, k)
      /\ UNCHANGED <<accepted, recvFailed, bindFailed, m_clients, m_IoState, ops, port, work, handle,
                     socket>>
  BY DEF TakeRecvOverlapped, TakeSendOverlapped, socketVars, historyVars, Kinds
<1>2. UNCHANGED m_isClosing
  BY Zenon DEF TakeRecvOverlapped, TakeSendOverlapped
<1>3. Begun' = Begun /\ accepted \notin Begun
  BY <1>1 DEF Begun, ServerInv, PoolInv, TypeInv, Numbers
<1>4. \A s \in Begun : overlapped'[s] = overlapped[s]
  <2>1. PICK k \in Kinds : TakeOverlapped(accepted, k)
    BY <1>1
  <2>2. \E x : overlapped' = [overlapped EXCEPT ![accepted][k] = x]
    BY <2>1 DEF TakeOverlapped
  <2>3. Begun \subseteq Sessions /\ DOMAIN overlapped = Sessions
    BY BegunIs DEF ServerInv, PoolInv, TypeInv
  <2>. QED
    BY <1>3, <2>2, <2>3
<1>5. HandleInv'
  BY <1>1, <1>2 DEF HearInv, HandleInv, Up
<1>6. AwaitInv'
  BY <1>1, AwaitStays DEF HearInv
<1>. QED
  BY <1>1, <1>2, <1>3, <1>4, <1>5, <1>6, MainHears

\* A session that is being made is listed, and bound.
LEMMA AddHears ==
  ASSUME Good, AddTcpClient \/ BindSocket
  PROVE  HearInv'
<1> USE DEF Good
<1>1. /\ main \in {"add", "bind"} /\ main' # "accept"
      /\ UNCHANGED <<accepted, overlapped, recvFailed, ops, port, work, handle, socket>>
      /\ bindFailed \subseteq bindFailed'
  BY DEF AddTcpClient, BindSocket, poolVars, socketVars, historyVars
<1>2. UNCHANGED m_isClosing
  BY Zenon DEF AddTcpClient, BindSocket
<1>3. Begun \subseteq Begun' /\ \A s \in m_clients' : s \in m_clients \/ (s = accepted /\ s \notin Begun)
  <2>1. CASE AddTcpClient
    BY <2>1 DEF AddTcpClient, Begun
  <2>2. CASE BindSocket
    BY <2>2 DEF BindSocket, Begun
  <2>. QED
    BY <2>1, <2>2
<1>4. HandleInv'
  BY <1>1, <1>2 DEF HearInv, HandleInv, Up
<1>5. AwaitInv'
  <2>1. RecvOps(accepted) = {} /\ RecvDone(accepted) = {} /\ RecvWork(accepted) = {}
    BY <1>1 DEF RecvInv
  <2>2. ~ Awaited(accepted)
    BY <2>1 DEF Awaited
  <2>3. accepted \in Sessions
    BY <1>1 DEF ServerInv, PoolInv, TypeInv
  <2>4. UNCHANGED m_IoState \/ m_IoState' = [m_IoState EXCEPT ![accepted]["recv"] = "IO_CONNECTED"]
    BY DEF AddTcpClient, BindSocket
  <2>5. \A s \in Sessions : s # accepted => m_IoState'[s]["recv"] = m_IoState[s]["recv"]
    BY <2>3, <2>4 DEF ServerInv, ListInv, Kinds
  <2>. QED
    BY <1>1, <2>2, <2>5, AwaitStays DEF HearInv
<1>6. \A s \in m_clients' : s \in m_clients \/ s = accepted
  BY <1>3
<1>7. \A s \in m_clients' : s = accepted' \/ (s \in m_clients /\ ~ (s = accepted /\ main # "accept"))
  BY <1>1, <1>6
<1>. QED
  BY <1>1, <1>2, <1>3, <1>4, <1>5, <1>7, MainHears

\* The main thread posts the first receive of the session it has made.
LEMMA FirstReceiveHears ==
  ASSUME Good, ~ crashed', FirstReceive
  PROVE  HearInv'
<1> USE DEF Good
<1>1. /\ main = "recv" /\ ~ Crash
      /\ UNCHANGED <<accepted, overlapped, port, m_clients, handle, socket, bindFailed>>
  BY DEF FirstReceive, Crash, crashed, poolVars
<1>2. UNCHANGED m_isClosing
  BY Zenon DEF FirstReceive
<1>3. PICK c : c = Client[overlapped[accepted]["recv"]]
  OBVIOUS
<1>4. c # NULL /\ RecvAsync(c) /\ main' = "accept" /\ UNCHANGED work
  BY <1>1, <1>3 DEF FirstReceive
<1>5. c = accepted /\ c \in Sessions
  <2>1. accepted \in Sessions /\ "recv" \in Kinds /\ ~ Making("recv")
    BY <1>1 DEF ServerInv, PoolInv, TypeInv, Kinds, Making
  <2>. QED
    BY <1>3, <1>4, <2>1 DEF RecvInv, LastInv
<1>6. /\ \/ c \in recvFailed' \/ socket'[c] = "closed"
         \/ \E o \in RecvOps(c)' : o.conn = c
      /\ recvFailed \subseteq recvFailed' /\ ops \subseteq ops'
      /\ \A o \in ops' : o \in ops \/ (o.of = c /\ o.data = overlapped[c]["recv"] /\ o.data[1] = "recv")
  BY <1>1, <1>4, <1>5, PostedHears
<1>7. HandleInv'
  BY <1>1, <1>2 DEF HearInv, HandleInv, Up
<1>8. AwaitInv'
  <2>1. m_IoState' = [m_IoState EXCEPT ![c]["recv"] = "IO_PENDING"]
    BY <1>4 DEF RecvAsync
  <2>2. m_IoState \in [Sessions -> [Kinds -> {"IO_NOT_CONNECTED", "IO_CONNECTED", "IO_PENDING"}]] /\ "recv" \in Kinds
    BY DEF ServerInv, ListInv, Kinds
  <2>3. /\ m_IoState'[c]["recv"] = "IO_PENDING"
        /\ \A s \in Sessions : s # c => m_IoState'[s]["recv"] = m_IoState[s]["recv"]
    BY <1>5, <2>1, <2>2
  <2>4. \A s : RecvDone(s)' = RecvDone(s) /\ RecvWork(s)' = RecvWork(s)
    BY <1>1, <1>4 DEF RecvDone, RecvWork
  <2>5. \A s : s # c => RecvOps(s)' \subseteq RecvOps(s)
    BY <1>6 DEF RecvOps
  <2>6. ASSUME NEW s \in Sessions, s # c, Awaited(s)' PROVE Awaited(s)
    BY <1>4, <2>4, <2>5, <2>6 DEF Awaited
  <2>7. ASSUME NEW s \in Sessions, Awaited(s)' PROVE m_IoState'[s]["recv"] = "IO_PENDING"
    BY <2>3, <2>6, <2>7 DEF HearInv, AwaitInv
  <2>. QED
    BY <2>7 DEF AwaitInv
<1>9. Begun' = Begun
  BY <1>1, <1>4 DEF Begun
<1>10. \A o \in ops' : o \in ops \/ o.data = overlapped'[o.of][o.data[1]]
  BY <1>1, <1>6
<1>11. Heard(c)'
  BY <1>6 DEF Heard
<1>12. \A s \in m_clients' : Heard(s)' \/ (s \in m_clients /\ ~ (s = accepted /\ main # "accept"))
  BY <1>1, <1>5, <1>11
<1>. QED
  BY <1>1, <1>2, <1>4, <1>6, <1>7, <1>8, <1>9, <1>10, <1>12, MainHears

\* As long as nothing went wrong.
DeafInv == Sane => HearInv

\* At first nobody is listed.
LEMMA InitHear == Init => DeafInv
<1> SUFFICES ASSUME Init PROVE HearInv
  BY DEF DeafInv
<1>1. \A s : RecvOps(s) = {} /\ RecvDone(s) = {} /\ RecvWork(s) = {}
  BY IdleIs DEF Init, RecvOps, RecvDone, RecvWork
<1>2. \A w \in Workers : work[w].at = "idle"
  BY IdleIs DEF Init
<1>3. HandleInv
  <2>1. handle \in [Sessions -> Numbers] /\ socket \in [Sessions -> {"none", "open", "reset", "closed"}]
    BY BoundsAssumption DEF Init, Numbers
  <2>2. m_isClosing \in [Sessions -> BOOLEAN]
    BY Zenon DEF Init
  <2>3. \A s \in Sessions : handle[s] = 0 /\ ~ Up(s)
    BY DEF Init, Up
  <2>. QED
    BY <2>1, <2>2, <2>3 DEF HandleInv
<1>4. DataInv
  BY <1>2 DEF Init, DataInv
<1>5. TurnInv
  BY <1>2 DEF TurnInv, Turn, Tearing, TornDown
<1>6. AwaitInv
  BY <1>1 DEF AwaitInv, Awaited
<1>7. ClosingInv
  <2>1. \A s \in Sessions : ~ m_isClosing[s]
    BY DEF Init
  <2>. QED
    BY <2>1 DEF ClosingInv
<1>8. HeardInv
  BY DEF Init, HeardInv
<1>. QED
  BY <1>3, <1>4, <1>5, <1>6, <1>7, <1>8 DEF HearInv


\* DeafInv is inductive relative to the invariants above.
LEMMA NextHear == ServerInv /\ ReceiveInv /\ AccountInv /\ DeafInv /\ [Next]_vars => DeafInv'
<1> SUFFICES ASSUME ServerInv, ReceiveInv, AccountInv, DeafInv, [Next]_vars, Sane' PROVE HearInv'
  BY DEF DeafInv
<1>1. CASE UNCHANGED vars
  <2>1. Sane /\ HearInv
    BY <1>1 DEF vars, Sane, crashed, TornDownTwice, DeafInv
  <2>2. UNCHANGED <<accepted, main, overlapped, ops, port, work, handle, socket, m_clients, m_IoState, recvFailed,
                  bindFailed>>
    BY <1>1 DEF vars
  <2>3. UNCHANGED m_isClosing
    BY <1>1, Zenon DEF vars
  <2>4. HandleInv'
    BY <2>1, <2>2, <2>3 DEF HearInv, HandleInv, Up
  <2>5. RecvInv
    BY <2>1 DEF ReceiveInv, Sane
  <2>6. OwnedInv
    BY <2>1 DEF AccountInv, Sane
  <2>7. Good
    BY <2>1, <2>5, <2>6 DEF Good
  <2>8. \A s : RecvOps(s)' = RecvOps(s) /\ RecvDone(s)' = RecvDone(s)
    BY <2>2 DEF RecvOps, RecvDone
  <2>9. /\ \A o \in ops' : o.data = overlapped'[o.of][o.data[1]]
        /\ \A i \in 1 .. Len(port') : port'[i].data = overlapped'[port'[i].of][port'[i].data[1]]
    BY <2>1, <2>2 DEF HearInv, DataInv
  <2>. QED
    BY <2>2, <2>3, <2>4, <2>7, <2>8, <2>9, NetHears
<1>2. CASE Next
  <2>1. ~ crashed' /\ ~ stale' /\ ~ TornDownTwice'
    BY DEF Sane
  <2>2. Sane
    BY <1>2, <2>1, CrashedStops, StaleStays, TwiceStays DEF Sane
  <2>3. Good
    BY <2>2 DEF Good, Sane, ReceiveInv, AccountInv, DeafInv
  <2>4. CASE Run
    BY <2>1, <2>3, <2>4, AcceptHears, TakeHears, AddHears, FirstReceiveHears DEF Run
  <2>5. ASSUME NEW w \in Workers, WorkerThread(w) PROVE HearInv'
    BY <2>1, <2>3, <2>5, GetCompletionHears, WorkerHears
  <2>. QED
    BY <1>2, <2>3, <2>4, <2>5, CompleteHears, PeerResetHears DEF Next
<1>. QED
  BY <1>1, <1>2

\* With any number of workers and sessions, a session in m_clients is never deaf:
\* once FirstReceive is past, a receive of it is with the kernel, at the port or
\* with a worker, unless a WSARecv on it failed, its socket could not be bound to
\* the port or its connection was closed under it; as long as no worker crashes, every completion goes to its own session and
\* none is torn down twice.
THEOREM NeverDeaf == Spec => []NoDeafSession
<1>1. ServerInv /\ DeafInv => NoDeafSession
  <2> SUFFICES ASSUME ServerInv, Sane, HearInv, NEW s \in m_clients, ~ (s = accepted /\ main # "accept"),
                      s \notin recvFailed, s \notin bindFailed, Receiving(s) = {}
               PROVE  socket[s] = "closed" /\ ~ m_isClosing[s]
    BY DEF DeafInv, NoDeafSession
  <2>1. Receiving(s) = RecvOps(s) \cup {<<i, port[i]>> : i \in RecvDone(s)} \cup RecvWork(s)
    <3>1. DOMAIN port = 1 .. Len(port)
      BY DEF ServerInv, NetInv
    <3>. QED
      BY <3>1 DEF Receiving, RecvOps, RecvDone, RecvWork
  <2>2. RecvOps(s) = {} /\ RecvDone(s) = {} /\ RecvWork(s) = {}
    BY <2>1
  <2>3. socket[s] = "closed"
    BY <2>2 DEF HearInv, HeardInv, Heard
  <2>4. s \in Sessions
    BY BegunIs DEF ServerInv, ListInv
  <2>5. ~ m_isClosing[s]
    BY <2>2, <2>4 DEF HearInv, ClosingInv
  <2>. QED
    BY <2>3, <2>5
<1>. QED
  BY <1>1, InitReceive, NextReceiveInv, InitAccount, NextAccount, InitHear, NextHear, ServerSafe, PTL DEF Spec


=============================================================================
