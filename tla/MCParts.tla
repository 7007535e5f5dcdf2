------------------------------- MODULE MCParts -------------------------------
(***************************************************************************)
(* The parts the two servers are made of, the sample client, and two       *)
(* sequential parts of log4cplus, one at a time: the initial state picks a *)
(* part, and only that one takes steps.                                    *)
(***************************************************************************)
EXTENDS PulledBuffer

CONSTANTS
  Threads, NoThread, ElementCount, MaxArrays,
  Peers, numberOfThread, MaxFalseSessions,
  Chars, BUF_SIZE, MaxRounds,
  Names, MaxFactories

ASSUME PoolAssumption == ElementCount \in Nat \ {0} /\ NoThread \notin Threads
ASSUME ClientAssumption == BUF_SIZE \in Nat
ASSUME RegistryAssumption == MaxFactories \in Nat

VARIABLES
  which,
  owner, depth, m_waitingQueue, m_dataPool, arrays, pc, i, out, emptyFront, clearedInUse,
  step, hThreads, m_iocpHandle, m_Socket, peer, falseSessions,
  at, message, strLen, readLen, wire, back, peerGone, underrun, rounds, line,
  env, units,
  data, made, typeName, autoPtr, putAt, found, deleted, crashed, destroyed

IP == INSTANCE IoPool
SU == INSTANCE Startup WITH at <- step
SC == INSTANCE SampleClient
BC == INSTANCE BuildConfig
FR == INSTANCE FactoryRegistry WITH at <- putAt

pool    == <<owner, depth, m_waitingQueue, m_dataPool, arrays, pc, i, out, emptyFront, clearedInUse>>
startup == <<step, hThreads, m_iocpHandle, m_Socket, peer, falseSessions>>
client  == <<at, message, strLen, readLen, wire, back, peerGone, underrun, rounds, line>>
build   == <<env, units>>
registry == <<data, made, typeName, autoPtr, putAt, found, deleted, crashed, destroyed>>
partsVars == <<which, vars, pool, startup, client, build, registry>>

PartsInit ==
  /\ which \in {"PulledBuffer", "IoPool", "Startup", "SampleClient", "BuildConfig", "FactoryRegistry"}
  /\ Init /\ (which # "PulledBuffer" => side = "send")
  /\ IP!Init /\ (which # "IoPool" => arrays = 0)
  /\ SU!Init
  /\ SC!Init
  /\ BC!Init
  /\ FR!Init /\ (which # "FactoryRegistry" => typeName = [f \in 1 .. MaxFactories |-> CHOOSE n \in Names : TRUE])

PartsNext ==
  /\ UNCHANGED which
  /\ \/ which = "PulledBuffer" /\ Next /\ UNCHANGED <<pool, startup, client, build, registry>>
     \/ which = "IoPool" /\ IP!Next /\ UNCHANGED <<vars, startup, client, build, registry>>
     \/ which = "Startup" /\ SU!Next /\ UNCHANGED <<vars, pool, client, build, registry>>
     \/ which = "SampleClient" /\ SC!Next /\ UNCHANGED <<vars, pool, startup, build, registry>>
     \/ which = "BuildConfig" /\ BC!Next /\ UNCHANGED <<vars, pool, startup, client, registry>>
     \/ which = "FactoryRegistry" /\ FR!Next /\ UNCHANGED <<vars, pool, startup, client, build>>

\* Startup is the one part with a liveness property.
PartsSpec == PartsInit /\ [][PartsNext]_partsVars /\ (which = "Startup" => SU!Fairness)

\* OverlappedIoPool and TcpSessionPool: two threads never get the same element,
\* and an empty queue is never popped.
HandsOutOnce == IP!HandsOutOnce

\* Network::Initialize and Run: who could connect is served if at least one
\* worker was started and its own socket's association and first receive do
\* not fail.
ConnectedIsServed == SU!ConnectedIsServed

\* SampleClient: each round gets its own echo, all of it and nothing else.
RoundsInStep == SC!RoundsInStep


\* FactoryRegistry: a factory has one owner at a time and is deleted once.
FactoriesOwnedOnce == FR!FactoriesOwnedOnce
=============================================================================
