------------------------ MODULE RewriteServerProofs ------------------------
(* Proofs about RewriteServer, for any number of peers and workers.        *)
EXTENDS RewriteServer, FiniteSetTheorems, TLAPS

-----------------------------------------------------------------------------
(* The inductive invariant.                                                *)

Exiting  == {"clean", "cleanWait", "terminated", "returned"}
Setup    == {"none", "construct", "register", "acceptEx"}
Clients  == [made : BOOLEAN, socket : BOOLEAN, status_ : SessionStatus, onAccept : {0, 1}]
Accepted == {p \in Peers : peer[p] = "accepted"}

TypeInv ==
  /\ main \in {"startWSA", "start", "startIocpThread", "spawn", "wait"} \cup Exiting
  /\ accept_thread_ \in Setup \cup {"loop"}
  /\ wsa \in BOOLEAN /\ registered \in BOOLEAN /\ posted \in BOOLEAN
  /\ workers \in 0 .. NumOfThreads
  /\ client \in Clients
  /\ peer \in [Peers -> {"away", "backlog", "accepted", "reset"}]

\* Only a WSAStartup that failed gets main past its wait: then nothing was
\* started, and the accept thread never is.
PhaseInv ==
  /\ accept_thread_ # "none" => main = "wait" /\ is_thread_running_
  /\ main \in {"startWSA"} \cup Exiting => accept_thread_ = "none" /\ ~ wsa /\ socket_ = "none"
  /\ main = "wait" /\ accept_thread_ = "none" => ~ wsa /\ socket_ = "none"
  /\ main \notin {"cleanWait", "terminated", "returned"} => is_thread_running_

\* One AcceptEx is posted, and not before the socket is registered.
Untouched == port = << >> /\ client.onAccept = 0 /\ Accepted = {}

AcceptInv ==
  /\ accept_thread_ \in Setup => ~ posted
  /\ accept_thread_ \in Setup \/ posted => Untouched
  /\ ~ registered => port = << >>
  /\ registered => \/ client.onAccept = 0 /\ Accepted = {} /\ port \in {<< >>, <<"reset">>}
                   \/ client.onAccept = 0 /\ port = <<"accepted">> /\ \E p \in Peers : Accepted = {p}
                   \/ client.onAccept = 1 /\ port = << >> /\ \E p \in Peers : Accepted = {p}

SInv == TypeInv /\ PhaseInv /\ AcceptInv

-----------------------------------------------------------------------------
(* Where main and the accept thread are.                                   *)

\* A TcpClient before and after OnAccept.
LEMMA ClientTypes ==
  /\ NoClient \in Clients /\ NoClient.onAccept = 0
  /\ \A ok \in BOOLEAN, st \in SessionStatus :
       LET c == [made |-> TRUE, socket |-> ok, status_ |-> st, onAccept |-> 0]
       IN  c \in Clients /\ c.onAccept = 0
  /\ \A c \in Clients : c.onAccept = 0 =>
       OnAccept(c) \in Clients /\ OnAccept(c).onAccept = 1
<1>1. NoClient \in Clients /\ NoClient.onAccept = 0
  BY ServerAssumption DEF NoClient, Clients
<1>2. ASSUME NEW ok \in BOOLEAN, NEW st \in SessionStatus,
             NEW c, c = [made |-> TRUE, socket |-> ok, status_ |-> st, onAccept |-> 0]
      PROVE  c \in Clients /\ c.onAccept = 0
  BY <1>2 DEF Clients
<1>3. ASSUME NEW c \in Clients, c.onAccept = 0
      PROVE  OnAccept(c) \in Clients /\ OnAccept(c).onAccept = 1
  <2>1. OnAccept(c) = [c EXCEPT !.onAccept = 1, !.status_ = "CONNECTED"]
    BY <1>3 DEF OnAccept
  <2>2. [c EXCEPT !.onAccept = 1, !.status_ = "CONNECTED"] \in Clients
    BY ServerAssumption DEF Clients
  <2>. QED
    BY <2>1, <2>2 DEF Clients
<1>. QED
  BY <1>1, <1>2, <1>3

\* Every step keeps the types and the phases.
LEMMA PhaseStep ==
  ASSUME SInv, [Next]_vars
  PROVE  TypeInv' /\ PhaseInv'
<1> USE ServerAssumption DEF SInv, TypeInv, PhaseInv, Exiting, Setup, netVars, accVars
<1>1. CASE UNCHANGED vars
  BY <1>1 DEF vars
<1>2. CASE StartWSA \/ Start
  BY <1>2 DEF StartWSA, Start
<1>3. CASE StartIocpThread
  BY <1>3 DEF StartIocpThread, CreateIocpHandle
<1>4. CASE SpawnAccept \/ WaitInMain \/ CleanStops \/ CleanEnds
  BY <1>4 DEF SpawnAccept, WaitInMain, WaitReturns, CleanStops, CleanEnds
<1>5. CASE NewClient
  <2>1. client' \in Clients
    BY <1>5, ClientTypes DEF NewClient
  <2>2. accept_thread_ = "construct" /\ accept_thread_' = "register"
    BY <1>5 DEF NewClient, Accepting, After
  <2>3. UNCHANGED <<main, is_thread_running_, netVars, registered, posted, port, peer>>
    BY <1>5 DEF NewClient, Accepting
  <2>. QED
    BY <2>1, <2>2, <2>3
<1>6. CASE Register \/ AcceptEx
  BY <1>6 DEF Register, AcceptEx, Accepting, After, Ended
<1>7. CASE Run
  BY <1>7 DEF Run
<1>8. ASSUME NEW p \in Peers, Connect(p) PROVE TypeInv' /\ PhaseInv'
  BY <1>8 DEF Connect
<1>9. ASSUME NEW p \in Peers, NEW outcome \in {"accepted", "reset"}, Complete(p, outcome) PROVE TypeInv' /\ PhaseInv'
  BY <1>9 DEF Complete
<1>10. CASE Work
  <2>1. client.onAccept = 0
    BY <1>10 DEF Work, AcceptInv
  <2>2. client' = client \/ client' = OnAccept(client)
    BY <1>10, Zenon DEF Work
  <2>3. client' \in Clients
    BY <2>1, <2>2, ClientTypes
  <2>. QED
    BY <1>10, <2>3 DEF Work
<1>. QED
  BY <1>1, <1>2, <1>3, <1>4, <1>5, <1>6, <1>7, <1>8, <1>9, <1>10 DEF Next

\* A turn of a worker takes the completion of the only AcceptEx.
LEMMA WorkAccepts ==
  ASSUME SInv, Work
  PROVE  AcceptInv'
<1> USE DEF SInv, TypeInv, AcceptInv, Untouched, Accepted
<1>1. registered /\ client.onAccept = 0 /\ ~ posted /\ accept_thread_ \notin Setup
  BY DEF Work
<1>2. UNCHANGED <<registered, posted, accept_thread_, Accepted>>
  BY DEF Work
<1>3. port' = << >>
  BY <1>1 DEF Work
<1>4. CASE port = <<"accepted">>
  <2>1. client' = OnAccept(client)
    BY <1>4 DEF Work
  <2>2. client'.onAccept = 1
    BY <1>1, <2>1 DEF OnAccept
  <2>. QED
    BY <1>1, <1>2, <1>3, <1>4, <2>2
<1>5. CASE port = <<"reset">>
  BY <1>1, <1>2, <1>3, <1>5 DEF Work
<1>. QED
  BY <1>1, <1>4, <1>5 DEF Work

\* The kernel takes a connection for the only AcceptEx.
LEMMA CompleteAccepts ==
  ASSUME SInv, NEW p \in Peers, NEW outcome \in {"accepted", "reset"}, Complete(p, outcome)
  PROVE  AcceptInv'
<1> USE DEF SInv, TypeInv, AcceptInv, Untouched
<1>1. posted /\ accept_thread_ \notin Setup /\ Untouched
  BY DEF Complete
<1>2. ~ posted' /\ UNCHANGED <<registered, client, accept_thread_>>
  BY DEF Complete
<1>3. Accepted' = IF outcome = "accepted" THEN {p} ELSE {}
  BY <1>1 DEF Complete, Accepted
<1>4. port' = IF registered THEN <<outcome>> ELSE << >>
  BY <1>1 DEF Complete
<1>. QED
  BY <1>1, <1>2, <1>3, <1>4

\* Every step keeps what is known of the AcceptEx.
LEMMA AcceptStep ==
  ASSUME SInv, [Next]_vars
  PROVE  AcceptInv'
<1> USE DEF SInv, AcceptInv, Untouched, Accepted
<1>1. CASE UNCHANGED vars
  BY <1>1 DEF vars
<1>2. CASE StartWSA \/ Start
  BY <1>2 DEF StartWSA, Start, accVars
<1>3. CASE StartIocpThread
  BY <1>3 DEF StartIocpThread, accVars
<1>4. CASE SpawnAccept
  BY <1>4 DEF SpawnAccept, accVars, TypeInv, PhaseInv, Setup
<1>5. CASE WaitInMain \/ CleanStops \/ CleanEnds
  BY <1>5 DEF WaitInMain, CleanStops, CleanEnds, accVars
<1>6. CASE NewClient
  <2>1. accept_thread_ \in Setup
    BY <1>6 DEF NewClient, Accepting, Setup
  <2>2. client'.onAccept = 0 /\ UNCHANGED <<registered, posted, port, peer>>
    BY <1>6 DEF NewClient
  <2>. QED
    BY <2>1, <2>2
<1>7. CASE Register
  <2>1. accept_thread_ \in Setup
    BY <1>7 DEF Register, Accepting, Setup
  <2>2. UNCHANGED <<client, posted, port, peer>>
    BY <1>7 DEF Register
  <2>. QED
    BY <2>1, <2>2
<1>8. CASE AcceptEx
  <2>1. accept_thread_ \in Setup
    BY <1>8 DEF AcceptEx, Accepting, Setup
  <2>2. accept_thread_' = "loop"
    BY <1>8 DEF AcceptEx, Accepting, After
  <2>3. UNCHANGED <<client, registered, port, peer>>
    BY <1>8 DEF AcceptEx
  <2>. QED
    BY <2>1, <2>2, <2>3 DEF Setup
<1>9. CASE Run
  BY <1>9 DEF Run, accVars, Setup
<1>10. ASSUME NEW p \in Peers, Connect(p) PROVE AcceptInv'
  <2>1. UNCHANGED <<accept_thread_, registered, client, posted, port>>
    BY <1>10 DEF Connect
  <2>2. Accepted' = Accepted
    BY <1>10 DEF Connect, TypeInv
  <2>. QED
    BY <2>1, <2>2
<1>. QED
  BY <1>1, <1>2, <1>3, <1>4, <1>5, <1>6, <1>7, <1>8, <1>9, <1>10, WorkAccepts, CompleteAccepts
  DEF Next

-----------------------------------------------------------------------------
(* The theorems.                                                           *)

\* The invariant holds when main starts.
LEMMA InitSInv == Init => SInv
<1> SUFFICES ASSUME Init PROVE SInv
  OBVIOUS
<1>1. TypeInv
  <2>1. client \in Clients /\ peer \in [Peers -> {"away", "backlog", "accepted", "reset"}]
    BY ClientTypes DEF Init
  <2>2. workers \in 0 .. NumOfThreads
    BY ServerAssumption DEF Init
  <2>3. wsa \in BOOLEAN /\ registered \in BOOLEAN /\ posted \in BOOLEAN
    BY DEF Init
  <2>. QED
    BY <2>1, <2>2, <2>3 DEF Init, TypeInv, Setup
<1>2. PhaseInv
  BY DEF Init, PhaseInv, Exiting
<1>3. AcceptInv
  BY DEF Init, NoClient, AcceptInv, Untouched, Accepted, Setup
<1>. QED
  BY <1>1, <1>2, <1>3 DEF SInv

\* It always holds.
LEMMA AlwaysSInv == Spec => []SInv
<1>1. SInv /\ [Next]_vars => SInv'
  BY PhaseStep, AcceptStep DEF SInv
<1>. QED
  BY InitSInv, <1>1, PTL DEF Spec

\* main never gets past its wait once the accept thread exists, and shuts down
\* only after a WSAStartup that failed.
THEOREM ShutsDownOnlyUnstarted == Spec => []ShutdownNeedsFailedStart
<1>1. SInv => ShutdownNeedsFailedStart
  BY DEF SInv, PhaseInv, ShutdownNeedsFailedStart, Exiting
<1>. QED
  BY AlwaysSInv, <1>1, PTL

\* What one completion counts.
LEMMA CountOne ==
  /\ Cardinality({i \in DOMAIN << >> : << >>[i] = "accepted"}) = 0
  /\ Cardinality({i \in DOMAIN <<"reset">> : <<"reset">>[i] = "accepted"}) = 0
  /\ Cardinality({i \in DOMAIN <<"accepted">> : <<"accepted">>[i] = "accepted"}) = 1
<1>1. {i \in DOMAIN << >> : << >>[i] = "accepted"} = {}
  OBVIOUS
<1>2. {i \in DOMAIN <<"reset">> : <<"reset">>[i] = "accepted"} = {}
  OBVIOUS
<1>3. {i \in DOMAIN <<"accepted">> : <<"accepted">>[i] = "accepted"} = {1}
  OBVIOUS
<1>. QED
  BY <1>1, <1>2, <1>3, FS_EmptySet, FS_Singleton

\* A connection that the kernel accepted on the registered socket is in the port
\* or has been through OnAccept.
THEOREM AcceptAlwaysHeard == Spec => []AcceptIsHeard
<1>1. SInv => AcceptIsHeard
  <2> SUFFICES ASSUME SInv, registered
               PROVE  Cardinality(Accepted) =
                        Cardinality({i \in DOMAIN port : port[i] = "accepted"}) + client.onAccept
    BY DEF AcceptIsHeard, Accepted
  <2>1. CASE client.onAccept = 0 /\ Accepted = {} /\ port \in {<< >>, <<"reset">>}
    BY <2>1, CountOne, FS_EmptySet
  <2>2. ASSUME NEW p \in Peers, Accepted = {p} PROVE Cardinality(Accepted) = 1
    BY <2>2, FS_Singleton
  <2>3. CASE client.onAccept = 0 /\ port = <<"accepted">> /\ Cardinality(Accepted) = 1
    BY <2>3, CountOne
  <2>4. CASE client.onAccept = 1 /\ port = << >> /\ Cardinality(Accepted) = 1
    BY <2>4, CountOne
  <2>. QED
    BY <2>1, <2>2, <2>3, <2>4 DEF SInv, AcceptInv
<1>. QED
  BY AlwaysSInv, <1>1, PTL
=============================================================================
