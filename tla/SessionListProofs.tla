------------------------- MODULE SessionListProofs -------------------------
(* Proofs about SessionList, for any number of workers, sessions and nodes. *)
EXTENDS SessionList, FiniteSetTheorems, TLAPS

-----------------------------------------------------------------------------
(* The inductive invariant.                                                *)

\* A call before it has its lock, while it looks for its session, and before
\* AddTcpClient has linked its node.
Locking  == {"test", "guard", "construct", "enter", "hung"}
Seeking  == {"first", "compare", "unlink"}
Buying   == {"buynode", "linkprev", "linknext"}
InCall   == Locking \cup Seeking \cup Buying \cup {"erase", "leave"}
Reading  == {"visit", "flush", "visited"}
Steps    == {"idle", "close"} \cup InCall \cup Reading

Places   == Nodes \cup {end}
Someone  == Sessions \cup {CHOOSE s \in Sessions : TRUE}
ThreadRecords ==
  [at : Steps, in : Calls, client : Someone, node : Places, owed : SUBSET Sessions]

TypeInv ==
  /\ next \in [Places -> Places] /\ prev \in [Places -> Places]
  /\ val \in [Nodes -> Someone] /\ live \subseteq Nodes
  /\ guard \in [Calls -> BOOLEAN] /\ cs \in [Calls -> Threads \cup {Raw, Free}]
  /\ th \in [Threads -> ThreadRecords]
  /\ session \in [Sessions -> {"new", "added", "removed"}]

\* The accepting thread adds; the workers remove and broadcast.  A session is
\* "added" until the call that adds it has returned.
Role(t) ==
  /\ th[t].at \in InCall => /\ th[t].in = "AddTcpClient" <=> t = Main
                            /\ th[t].client \in Sessions
                            /\ session[th[t].client] = IF t = Main THEN "added" ELSE "removed"
  /\ th[t].at \in Buying => t = Main
  /\ th[t].at \in Reading => t # Main

RoleInv == \A t \in Threads : Role(t)

\* A static lock that counts as built was built, or a thread is about to.
BuildInv ==
  \A f \in Calls :
    guard[f] \/ (\E t \in Threads : th[t].in = f /\ th[t].at = "enter") =>
      cs[f] # Raw \/ \E u \in Threads : th[u].in = f /\ th[u].at = "construct"

\* A node is out of the list before its first link is set, or once that is gone.
\* The links back still lead to one that is skipped.
Out     == {"linkprev", "linknext", "erase"}
Outside == {th[t].node : t \in {u \in Threads : th[u].at \in Out}}
Skipped == {th[t].node : t \in {u \in Threads : th[u].at \in {"linknext", "erase"}}}
InList  == live \ Outside
Back(n) == IF prev[n] \in Skipped THEN prev[prev[n]] ELSE prev[n]

AtMostOne == \A t, u \in Threads : Changing(t) /\ Changing(u) => t = u

\* The two directions agree.
RingInv ==
  \A n \in InList \cup {end} :
    /\ next[n] \in InList \cup {end} /\ Back(n) \in InList \cup {end}
    /\ next[Back(n)] = n /\ Back(next[n]) = n

\* The node that is being linked or erased.
Hand(t) ==
  /\ th[t].at \in Out => th[t].node \in live
  /\ th[t].at \in {"linkprev", "linknext"} => next[th[t].node] = end /\ val[th[t].node] = th[t].client
  /\ th[t].at = "linkprev" => prev[th[t].node] = prev[end]
  /\ th[t].at \in {"linknext", "erase"} =>
       next[th[t].node] \in InList \cup {end} /\ prev[next[th[t].node]] = th[t].node

LinkInv == RingInv /\ \A t \in Threads : Hand(t)

\* The sessions in the list.  One that is to be removed is there at most until
\* the call that removes it has found it.
Adding(s)  == th[Main].at \in InCall \ {"leave"} /\ th[Main].client = s
Pending(s) == \E t \in Workers : th[t].at \in Locking \cup Seeking /\ th[t].client = s

ValueInv ==
  /\ \A n, x \in InList : val[n] = val[x] => n = x
  /\ \A n \in InList : /\ val[n] \in Sessions /\ session[val[n]] # "new" /\ ~ Adding(val[n])
                       /\ session[val[n]] = "removed" => Pending(val[n])
  /\ \A s \in Sessions : session[s] = "added" /\ ~ Adding(s) => \E n \in InList : val[n] = s

\* The list has an order, in which the next node is the first of those after;
\* r gives the place of a node, and new ones get places from m on.
From(r, n)  == {x \in InList : n # end /\ r[n] <= r[x]}

OrderInv(r, m) ==
  /\ \A n \in InList : r[n] < m
  /\ \A n, x \in InList : r[n] = r[x] => n = x
  /\ From(r, next[end]) = InList
  /\ \A n \in InList : From(r, next[n]) = {x \in InList : r[n] < r[x]}

\* A search has not passed its session ...
Seek(r, t) ==
  /\ th[t].at = "compare" =>
       /\ th[t].node \in InList \cup {end}
       /\ \A n \in InList : val[n] = th[t].client => n \in From(r, th[t].node)
  /\ th[t].at = "unlink" => t # Main /\ th[t].node \in InList /\ val[th[t].node] = th[t].client
  /\ th[t].at = "erase" => t # Main /\ \A n \in InList : val[n] # th[t].client

\* ... nor a broadcast one that it owes something, unless that one is closing.
Read(r, t) ==
  /\ th[t].at = "visit" =>
       /\ th[t].node \in InList \cup {end}
       /\ \A s \in th[t].owed \ closing : \E x \in From(r, th[t].node) : val[x] = s
  /\ th[t].at = "flush" =>
       /\ th[t].node \in InList
       /\ \A s \in th[t].owed \ closing : \E x \in From(r, next[th[t].node]) : val[x] = s
  /\ th[t].at = "visited" => th[t].owed \subseteq closing

ChainInv(r, m) ==
  OrderInv(r, m) /\ \A t \in Threads : Seek(r, t) /\ (~ torn => Read(r, t))

Whole ==
  /\ LinkInv /\ ValueInv
  /\ \E r \in [Nodes -> Nat], m \in Nat : ChainInv(r, m)

ListInv == ~ overlap => AtMostOne /\ Whole

TornInv == ~ torn => \A t, u \in Threads : ~ (Broadcasting(t) /\ Removing(u))

SListInv == TypeInv /\ RoleInv /\ BuildInv /\ ListInv /\ TornInv /\ CrashNeedsARace
-----------------------------------------------------------------------------
(* Threads and their records.                                              *)

\* A thread between calls.
LEMMA IdleIs ==
  /\ Idle.at = "idle" /\ Idle.in = "AddTcpClient" /\ Idle.node = end /\ Idle.owed = {}
  /\ Idle \in ThreadRecords
  BY DEF Idle, ThreadRecords, Steps, Calls, Someone, Places

\* Node 0 is the sentinel only.
LEMMA EndIs == end \notin Nodes /\ Main \in Threads /\ Main \notin Workers
               /\ Threads = Workers \cup {Main} /\ Raw \notin Threads /\ Free \notin Threads /\ Raw # Free
  BY ListAssumption DEF end, Threads, Raw, Free

\* A thread goes to another step.
LEMMA GotoIs ==
  ASSUME TypeInv, NEW t \in Threads, NEW l \in Steps, Goto(t, l)
  PROVE  /\ th' \in [Threads -> ThreadRecords]
         /\ th'[t].at = l /\ th'[t].in = th[t].in /\ th'[t].client = th[t].client
         /\ th'[t].node = th[t].node /\ th'[t].owed = th[t].owed
         /\ \A u \in Threads : u # t => th'[u] = th[u]
  BY DEF TypeInv, ThreadRecords, Goto

\* ... and to another node.
LEMMA MoveIs ==
  ASSUME TypeInv, NEW t \in Threads, NEW l \in Steps, NEW n \in Places,
         th' = [th EXCEPT ![t].node = n, ![t].at = l]
  PROVE  /\ th' \in [Threads -> ThreadRecords]
         /\ th'[t].at = l /\ th'[t].in = th[t].in /\ th'[t].client = th[t].client
         /\ th'[t].node = n /\ th'[t].owed = th[t].owed
         /\ \A u \in Threads : u # t => th'[u] = th[u]
  BY DEF TypeInv, ThreadRecords

\* A thread begins a call.
LEMMA CallIs ==
  ASSUME TypeInv, NEW t \in Threads, NEW s \in Sessions, NEW f \in Calls,
         th' = [th EXCEPT ![t] = [Idle EXCEPT !.at = "test", !.in = f, !.client = s]]
  PROVE  /\ th' \in [Threads -> ThreadRecords]
         /\ th'[t].at = "test" /\ th'[t].in = f /\ th'[t].client = s
         /\ \A u \in Threads : u # t => th'[u] = th[u]
  BY IdleIs DEF TypeInv, ThreadRecords, Steps, InCall, Locking, Someone

\* A search goes on, ends, or has found its session.
LEMMA CompareIs ==
  ASSUME TypeInv, NEW t \in Threads, Compare(t), ~ crashed'
  PROVE  /\ th' \in [Threads -> ThreadRecords] /\ th[t].at = "compare"
         /\ th'[t].in = th[t].in /\ th'[t].client = th[t].client /\ th'[t].owed = th[t].owed
         /\ \A u \in Threads : u # t => th'[u] = th[u]
         /\ \/ /\ th[t].node = end /\ th'[t].node = end
               /\ th'[t].at = IF th[t].in = "AddTcpClient" THEN "buynode" ELSE "leave"
            \/ /\ th[t].node \in live /\ val[th[t].node] = th[t].client
               /\ th'[t].node = th[t].node /\ th'[t].at = "unlink"
            \/ /\ th[t].node \in live /\ val[th[t].node] # th[t].client
               /\ th'[t].node = next[th[t].node] /\ th'[t].at = "compare"
         /\ UNCHANGED <<mem, lock, session, closing, crashed>>
<1> DEFINE n == th[t].node
<1>0. /\ th[t].at = "compare" /\ n \in live \cup {end} /\ UNCHANGED <<mem, lock, session, closing, crashed>>
      /\ th \in [Threads -> ThreadRecords] /\ n \in Places /\ next \in [Places -> Places]
  BY DEF Compare, At, Touch, TypeInv, ThreadRecords
<1>1. CASE n = end
  <2>1. th' = [th EXCEPT ![t] = [@ EXCEPT !.at = AfterRemove(t)]]
    BY <1>1 DEF Compare, Touch
  <2>2. AfterRemove(t) \in Steps /\ AfterRemove(t) = IF th[t].in = "AddTcpClient" THEN "buynode" ELSE "leave"
    BY DEF AfterRemove, Steps, InCall, Buying
  <2> HIDE DEF n
  <2>3. Goto(t, AfterRemove(t))
    BY <2>1 DEF Goto
  <2>. QED
    BY <1>0, <1>1, <2>2, <2>3, GotoIs DEF n
<1>2. CASE n # end /\ val[n] = th[t].client
  <2>1. th' = [th EXCEPT ![t] = [@ EXCEPT !.at = "unlink"]]
    BY <1>0, <1>2 DEF Compare, Touch
  <2>2. Goto(t, "unlink") /\ "unlink" \in Steps
    BY <2>1 DEF Goto, Steps, InCall, Seeking
  <2>. QED
    BY <1>0, <1>2, <2>2, GotoIs
<1>3. CASE n # end /\ val[n] # th[t].client
  <2>1. th' = [th EXCEPT ![t] = [@ EXCEPT !.node = next[n]]]
    BY <1>0, <1>3 DEF Compare, Touch
  <2>. QED
    BY <1>0, <1>3, <2>1 DEF ThreadRecords
<1>. QED
  BY <1>1, <1>2, <1>3

\* A broadcast begins, visits a node, and goes on.
LEMMA BroadcastIs ==
  ASSUME TypeInv, NEW t \in Threads, BeginBroadcast(t)
  PROVE  /\ th' \in [Threads -> ThreadRecords] /\ th[t].at = "idle" /\ t \in Workers
         /\ th'[t].at = "visit" /\ th'[t].node = next[end]
         /\ th'[t].owed = {s \in Sessions : session[s] = "added" /\ Reachable(s)}
         /\ \A u \in Threads : u # t => th'[u] = th[u]
         /\ UNCHANGED <<mem, lock, session, closing, crashed>>
<1>1. next[end] \in Places /\ "visit" \in Steps /\ Sessions \subseteq Someone
  BY DEF TypeInv, Places, Steps, Reading, Someone
<1>2. PICK s \in Sessions :
        th' = [th EXCEPT ![t] = [Idle EXCEPT !.at = "visit", !.client = s, !.node = next[end],
                                 !.owed = {x \in Sessions : session[x] = "added" /\ Reachable(x)}]]
  BY DEF BeginBroadcast
<1>. QED
  BY <1>1, <1>2, IdleIs DEF BeginBroadcast, At, TypeInv, ThreadRecords

\* What a broadcast does at a node.
LEMMA VisitIs ==
  ASSUME TypeInv, NEW t \in Threads, Visit(t), ~ crashed'
  PROVE  /\ th' \in [Threads -> ThreadRecords] /\ th[t].at = "visit" /\ th'[t].in = th[t].in
         /\ \A u \in Threads : u # t => th'[u] = th[u]
         /\ \/ th[t].node = end /\ th'[t].at = "visited" /\ th'[t].owed = th[t].owed /\ closing' = closing
            \/ /\ th[t].node \in live /\ val[th[t].node] \in closing /\ th'[t].at = "visit"
               /\ th'[t].node = next[th[t].node] /\ th'[t].owed = th[t].owed /\ closing' = closing
            \/ /\ th[t].node \in live /\ th'[t].at = "flush" /\ th'[t].node = th[t].node
               /\ th'[t].owed = th[t].owed \ {val[th[t].node]} /\ closing' = closing
            \/ th'[t].at = "idle"
         /\ closing \subseteq closing'
         /\ UNCHANGED <<mem, lock, session, crashed>>
<1>0. /\ th[t].at = "visit" /\ th[t].node \in live \cup {end} /\ UNCHANGED <<mem, lock, session, crashed>>
      /\ th \in [Threads -> ThreadRecords] /\ {"visit", "visited", "idle", "flush"} \subseteq Steps
      /\ next[th[t].node] \in Places
  BY DEF Visit, At, Touch, TypeInv, ThreadRecords, Steps, Reading
<1>1. CASE Goto(t, "visited") /\ th[t].node = end /\ closing' = closing
  BY <1>0, <1>1, GotoIs
<1>2. CASE Goto(t, "idle") /\ closing' = closing \cup {th[t].client}
  BY <1>0, <1>2, GotoIs
<1>3. CASE /\ th[t].node # end /\ closing' = closing
           /\ th' = [th EXCEPT ![t].at = "flush", ![t].owed = @ \ {val[th[t].node]}]
  BY <1>0, <1>3 DEF ThreadRecords
<1>4. CASE /\ th[t].node # end /\ val[th[t].node] \in closing /\ closing' = closing
           /\ th' = [th EXCEPT ![t].node = next[th[t].node], ![t].at = "visit"]
  <2>1. /\ th' \in [Threads -> ThreadRecords] /\ th'[t].at = "visit" /\ th'[t].in = th[t].in
        /\ th'[t].node = next[th[t].node] /\ th'[t].owed = th[t].owed
        /\ \A u \in Threads : u # t => th'[u] = th[u]
    <3>1. /\ next[th[t].node] \in Places /\ "visit" \in Steps
          /\ th' = [th EXCEPT ![t].node = next[th[t].node], ![t].at = "visit"]
      BY <1>0, <1>4
    <3>. QED
      BY <3>1 DEF TypeInv, ThreadRecords
  <2>2. th[t].node \in live
    BY <1>0, <1>4
  <2>. QED
    BY <1>0, <1>4, <2>1, <2>2
<1>. QED
  BY <1>1, <1>2, <1>3, <1>4 DEF Visit, Touch

\* How a broadcast goes on to the next node.
LEMMA FlushIs ==
  ASSUME TypeInv, NEW t \in Threads, Flush(t), ~ crashed'
  PROVE  /\ th' \in [Threads -> ThreadRecords] /\ th[t].at = "flush" /\ th'[t].at = "visit"
         /\ th'[t].in = th[t].in /\ th'[t].node = next[th[t].node] /\ th'[t].owed = th[t].owed
         /\ \A u \in Threads : u # t => th'[u] = th[u]
         /\ UNCHANGED <<mem, lock, session, closing, crashed>>
<1>1. /\ th[t].at = "flush" /\ th' = [th EXCEPT ![t].node = next[th[t].node], ![t].at = "visit"]
      /\ UNCHANGED <<mem, lock, session, closing, crashed>>
  BY DEF Flush, Touch, At
<1>2. next[th[t].node] \in Places /\ "visit" \in Steps
  BY DEF TypeInv, ThreadRecords, Steps, Reading
<1>. QED
  BY <1>1, <1>2, MoveIs

-----------------------------------------------------------------------------
(* Types, roles and the building of the locks.                             *)

\* What a thread may do.
Does(t) ==
  \/ TestGuard(t) \/ SetGuard(t) \/ Construct(t) \/ Enter(t) \/ Leave(t)
  \/ First(t) \/ Compare(t) \/ Unlink(t) \/ Erase(t)
  \/ BuyNode(t) \/ LinkPrev(t) \/ LinkNext(t)
  \/ CloseRemoved(t) \/ BeginBroadcast(t) \/ Visit(t) \/ Flush(t) \/ EndBroadcast(t)

\* A step that ends the process changes nothing else.
LEMMA CrashStep ==
  ASSUME NEW t \in Threads, Does(t), crashed'
  PROVE  UNCHANGED <<mem, lock, th, session, closing>> /\ th[t].at \in {"enter", "compare", "unlink", "erase", "visit", "flush"}
         /\ \/ th[t].at = "enter" /\ cs[th[t].in] = Raw
            \/ th[t].at # "enter" /\ th[t].node \notin live \cup {end}
<1>0. ~ crashed
  BY DEF Does, TestGuard, SetGuard, Construct, Enter, Leave, First, Compare, Unlink, Erase, BuyNode, LinkPrev,
         LinkNext, CloseRemoved, BeginBroadcast, Visit, Flush, EndBroadcast, At
<1>1. CASE TestGuard(t) \/ SetGuard(t) \/ Construct(t) \/ Leave(t) \/ First(t)
  BY <1>0, <1>1 DEF TestGuard, SetGuard, Construct, Leave, First, Same
<1>2. CASE BuyNode(t) \/ LinkPrev(t) \/ LinkNext(t) \/ CloseRemoved(t) \/ BeginBroadcast(t) \/ EndBroadcast(t)
  BY <1>0, <1>2 DEF BuyNode, LinkPrev, LinkNext, CloseRemoved, BeginBroadcast, EndBroadcast, Same
<1>3. CASE Enter(t)
  BY <1>0, <1>3 DEF Enter, Same, At, lock
<1>4. CASE Compare(t)
  BY <1>0, <1>4 DEF Compare, Touch, At
<1>5. CASE Unlink(t)
  BY <1>0, <1>5 DEF Unlink, Touch, At
<1>6. CASE Erase(t)
  BY <1>0, <1>6 DEF Erase, Touch, At
<1>7. CASE Visit(t)
  BY <1>0, <1>7 DEF Visit, Touch, At
<1>8. CASE Flush(t)
  BY <1>0, <1>8 DEF Flush, Touch, At
<1>. QED
  BY <1>1, <1>2, <1>3, <1>4, <1>5, <1>6, <1>7, <1>8 DEF Does

\* A call under way keeps its function and its session.
LEMMA RoleStays ==
  ASSUME RoleInv, NEW t \in Threads, \A u \in Threads : u # t => th'[u] = th[u], session' = session,
         /\ th'[t].at \in InCall => /\ th[t].at \in InCall
                                   /\ th'[t].in = th[t].in /\ th'[t].client = th[t].client
         /\ th'[t].at \in Buying => t = Main
         /\ th'[t].at \in Reading => t # Main
  PROVE  RoleInv'
  BY DEF RoleInv, Role

\* The construction of the locks, when no thread is at it.
LEMMA BuildStays ==
  ASSUME BuildInv, UNCHANGED lock,
         \A u \in Threads :
           /\ th'[u].at = "enter" => th[u].at = "enter" /\ th'[u].in = th[u].in
           /\ th[u].at = "construct" => th'[u].at = "construct" /\ th'[u].in = th[u].in
  PROVE  BuildInv'
<1>1. guard' = guard /\ cs' = cs
  BY DEF lock
<1>. QED
  BY <1>1 DEF BuildInv

BaseInv == TypeInv /\ RoleInv /\ BuildInv

\* A call begins.
LEMMA CallBase ==
  ASSUME BaseInv, NEW s \in Sessions, CallAdd(s) \/ \E t \in Workers : CallRemove(t, s)
  PROVE  BaseInv'
<1> USE DEF BaseInv
<1>0. TypeInv /\ {"AddTcpClient", "RemoveTcpClient"} \subseteq Calls
  BY DEF Calls
<1>1. CASE CallAdd(s)
  <2>1. /\ th[Main].at = "idle" /\ session[s] = "new" /\ session' = [session EXCEPT ![s] = "added"]
        /\ th' = [th EXCEPT ![Main] = [Idle EXCEPT !.at = "test", !.in = "AddTcpClient", !.client = s]]
        /\ UNCHANGED <<mem, lock>>
    BY <1>1, IdleIs DEF CallAdd, At, Idle
  <2>2. /\ th' \in [Threads -> ThreadRecords]
        /\ th'[Main].at = "test" /\ th'[Main].in = "AddTcpClient" /\ th'[Main].client = s
        /\ \A u \in Threads : u # Main => th'[u] = th[u]
    BY <1>0, <2>1, EndIs, CallIs
  <2>3. TypeInv'
    BY <2>1, <2>2 DEF TypeInv, mem, lock
  <2>4. Role(Main)'
    BY <2>1, <2>2 DEF Role, TypeInv, Buying, Reading
  <2>5. ASSUME NEW u \in Threads, u # Main PROVE Role(u)'
    <3>1. Role(u) /\ th'[u] = th[u]
      BY <2>2, <2>5 DEF RoleInv
    <3>2. th[u].at \in InCall => th[u].client # s
      BY <2>1, <2>5, <3>1 DEF Role
    <3>. QED
      BY <2>1, <2>5, <3>1, <3>2 DEF Role, TypeInv
  <2>6. BuildInv'
    BY <2>1, <2>2, BuildStays
  <2>. QED
    BY <2>3, <2>4, <2>5, <2>6 DEF RoleInv
<1>2. ASSUME NEW t \in Workers, CallRemove(t, s) PROVE BaseInv'
  <2>1. /\ th[t].at = "idle" /\ session[s] # "new" /\ session' = [session EXCEPT ![s] = "removed"]
        /\ th' = [th EXCEPT ![t] = [Idle EXCEPT !.at = "test", !.in = "RemoveTcpClient", !.client = s]]
        /\ UNCHANGED <<mem, lock>> /\ t \in Threads /\ t # Main
        /\ th[Main].at # "idle" => th[Main].client # s
    BY <1>2, EndIs DEF CallRemove, At, Reachable
  <2>2. /\ th' \in [Threads -> ThreadRecords]
        /\ th'[t].at = "test" /\ th'[t].in = "RemoveTcpClient" /\ th'[t].client = s
        /\ \A u \in Threads : u # t => th'[u] = th[u]
    BY <1>0, <2>1, CallIs
  <2>3. TypeInv'
    BY <2>1, <2>2 DEF TypeInv, mem, lock
  <2>4. Role(t)'
    BY <2>1, <2>2 DEF Role, TypeInv, Buying, Reading
  <2>5. ASSUME NEW u \in Threads, u # t PROVE Role(u)'
    <3>1. Role(u) /\ th'[u] = th[u]
      BY <2>2, <2>5 DEF RoleInv
    <3>2. u = Main /\ th[u].at \in InCall => th[u].client # s
      BY <2>1 DEF InCall, Locking, Seeking, Buying
    <3>. QED
      BY <2>1, <2>5, <3>1, <3>2 DEF Role, TypeInv
  <2>6. BuildInv'
    BY <2>1, <2>2, BuildStays
  <2>. QED
    BY <2>3, <2>4, <2>5, <2>6 DEF RoleInv
<1>. QED
  BY <1>1, <1>2

\* SCOPED_LOCK.
LEMMA LockBase ==
  ASSUME BaseInv, NEW t \in Threads, ~ crashed',
         TestGuard(t) \/ SetGuard(t) \/ Construct(t) \/ Enter(t) \/ Leave(t)
  PROVE  BaseInv'
<1> USE DEF BaseInv
<1>0. /\ UNCHANGED <<mem, session>> /\ TypeInv /\ t \in Threads
      /\ th[t].at \in {"test", "guard", "construct", "enter", "leave"}
      /\ \E l \in {"guard", "construct", "enter", "first", "hung", "idle", "close"} :
           /\ Goto(t, l) /\ l \in Steps
           /\ l = "enter" /\ th[t].at # "construct" => guard[th[t].in]
           /\ th[t].at = "construct" => l = "enter" /\ cs' = [cs EXCEPT ![th[t].in] = Free]
           /\ guard' # guard => l = "construct" /\ guard' = [guard EXCEPT ![th[t].in] = TRUE]
           /\ \/ cs' = cs \/ cs' = [cs EXCEPT ![th[t].in] = Free] \/ cs' = [cs EXCEPT ![th[t].in] = t]
  <2>0. {"guard", "construct", "enter", "first", "hung", "idle", "close"} \subseteq Steps
    BY DEF Steps, InCall, Locking, Seeking
  <2>1. CASE TestGuard(t)
    BY <2>0, <2>1 DEF TestGuard, At, Same, lock
  <2>2. CASE SetGuard(t)
    BY <2>0, <2>2 DEF SetGuard, At, Same
  <2>3. CASE Construct(t)
    BY <2>0, <2>3 DEF Construct, At, Same
  <2>4. CASE Enter(t)
    BY <2>0, <2>4 DEF Enter, At, Same
  <2>5. CASE Leave(t)
    BY <2>0, <2>5 DEF Leave, At, Same
  <2>. QED
    BY <2>1, <2>2, <2>3, <2>4, <2>5
<1>1. PICK l \in {"guard", "construct", "enter", "first", "hung", "idle", "close"} :
           /\ Goto(t, l) /\ l \in Steps
           /\ l = "enter" /\ th[t].at # "construct" => guard[th[t].in]
           /\ th[t].at = "construct" => l = "enter" /\ cs' = [cs EXCEPT ![th[t].in] = Free]
           /\ guard' # guard => l = "construct" /\ guard' = [guard EXCEPT ![th[t].in] = TRUE]
           /\ \/ cs' = cs \/ cs' = [cs EXCEPT ![th[t].in] = Free] \/ cs' = [cs EXCEPT ![th[t].in] = t]
  BY <1>0
<1>2. /\ th' \in [Threads -> ThreadRecords]
      /\ th'[t].at = l /\ th'[t].in = th[t].in /\ th'[t].client = th[t].client
      /\ \A u \in Threads : u # t => th'[u] = th[u]
  BY <1>0, <1>1, GotoIs
<1>3. th[t].in \in Calls
  BY DEF TypeInv, ThreadRecords
<1>4. TypeInv'
  <2>1. guard' \in [Calls -> BOOLEAN]
    BY <1>1, <1>3 DEF TypeInv
  <2>2. cs' \in [Calls -> Threads \cup {Raw, Free}]
    BY <1>1, <1>3 DEF TypeInv
  <2>. QED
    BY <1>0, <1>2, <2>1, <2>2 DEF TypeInv, mem
<1>5. RoleInv'
  <2>1. th[t].at \in InCall /\ l \notin Buying /\ l \notin Reading
    BY <1>0 DEF InCall, Locking, Seeking, Buying, Reading
  <2>. QED
    BY <1>0, <1>2, <2>1, RoleStays
<1>6. BuildInv'
  <2>1. SUFFICES ASSUME NEW f \in Calls, (guard[f] \/ (\E u \in Threads : th[u].in = f /\ th[u].at = "enter"))'
                 PROVE  (cs[f] # Raw \/ \E u \in Threads : th[u].in = f /\ th[u].at = "construct")'
    BY DEF BuildInv
  <2>2. cs[f] # Raw => cs'[f] # Raw
    BY <1>1, <1>3, EndIs DEF TypeInv
  <2>3. CASE l = "construct" /\ th[t].in = f
    BY <1>2, <2>3
  <2>4. CASE th[t].at = "construct" /\ th[t].in = f
    BY <1>1, <1>3, <2>4, EndIs DEF TypeInv
  <2>5. CASE ~ (l = "construct" /\ th[t].in = f) /\ ~ (th[t].at = "construct" /\ th[t].in = f)
    <3>1. guard'[f] = guard[f]
      BY <1>1, <1>3, <2>5 DEF TypeInv
    <3>2. guard[f] \/ \E u \in Threads : th[u].in = f /\ th[u].at = "enter"
      BY <1>1, <1>2, <2>1, <2>5, <3>1
    <3>3. cs[f] # Raw \/ \E u \in Threads : th[u].in = f /\ th[u].at = "construct"
      BY <3>2 DEF BuildInv
    <3>. QED
      BY <1>2, <2>2, <2>5, <3>3
  <2>. QED
    BY <2>3, <2>4, <2>5
<1>. QED
  BY <1>4, <1>5, <1>6

\* The list.
LEMMA ListBase ==
  ASSUME BaseInv, NEW t \in Threads, ~ crashed',
         First(t) \/ Compare(t) \/ Unlink(t) \/ Erase(t) \/ BuyNode(t) \/ LinkPrev(t) \/ LinkNext(t)
  PROVE  BaseInv'
<1> USE DEF BaseInv
<1>0. /\ th[t].at \in InCall /\ TypeInv /\ UNCHANGED <<lock, session>>
      /\ {"compare", "erase", "linkprev", "linknext", "leave"} \subseteq Steps
  BY DEF First, Compare, Unlink, Erase, BuyNode, LinkPrev, LinkNext, At, Touch, Same, InCall, Seeking, Buying, Steps
<1>1. /\ th' \in [Threads -> ThreadRecords] /\ th'[t].in = th[t].in /\ th'[t].client = th[t].client
      /\ \A u \in Threads : u # t => th'[u] = th[u]
      /\ th'[t].at \in {"compare", "unlink", "erase", "buynode", "linkprev", "linknext", "leave"}
      /\ th'[t].at \in Buying => th[t].at \in Buying \/ th[t].in = "AddTcpClient"
  <2>1. CASE First(t)
    <3>1. next[end] \in Places /\ th' = [th EXCEPT ![t].node = next[end], ![t].at = "compare"]
      BY <2>1 DEF First, TypeInv, Places
    <3>. QED
      BY <1>0, <3>1, MoveIs DEF Buying
  <2>2. CASE Compare(t)
    BY <2>2, CompareIs DEF Buying
  <2>3. CASE Unlink(t)
    <3>1. Goto(t, "erase")
      BY <2>3 DEF Unlink, Touch
    <3>. QED
      BY <1>0, <3>1, GotoIs DEF Buying
  <2>4. CASE Erase(t)
    <3>1. next[th[t].node] \in Places /\ th' = [th EXCEPT ![t].node = next[th[t].node], ![t].at = "compare"]
      BY <2>4 DEF Erase, Touch, TypeInv, ThreadRecords
    <3>. QED
      BY <1>0, <3>1, MoveIs DEF Buying
  <2>5. CASE BuyNode(t)
    <3>1. PICK n \in Nodes : th' = [th EXCEPT ![t].node = n, ![t].at = "linkprev"]
      BY <2>5 DEF BuyNode
    <3>2. n \in Places /\ th[t].at \in Buying
      BY <2>5 DEF Places, BuyNode, At, Buying
    <3>. QED
      BY <1>0, <3>1, <3>2, MoveIs
  <2>6. CASE LinkPrev(t)
    <3>1. Goto(t, "linknext") /\ th[t].at \in Buying
      BY <2>6 DEF LinkPrev, At, Buying
    <3>. QED
      BY <1>0, <3>1, GotoIs
  <2>7. CASE LinkNext(t)
    <3>1. Goto(t, "leave") /\ th[t].at \in Buying
      BY <2>7 DEF LinkNext, At, Buying
    <3>. QED
      BY <1>0, <3>1, GotoIs
  <2>. QED
    BY <2>1, <2>2, <2>3, <2>4, <2>5, <2>6, <2>7
<1>2. /\ next' \in [Places -> Places] /\ prev' \in [Places -> Places]
      /\ val' \in [Nodes -> Someone] /\ live' \subseteq Nodes
  <2>0. /\ next \in [Places -> Places] /\ prev \in [Places -> Places] /\ end \in Places /\ Nodes \subseteq Places
        /\ val \in [Nodes -> Someone] /\ live \subseteq Nodes /\ th[t].node \in Places /\ th[t].client \in Someone
    BY DEF TypeInv, ThreadRecords, Places
  <2>1. CASE First(t) \/ Compare(t)
    BY <2>0, <2>1, CompareIs DEF First, Same, mem
  <2>3. CASE Unlink(t)
    BY <2>0, <2>3 DEF Unlink, Touch
  <2>4. CASE Erase(t)
    BY <2>0, <2>4 DEF Erase, Touch
  <2>5. CASE BuyNode(t)
    BY <2>0, <2>5 DEF BuyNode
  <2>6. CASE LinkPrev(t)
    BY <2>0, <2>6 DEF LinkPrev, Same
  <2>7. CASE LinkNext(t)
    BY <2>0, <2>7 DEF LinkNext, Same
  <2>. QED
    BY <2>1, <2>3, <2>4, <2>5, <2>6, <2>7
<1>3. TypeInv'
  BY <1>0, <1>1, <1>2 DEF TypeInv, lock
<1>4. RoleInv'
  <2>1. th'[t].at \in InCall /\ th'[t].at \notin Reading
    BY <1>1 DEF InCall, Seeking, Buying, Reading
  <2>2. th[t].at \in Buying \/ th[t].in = "AddTcpClient" => t = Main
    BY <1>0 DEF RoleInv, Role
  <2>. QED
    BY <1>0, <1>1, <2>1, <2>2, RoleStays
<1>5. BuildInv'
  <2>1. th'[t].at # "enter" /\ th[t].at # "construct"
    BY <1>1 DEF First, Compare, Unlink, Erase, BuyNode, LinkPrev, LinkNext, At
  <2>. QED
    BY <1>0, <1>1, <2>1, BuildStays
<1>. QED
  BY <1>3, <1>4, <1>5

\* The broadcasts.
LEMMA ReadBase ==
  ASSUME BaseInv, NEW t \in Threads, ~ crashed',
         BeginBroadcast(t) \/ Visit(t) \/ Flush(t) \/ EndBroadcast(t)
  PROVE  BaseInv'
<1> USE DEF BaseInv
<1>1. /\ th' \in [Threads -> ThreadRecords] /\ \A u \in Threads : u # t => th'[u] = th[u]
      /\ UNCHANGED <<mem, lock, session>> /\ th'[t].at \in {"idle", "visit", "flush", "visited"}
      /\ th[t].at \in {"visit", "flush", "visited"} \/ (t \in Workers /\ th[t].at = "idle")
  <2>1. CASE BeginBroadcast(t)
    BY <2>1, BroadcastIs
  <2>2. CASE Visit(t)
    BY <2>2, VisitIs
  <2>3. CASE Flush(t)
    BY <2>3, FlushIs
  <2>4. CASE EndBroadcast(t)
    <3>1. th[t].at = "visited" /\ Goto(t, "idle") /\ "idle" \in Steps /\ UNCHANGED <<mem, lock, session>>
      BY <2>4 DEF EndBroadcast, At, Same, Steps
    <3>. QED
      BY <3>1, GotoIs
  <2>. QED
    BY <2>1, <2>2, <2>3, <2>4
<1>2. TypeInv'
  BY <1>1 DEF TypeInv, mem, lock
<1>3. RoleInv'
  <2>1. th'[t].at \notin InCall /\ th'[t].at \notin Buying /\ t # Main
    BY <1>1, EndIs DEF InCall, Locking, Seeking, Buying, RoleInv, Role, Reading
  <2>. QED
    BY <1>1, <2>1, RoleStays
<1>4. BuildInv'
  BY <1>1, BuildStays
<1>. QED
  BY <1>2, <1>3, <1>4

\* What a session's Close does.
LEMMA CloseIs ==
  ASSUME TypeInv, NEW t \in Threads, CloseRemoved(t) \/ \E s \in Sessions : Close(t, s)
  PROVE  /\ UNCHANGED <<mem, lock, session, crashed>> /\ closing \subseteq closing'
         /\ th' \in [Threads -> ThreadRecords] /\ \A u \in Threads : u # t => th'[u] = th[u]
         /\ th[t].at \in {"idle", "close"} /\ th'[t].at = "idle"
<1>1. CASE CloseRemoved(t)
  <2>1. Goto(t, "idle") /\ "idle" \in Steps
    BY <1>1 DEF CloseRemoved, Steps
  <2>. QED
    BY <1>1, <2>1, GotoIs DEF CloseRemoved, At
<1>2. CASE \E s \in Sessions : Close(t, s)
  BY <1>2 DEF Close, At, TypeInv
<1>. QED
  BY <1>1, <1>2

LEMMA CloseBase ==
  ASSUME BaseInv, NEW t \in Threads, CloseRemoved(t) \/ \E s \in Sessions : Close(t, s)
  PROVE  BaseInv'
<1> USE DEF BaseInv
<1>1. /\ UNCHANGED <<mem, lock, session>> /\ th' \in [Threads -> ThreadRecords]
      /\ \A u \in Threads : u # t => th'[u] = th[u]
      /\ th[t].at \in {"idle", "close"} /\ th'[t].at = "idle"
  BY CloseIs
<1>2. TypeInv'
  BY <1>1 DEF TypeInv, mem, lock
<1>3. RoleInv'
  <2>1. "idle" \notin InCall /\ "idle" \notin Buying /\ "idle" \notin Reading
    BY DEF InCall, Locking, Seeking, Buying, Reading
  <2>. QED
    BY <1>1, <2>1, RoleStays
<1>4. BuildInv'
  BY <1>1, BuildStays
<1>. QED
  BY <1>2, <1>3, <1>4

\* The part of the invariant without the list is inductive.
LEMMA BaseStep == BaseInv /\ [Next]_vars => BaseInv'
<1> SUFFICES ASSUME BaseInv, [Next]_vars PROVE BaseInv'
  OBVIOUS
<1>1. CASE UNCHANGED <<mem, lock, th, session>>
  BY <1>1 DEF BaseInv, TypeInv, RoleInv, Role, BuildInv, mem, lock
<1>2. ASSUME NEW t \in Threads, Does(t) PROVE BaseInv'
  <2>1. CASE crashed'
    BY <1>1, <1>2, <2>1, CrashStep
  <2>2. CASE ~ crashed'
    BY <1>2, <2>2, LockBase, ListBase, ReadBase, CloseBase DEF Does
  <2>. QED
    BY <2>1, <2>2
<1>3. CASE \E s \in Sessions : CallAdd(s) \/ \E t \in Workers : CallRemove(t, s) \/ Close(t, s)
  <2>1. Workers \subseteq Threads
    BY EndIs
  <2>. QED
    BY <1>3, <2>1, CallBase, CloseBase
<1>4. CASE UNCHANGED vars
  BY <1>1, <1>4 DEF vars
<1>. QED
  BY <1>2, <1>3, <1>4 DEF Next, Does

-----------------------------------------------------------------------------
(* The list under steps that change no node.                               *)

\* One thread moves, and has no node in hand before or after.
Moves(t) ==
  /\ UNCHANGED mem
  /\ \A u \in Threads : u # t => th'[u] = th[u]
  /\ th[t].at \notin Out /\ th'[t].at \notin Out
  /\ closing \subseteq closing'

\* Where nodes and threads can be.
LEMMA PlacesAre ==
  ASSUME TypeInv
  PROVE  /\ InList \subseteq live /\ live \subseteq Nodes /\ InList \subseteq Nodes /\ end \notin InList
         /\ \A t \in Threads : th[t].node \in Places
         /\ \A n \in InList \cup {end} : n \in Places
  BY EndIs DEF TypeInv, InList, ThreadRecords, Places

\* The links, when a thread moves and touches no node.
LEMMA LinksStay ==
  ASSUME NEW t \in Threads, Moves(t)
  PROVE  /\ InList' = InList
         /\ LinkInv => LinkInv'
<1>0. next' = next /\ prev' = prev /\ val' = val /\ live' = live
  BY DEF Moves, mem
<1>1. Outside' = Outside
  BY DEF Moves, Outside
<1>2. Skipped' = Skipped
  <2>1. {"linknext", "erase"} \subseteq Out
    BY DEF Out
  <2>. QED
    BY <2>1 DEF Moves, Skipped
<1>3. InList' = InList
  BY <1>0, <1>1 DEF InList
<1>4. ASSUME RingInv PROVE RingInv'
  BY <1>0, <1>2, <1>3, <1>4 DEF RingInv, Back
<1>5. ASSUME NEW u \in Threads, Hand(u) PROVE Hand(u)'
  <2>1. CASE u = t
    <3>1. th'[u].at \notin {"linkprev", "linknext", "erase"}
      BY <2>1 DEF Moves, Out
    <3>. QED
      BY <3>1 DEF Hand, Out
  <2>2. CASE u # t
    <3>1. th'[u] = th[u]
      BY <2>2 DEF Moves
    <3>. QED
      BY <1>0, <1>3, <1>5, <3>1 DEF Hand
  <2>. QED
    BY <2>1, <2>2
<1>. QED
  BY <1>3, <1>4, <1>5 DEF LinkInv

\* The rank of the nodes, when a thread moves and touches no node.
LEMMA ChainStays ==
  ASSUME NEW t \in Threads, Moves(t), torn => torn', NEW r, NEW m, ChainInv(r, m),
         Seek(r, t)', ~ torn' => Read(r, t)'
  PROVE  ChainInv(r, m)'
<1>0. next' = next /\ prev' = prev /\ val' = val /\ live' = live /\ InList' = InList
  BY LinksStay DEF Moves, mem
<1>1. \A n : From(r, n)' = From(r, n)
  BY <1>0 DEF From
<1>2. OrderInv(r, m)'
  BY <1>0, <1>1 DEF ChainInv, OrderInv
<1>3. ASSUME NEW u \in Threads, u # t PROVE Seek(r, u)' /\ (~ torn' => Read(r, u)')
  <2>1. th'[u] = th[u] /\ Seek(r, u) /\ (~ torn => Read(r, u))
    BY <1>3 DEF Moves, ChainInv
  <2>2. Seek(r, u)'
    BY <1>0, <1>1, <2>1 DEF Seek
  <2>3. ASSUME ~ torn' PROVE Read(r, u)'
    <3>1. Read(r, u) /\ closing \subseteq closing'
      BY <2>1, <2>3 DEF Moves
    <3>2. \A s \in th'[u].owed \ closing' : s \in th[u].owed \ closing
      BY <2>1, <3>1
    <3>3. th[u].at = "visit" =>
            /\ th[u].node \in InList' \cup {end}
            /\ \A s \in th'[u].owed \ closing' : \E x \in From(r, th[u].node)' : val'[x] = s
      BY <1>0, <1>1, <2>1, <3>1, <3>2 DEF Read
    <3>4. th[u].at = "flush" =>
            /\ th[u].node \in InList'
            /\ \A s \in th'[u].owed \ closing' : \E x \in From(r, next[th[u].node])' : val'[x] = s
      BY <1>0, <1>1, <2>1, <3>1, <3>2 DEF Read
    <3>5. th[u].at = "visited" => th'[u].owed \subseteq closing'
      BY <2>1, <3>1 DEF Read
    <3>. QED
      BY <1>0, <1>1, <2>1, <3>3, <3>4, <3>5 DEF Read
  <2>. QED
    BY <2>2, <2>3
<1>. QED
  BY <1>2, <1>3 DEF ChainInv

\* The sessions in the list, when nothing is added and a call is given up only
\* when its session is not there.
LEMMA ValuesStay ==
  ASSUME NEW t \in Threads, Moves(t), session' = session, ValueInv,
         t = Main => /\ th'[t].at \in InCall \ {"leave"} <=> th[t].at \in InCall \ {"leave"}
                     /\ th[t].at \in InCall \ {"leave"} => th'[t].client = th[t].client,
         th[t].at \in Locking \cup Seeking =>
           \/ th'[t].at \in Locking \cup Seeking /\ th'[t].client = th[t].client
           \/ \A n \in InList : val[n] # th[t].client
  PROVE  ValueInv'
<1>0. val' = val /\ InList' = InList
  BY LinksStay DEF Moves, mem
<1>1. \A s : Adding(s)' <=> Adding(s)
  BY EndIs DEF Moves, Adding
<1>2. ASSUME NEW n \in InList, Pending(val[n]) PROVE Pending(val[n])'
  <2>1. PICK u \in Workers : th[u].at \in Locking \cup Seeking /\ th[u].client = val[n]
    BY <1>2 DEF Pending
  <2>2. th'[u].at \in Locking \cup Seeking /\ th'[u].client = val[n]
    BY <1>2, <2>1, EndIs DEF Moves
  <2>. QED
    BY <1>0, <2>2 DEF Pending
<1>. QED
  BY <1>0, <1>1, <1>2 DEF ValueInv

\* No two threads change the list.
LEMMA OneChanges ==
  ASSUME TypeInv, AtMostOne, NEW t \in Threads, Changing(t)
  PROVE  /\ th[t].at \notin Out => Outside = {} /\ Skipped = {} /\ InList = live
         /\ th[t].at \in Out => Outside = {th[t].node} /\ InList = live \ {th[t].node}
         /\ th[t].at \in {"linknext", "erase"} => Skipped = {th[t].node}
         /\ th[t].at \notin {"linknext", "erase"} => Skipped = {}
         /\ \A u \in Threads : u # t => ~ Changing(u) /\ th[u].at \notin Out
<1>1. \A u \in Threads : th[u].at \in Out \cup {"linknext", "erase"} => Changing(u)
  BY DEF Out, Changing
<1>2. \A u \in Threads : u # t => ~ Changing(u)
  BY DEF AtMostOne
<1>3. \A u \in Threads : u # t => th[u].at \notin Out \cup {"linknext", "erase"}
  BY <1>1, <1>2
<1>4. th[t].at \notin Out => Outside = {}
  BY <1>3 DEF Outside
<1>5. th[t].at \in Out => Outside = {th[t].node}
  BY <1>3 DEF Outside
<1>6. th[t].at \in {"linknext", "erase"} => Skipped = {th[t].node}
  BY <1>3 DEF Skipped
<1>7. th[t].at \notin {"linknext", "erase"} => Skipped = {}
  BY <1>3 DEF Skipped
<1>. QED
  BY <1>2, <1>3, <1>4, <1>5, <1>6, <1>7 DEF InList, Out

-----------------------------------------------------------------------------
(* The steps that change no node.                                          *)

\* SCOPED_LOCK and the beginning of a search.
LEMMA LockWhole ==
  ASSUME BaseInv, Whole, NEW t \in Threads, ~ crashed', torn => torn',
         TestGuard(t) \/ SetGuard(t) \/ Construct(t) \/ Enter(t) \/ Leave(t)
  PROVE  Whole'
<1>0. /\ UNCHANGED <<mem, session, closing>> /\ TypeInv
      /\ \E l \in {"guard", "construct", "enter", "first", "hung", "idle", "close"} :
           /\ Goto(t, l) /\ l \in Steps
           /\ \/ l \in {"idle", "close"} /\ th[t].at = "leave"
              \/ l \notin {"idle", "close"} /\ th[t].at \in {"test", "guard", "construct", "enter"}
  <2>0. {"guard", "construct", "enter", "first", "hung", "idle", "close"} \subseteq Steps
    BY DEF Steps, InCall, Locking, Seeking
  <2>1. CASE TestGuard(t)
    BY <2>0, <2>1 DEF TestGuard, At, Same, BaseInv
  <2>2. CASE SetGuard(t)
    BY <2>0, <2>2 DEF SetGuard, At, Same, BaseInv
  <2>3. CASE Construct(t)
    BY <2>0, <2>3 DEF Construct, At, Same, BaseInv
  <2>4. CASE Enter(t)
    BY <2>0, <2>4 DEF Enter, At, Same, BaseInv
  <2>5. CASE Leave(t)
    BY <2>0, <2>5 DEF Leave, At, Same, BaseInv
  <2>. QED
    BY <2>1, <2>2, <2>3, <2>4, <2>5
<1>1. PICK l \in {"guard", "construct", "enter", "first", "hung", "idle", "close"} :
           /\ Goto(t, l) /\ l \in Steps
           /\ \/ l \in {"idle", "close"} /\ th[t].at = "leave"
              \/ l \notin {"idle", "close"} /\ th[t].at \in {"test", "guard", "construct", "enter"}
  BY <1>0
<1>2. /\ th'[t].at = l /\ th'[t].client = th[t].client
      /\ \A u \in Threads : u # t => th'[u] = th[u]
  BY <1>0, <1>1, GotoIs
<1>3. Moves(t)
  BY <1>0, <1>1, <1>2 DEF Moves, Out
<1>4. LinkInv'
  BY <1>3, LinksStay DEF Whole
<1>5. ValueInv'
  <2>1. \/ l \in {"idle", "close"} /\ th[t].at = "leave"
        \/ l \in Locking \cup Seeking /\ th[t].at \in Locking
    BY <1>1 DEF Locking, Seeking
  <2>2. "idle" \notin InCall /\ "close" \notin InCall /\ "leave" \notin Locking \cup Seeking /\ Locking \cup Seeking \subseteq InCall \ {"leave"}
    BY DEF Locking, Seeking, InCall, Buying
  <2>. QED
    BY <1>0, <1>2, <1>3, <2>1, <2>2, ValuesStay DEF Whole
<1>6. PICK r \in [Nodes -> Nat], m \in Nat : ChainInv(r, m)
  BY DEF Whole
<1>7. Seek(r, t)' /\ Read(r, t)'
  BY <1>1, <1>2 DEF Seek, Read
<1>8. ChainInv(r, m)'
  BY <1>3, <1>6, <1>7, ChainStays
<1>. QED
  BY <1>4, <1>5, <1>8 DEF Whole

\* find begins at the first node.
LEMMA FirstWhole ==
  ASSUME BaseInv, Whole, NEW t \in Threads, torn => torn', First(t)
  PROVE  Whole'
<1>0. /\ th[t].at = "first" /\ th' = [th EXCEPT ![t].node = next[end], ![t].at = "compare"]
      /\ UNCHANGED <<mem, session, closing>> /\ TypeInv /\ next[end] \in Places /\ "compare" \in Steps
  BY DEF First, At, Same, BaseInv, TypeInv, Places, Steps, InCall, Seeking
<1>1. /\ th'[t].at = "compare" /\ th'[t].client = th[t].client /\ th'[t].node = next[end]
      /\ \A u \in Threads : u # t => th'[u] = th[u]
  BY <1>0, MoveIs
<1>2. Moves(t)
  BY <1>0, <1>1 DEF Moves, Out
<1>3. LinkInv'
  BY <1>2, LinksStay DEF Whole
<1>4. ValueInv'
  <2>1. {"first", "compare"} \subseteq Seeking /\ Seeking \subseteq InCall \ {"leave"}
    BY DEF Seeking, InCall
  <2>. QED
    BY <1>0, <1>1, <1>2, <2>1, ValuesStay DEF Whole
<1>5. PICK r \in [Nodes -> Nat], m \in Nat : ChainInv(r, m)
  BY DEF Whole
<1>6. Seek(r, t)'
  <2>1. next[end] \in InList \cup {end} /\ From(r, next[end]) = InList
    BY <1>5 DEF Whole, LinkInv, RingInv, ChainInv, OrderInv
  <2>2. next' = next /\ val' = val /\ InList' = InList
    BY <1>0, <1>2, LinksStay DEF mem
  <2>3. \A n : From(r, n)' = From(r, n)
    BY <2>2 DEF From
  <2>. QED
    BY <1>1, <2>1, <2>2, <2>3 DEF Seek
<1>7. Read(r, t)'
  BY <1>1 DEF Read
<1>8. ChainInv(r, m)'
  BY <1>2, <1>5, <1>6, <1>7, ChainStays
<1>. QED
  BY <1>3, <1>4, <1>8 DEF Whole

\* find looks at one node.
LEMMA CompareWhole ==
  ASSUME BaseInv, Whole, NEW t \in Threads, ~ crashed', torn => torn', Compare(t)
  PROVE  Whole'
<1>0. /\ TypeInv /\ Role(t)
      /\ th'[t].in = th[t].in /\ th'[t].client = th[t].client /\ th[t].at = "compare"
      /\ \A u \in Threads : u # t => th'[u] = th[u]
      /\ \/ /\ th[t].node = end /\ th'[t].node = end
            /\ th'[t].at = IF th[t].in = "AddTcpClient" THEN "buynode" ELSE "leave"
         \/ /\ th[t].node \in live /\ val[th[t].node] = th[t].client
            /\ th'[t].node = th[t].node /\ th'[t].at = "unlink"
         \/ /\ th[t].node \in live /\ val[th[t].node] # th[t].client
            /\ th'[t].node = next[th[t].node] /\ th'[t].at = "compare"
      /\ UNCHANGED <<mem, session, closing>>
  BY CompareIs DEF BaseInv, RoleInv
<1>1. /\ "compare" \in InCall \ {"leave"} /\ "compare" \in Seeking
      /\ {"unlink", "buynode", "compare"} \subseteq InCall \ {"leave"} /\ {"unlink", "compare"} \subseteq Seeking
  BY DEF InCall, Seeking, Buying
<1>2. Moves(t)
  BY <1>0 DEF Moves, Out
<1>3. LinkInv'
  BY <1>2, LinksStay DEF Whole
<1>4. PICK r \in [Nodes -> Nat], m \in Nat : ChainInv(r, m)
  BY DEF Whole
<1>5. /\ th[t].node \in InList \cup {end}
      /\ \A n \in InList : val[n] = th[t].client => n \in From(r, th[t].node)
  BY <1>0, <1>4 DEF ChainInv, Seek
<1>6. th[t].node = end => \A n \in InList : val[n] # th[t].client
  BY <1>5 DEF From
<1>7. t = Main => th[t].in = "AddTcpClient" /\ \A n \in InList : val[n] # th[t].client
  <2>1. t = Main => Adding(th[t].client) /\ th[t].in = "AddTcpClient"
    BY <1>0, <1>1 DEF Adding, Role
  <2>. QED
    BY <2>1 DEF Whole, ValueInv
<1>8. end \notin InList /\ InList \subseteq live /\ end \notin live
  BY <1>0, PlacesAre, EndIs
<1>9. ValueInv'
  <2>1. t = Main => th'[t].at \in InCall \ {"leave"}
    BY <1>0, <1>1, <1>7
  <2>2. th'[t].at \in Seeking \/ \A n \in InList : val[n] # th[t].client
    BY <1>0, <1>1, <1>6
  <2>. QED
    BY <1>0, <1>1, <1>2, <2>1, <2>2, ValuesStay DEF Whole
<1>10. next' = next /\ val' = val /\ InList' = InList
  BY <1>0, <1>2, LinksStay DEF mem
<1>11. \A n : From(r, n)' = From(r, n)
  BY <1>10 DEF From
<1>12. Seek(r, t)'
  <2>1. CASE th[t].node = end
    BY <1>0, <1>8, <2>1 DEF Seek
  <2>2. CASE th[t].node \in live /\ val[th[t].node] = th[t].client
    <3>1. th[t].node \in InList /\ t # Main
      BY <1>5, <1>7, <1>8, <2>2
    <3>. QED
      BY <1>0, <1>8, <1>10, <2>2, <3>1 DEF Seek
  <2>3. CASE th[t].node \in live /\ val[th[t].node] # th[t].client
    <3>1. th[t].node \in InList /\ next[th[t].node] \in InList \cup {end}
      BY <1>5, <1>8, <2>3 DEF Whole, LinkInv, RingInv
    <3>2. ASSUME NEW n \in InList, val[n] = th[t].client PROVE n \in From(r, next[th[t].node])
      <4>1. n \in From(r, th[t].node) /\ n # th[t].node
        BY <1>5, <2>3, <3>2
      <4>2. /\ From(r, next[th[t].node]) = {x \in InList : r[th[t].node] < r[x]}
            /\ r[n] # r[th[t].node]
        BY <1>4, <3>1, <4>1 DEF ChainInv, OrderInv
      <4>3. r[n] \in Nat /\ r[th[t].node] \in Nat
        BY <1>0, <3>1, PlacesAre
      <4>. QED
        BY <4>1, <4>2, <4>3 DEF From
    <3>. QED
      BY <1>0, <1>8, <1>10, <1>11, <2>3, <3>1, <3>2 DEF Seek
  <2>. QED
    BY <1>0, <2>1, <2>2, <2>3
<1>13. Read(r, t)'
  BY <1>0 DEF Read
<1>14. ChainInv(r, m)'
  BY <1>2, <1>4, <1>12, <1>13, ChainStays
<1>. QED
  BY <1>3, <1>9, <1>14 DEF Whole

\* A call begins.
LEMMA AddWhole ==
  ASSUME BaseInv, Whole, NEW s \in Sessions, torn => torn', CallAdd(s)
  PROVE  Whole'
<1>0. /\ th[Main].at = "idle" /\ session[s] = "new" /\ session' = [session EXCEPT ![s] = "added"]
      /\ th' = [th EXCEPT ![Main] = [Idle EXCEPT !.at = "test", !.in = "AddTcpClient", !.client = s]]
      /\ UNCHANGED <<mem, closing>> /\ TypeInv /\ Main \in Threads /\ "AddTcpClient" \in Calls
  BY IdleIs, EndIs DEF CallAdd, At, Idle, BaseInv, Calls
<1>1. /\ th'[Main].at = "test" /\ th'[Main].client = s
      /\ \A u \in Threads : u # Main => th'[u] = th[u]
  BY <1>0, CallIs
<1>2. Moves(Main) /\ "test" \in InCall \ {"leave"} /\ "idle" \notin InCall
  BY <1>0, <1>1 DEF Moves, Out, InCall, Locking, Seeking, Buying
<1>3. LinkInv'
  BY <1>0, <1>2, LinksStay DEF Whole
<1>4. val' = val /\ InList' = InList
  BY <1>0, <1>2, LinksStay DEF mem
<1>5. ValueInv'
  <2>1. \A x : Adding(x)' <=> x = s
    BY <1>1, <1>2 DEF Adding
  <2>2. \A x : ~ Adding(x)
    BY <1>0, <1>2 DEF Adding
  <2>3. ASSUME NEW x, Pending(x) PROVE Pending(x)'
    BY <1>1, <2>3, EndIs DEF Pending
  <2>4. \A n \in InList : val[n] \in Sessions /\ val[n] # s /\ session[val[n]] # "new"
    BY <1>0 DEF Whole, ValueInv
  <2>5. \A x \in Sessions : x # s => session'[x] = session[x]
    BY <1>0 DEF TypeInv
  <2>6. ASSUME NEW n \in InList
        PROVE  /\ val[n] \in Sessions /\ session'[val[n]] # "new" /\ ~ Adding(val[n])'
               /\ session'[val[n]] = "removed" => Pending(val[n])'
    BY <1>4, <2>1, <2>3, <2>4, <2>5 DEF Whole, ValueInv
  <2>7. ASSUME NEW x \in Sessions, session'[x] = "added", ~ Adding(x)' PROVE \E n \in InList : val[n] = x
    BY <2>1, <2>2, <2>5, <2>7 DEF Whole, ValueInv
  <2>. QED
    BY <1>4, <2>6, <2>7 DEF Whole, ValueInv
<1>6. PICK r \in [Nodes -> Nat], m \in Nat : ChainInv(r, m)
  BY DEF Whole
<1>7. Seek(r, Main)' /\ Read(r, Main)'
  BY <1>1 DEF Seek, Read
<1>8. ChainInv(r, m)'
  BY <1>0, <1>2, <1>6, <1>7, ChainStays
<1>. QED
  BY <1>3, <1>5, <1>8 DEF Whole

\* RemoveTcpClient is called.
LEMMA RemoveWhole ==
  ASSUME BaseInv, Whole, NEW t \in Workers, NEW s \in Sessions, torn => torn', CallRemove(t, s)
  PROVE  Whole'
<1>0. /\ th[t].at = "idle" /\ session[s] # "new" /\ session' = [session EXCEPT ![s] = "removed"]
      /\ th' = [th EXCEPT ![t] = [Idle EXCEPT !.at = "test", !.in = "RemoveTcpClient", !.client = s]]
      /\ UNCHANGED <<mem, closing>> /\ TypeInv /\ t \in Threads /\ t # Main /\ "RemoveTcpClient" \in Calls
  BY EndIs DEF CallRemove, At, Reachable, BaseInv, Calls
<1>1. /\ th'[t].at = "test" /\ th'[t].client = s
      /\ \A u \in Threads : u # t => th'[u] = th[u]
  BY <1>0, CallIs
<1>2. Moves(t) /\ "test" \in Locking
  BY <1>0, <1>1 DEF Moves, Out, Locking
<1>3. LinkInv'
  BY <1>0, <1>2, LinksStay DEF Whole
<1>4. val' = val /\ InList' = InList
  BY <1>0, <1>2, LinksStay DEF mem
<1>5. ValueInv'
  <2>1. \A x : Adding(x)' <=> Adding(x)
    BY <1>0, <1>1, EndIs DEF Adding
  <2>2. Pending(s)'
    BY <1>1, <1>2 DEF Pending
  <2>3. ASSUME NEW x, Pending(x) PROVE Pending(x)'
    <3>1. PICK u \in Workers : th[u].at \in Locking \cup Seeking /\ th[u].client = x
      BY <2>3 DEF Pending
    <3>2. u # t
      BY <1>0, <3>1 DEF Locking, Seeking
    <3>. QED
      BY <1>1, <3>1, <3>2, EndIs DEF Pending
  <2>5. session'[s] = "removed" /\ \A x \in Sessions : x # s => session'[x] = session[x]
    BY <1>0 DEF TypeInv
  <2>6. ASSUME NEW n \in InList
        PROVE  /\ val[n] \in Sessions /\ session'[val[n]] # "new" /\ ~ Adding(val[n])'
               /\ session'[val[n]] = "removed" => Pending(val[n])'
    BY <1>4, <2>1, <2>2, <2>3, <2>5 DEF Whole, ValueInv
  <2>7. ASSUME NEW x \in Sessions, session'[x] = "added", ~ Adding(x)' PROVE \E n \in InList : val[n] = x
    BY <2>1, <2>5, <2>7 DEF Whole, ValueInv
  <2>. QED
    BY <1>4, <2>6, <2>7 DEF Whole, ValueInv
<1>6. PICK r \in [Nodes -> Nat], m \in Nat : ChainInv(r, m)
  BY DEF Whole
<1>7. Seek(r, t)' /\ Read(r, t)'
  BY <1>1 DEF Seek, Read
<1>8. ChainInv(r, m)'
  BY <1>0, <1>2, <1>6, <1>7, ChainStays
<1>. QED
  BY <1>3, <1>5, <1>8 DEF Whole

\* A session is closed.
LEMMA CloseWhole ==
  ASSUME BaseInv, Whole, NEW t \in Threads, torn => torn',
         CloseRemoved(t) \/ \E s \in Sessions : Close(t, s)
  PROVE  Whole'
<1>0. /\ UNCHANGED <<mem, session>> /\ closing \subseteq closing'
      /\ \A u \in Threads : u # t => th'[u] = th[u]
      /\ th[t].at \in {"idle", "close"} /\ th'[t].at = "idle"
  BY CloseIs DEF BaseInv
<1>1. Moves(t)
  BY <1>0 DEF Moves, Out
<1>2. LinkInv'
  BY <1>1, LinksStay DEF Whole
<1>3. ValueInv'
  <2>1. {"idle", "close"} \cap InCall = {} /\ Locking \cup Seeking \subseteq InCall
    BY DEF InCall, Locking, Seeking, Buying
  <2>. QED
    BY <1>0, <1>1, <2>1, ValuesStay DEF Whole
<1>4. PICK r \in [Nodes -> Nat], m \in Nat : ChainInv(r, m)
  BY DEF Whole
<1>5. Seek(r, t)' /\ Read(r, t)'
  BY <1>0 DEF Seek, Read
<1>6. ChainInv(r, m)'
  BY <1>1, <1>4, <1>5, ChainStays
<1>. QED
  BY <1>2, <1>3, <1>6 DEF Whole

\* A broadcast.
LEMMA ReadWhole ==
  ASSUME BaseInv, Whole, NEW t \in Threads, ~ crashed', torn => torn',
         BeginBroadcast(t) \/ Visit(t) \/ Flush(t) \/ EndBroadcast(t)
  PROVE  Whole'
<1>0. /\ TypeInv /\ t # Main /\ \A u \in Threads : u # t => th'[u] = th[u]
      /\ UNCHANGED <<mem, session>> /\ closing \subseteq closing' /\ th'[t].at \in {"idle", "visit", "flush", "visited"}
      /\ th[t].at \in {"visit", "flush", "visited", "idle"}
  <2>0. TypeInv /\ Role(t)
    BY DEF BaseInv, RoleInv
  <2>1. CASE BeginBroadcast(t)
    BY <2>0, <2>1, BroadcastIs, EndIs
  <2>2. CASE Visit(t)
    BY <2>0, <2>2, VisitIs DEF Role, Reading
  <2>3. CASE Flush(t)
    BY <2>0, <2>3, FlushIs DEF Role, Reading
  <2>4. CASE EndBroadcast(t)
    <3>1. th[t].at = "visited" /\ Goto(t, "idle") /\ "idle" \in Steps /\ UNCHANGED <<mem, session, closing>>
      BY <2>4 DEF EndBroadcast, At, Same, Steps
    <3>. QED
      BY <2>0, <3>1, GotoIs DEF Role, Reading
  <2>. QED
    BY <2>1, <2>2, <2>3, <2>4
<1>1. Moves(t)
  BY <1>0 DEF Moves, Out
<1>2. LinkInv'
  BY <1>1, LinksStay DEF Whole
<1>3. ValueInv'
  <2>1. th[t].at \notin Locking \cup Seeking
    BY <1>0 DEF Locking, Seeking
  <2>. QED
    BY <1>0, <1>1, <2>1, ValuesStay DEF Whole
<1>4. PICK r \in [Nodes -> Nat], m \in Nat : ChainInv(r, m)
  BY DEF Whole
<1>5. Seek(r, t)'
  BY <1>0 DEF Seek
<1>6. next' = next /\ val' = val /\ InList' = InList
  BY <1>0, <1>1, LinksStay DEF mem
<1>7. \A n : From(r, n)' = From(r, n)
  BY <1>6 DEF From
<1>8. end \notin InList /\ InList \subseteq live /\ end \notin live /\ InList \subseteq Nodes
  BY <1>0, PlacesAre, EndIs
<1>9. ASSUME ~ torn' PROVE Read(r, t)'
  <2>0. Read(r, t)
    BY <1>4, <1>9 DEF ChainInv
  <2>1. CASE BeginBroadcast(t)
    <3>1. /\ th'[t].at = "visit" /\ th'[t].node = next[end]
          /\ th'[t].owed = {s \in Sessions : session[s] = "added" /\ Reachable(s)}
      BY <1>0, <2>1, BroadcastIs
    <3>2. next[end] \in InList \cup {end} /\ From(r, next[end]) = InList
      BY <1>4 DEF Whole, LinkInv, RingInv, ChainInv, OrderInv
    <3>3. ASSUME NEW s \in th'[t].owed PROVE \E x \in From(r, next[end]) : val[x] = s
      <4>1. s \in Sessions /\ session[s] = "added" /\ ~ Adding(s)
        BY <3>1, <3>3 DEF Reachable, Adding, InCall, Locking, Seeking, Buying
      <4>. QED
        BY <3>2, <4>1 DEF Whole, ValueInv
    <3>. QED
      BY <1>6, <1>7, <3>1, <3>2, <3>3 DEF Read
  <2>2. CASE Visit(t)
    <3>1. /\ th[t].at = "visit"
          /\ \/ th[t].node = end /\ th'[t].at = "visited" /\ th'[t].owed = th[t].owed /\ closing' = closing
             \/ /\ th[t].node \in live /\ val[th[t].node] \in closing /\ th'[t].at = "visit"
                /\ th'[t].node = next[th[t].node] /\ th'[t].owed = th[t].owed /\ closing' = closing
             \/ /\ th[t].node \in live /\ th'[t].at = "flush" /\ th'[t].node = th[t].node
                /\ th'[t].owed = th[t].owed \ {val[th[t].node]} /\ closing' = closing
             \/ th'[t].at = "idle"
      BY <1>0, <2>2, VisitIs
    <3>2. /\ th[t].node \in InList \cup {end}
          /\ \A s \in th[t].owed \ closing : \E x \in From(r, th[t].node) : val[x] = s
      BY <2>0, <3>1 DEF Read
    <3>3. CASE th'[t].at = "idle"
      BY <3>3 DEF Read
    <3>4. CASE th[t].node = end /\ th'[t].at = "visited" /\ th'[t].owed = th[t].owed /\ closing' = closing
      <4>1. From(r, th[t].node) = {}
        BY <3>4 DEF From
      <4>. QED
        BY <3>2, <3>4, <4>1 DEF Read
    <3>5. ASSUME th[t].node \in live, NEW s \in th[t].owed \ closing, s # val[th[t].node]
          PROVE  \E x \in From(r, next[th[t].node]) : val[x] = s
      <4>1. th[t].node \in InList
        BY <1>8, <3>2, <3>5
      <4>2. From(r, next[th[t].node]) = {x \in InList : r[th[t].node] < r[x]}
        BY <1>4, <4>1 DEF ChainInv, OrderInv
      <4>3. PICK x \in From(r, th[t].node) : val[x] = s
        BY <3>2, <3>5
      <4>4. x \in InList /\ x # th[t].node /\ r[th[t].node] <= r[x]
        BY <3>5, <4>3 DEF From
      <4>5. r[x] # r[th[t].node] /\ r[x] \in Nat /\ r[th[t].node] \in Nat
        BY <1>4, <1>8, <4>1, <4>4 DEF ChainInv, OrderInv
      <4>. QED
        BY <4>2, <4>3, <4>4, <4>5
    <3>6. CASE /\ th[t].node \in live /\ th'[t].at = "flush" /\ th'[t].node = th[t].node
               /\ th'[t].owed = th[t].owed \ {val[th[t].node]} /\ closing' = closing
      <4>1. th[t].node \in InList
        BY <1>8, <3>2, <3>6
      <4>2. \A s \in th'[t].owed \ closing : \E x \in From(r, next[th[t].node]) : val[x] = s
        BY <3>5, <3>6
      <4>. QED
        BY <1>6, <1>7, <3>6, <4>1, <4>2 DEF Read
    <3>7. CASE /\ th[t].node \in live /\ val[th[t].node] \in closing /\ th'[t].at = "visit"
               /\ th'[t].node = next[th[t].node] /\ th'[t].owed = th[t].owed /\ closing' = closing
      <4>1. th[t].node \in InList
        BY <1>8, <3>2, <3>7
      <4>2. next[th[t].node] \in InList \cup {end}
        BY <4>1 DEF Whole, LinkInv, RingInv
      <4>3. \A s \in th'[t].owed \ closing : \E x \in From(r, next[th[t].node]) : val[x] = s
        BY <3>5, <3>7
      <4>. QED
        BY <1>6, <1>7, <3>7, <4>2, <4>3 DEF Read
    <3>. QED
      BY <3>1, <3>3, <3>4, <3>6, <3>7
  <2>3. CASE Flush(t)
    <3>1. /\ th[t].at = "flush" /\ th'[t].at = "visit"
          /\ th'[t].node = next[th[t].node] /\ th'[t].owed = th[t].owed /\ closing' = closing
      BY <1>0, <2>3, FlushIs
    <3>2. /\ th[t].node \in InList
          /\ \A s \in th[t].owed \ closing : \E x \in From(r, next[th[t].node]) : val[x] = s
      BY <2>0, <3>1 DEF Read
    <3>3. next[th[t].node] \in InList \cup {end}
      BY <3>2 DEF Whole, LinkInv, RingInv
    <3>. QED
      BY <1>6, <1>7, <3>1, <3>2, <3>3 DEF Read
  <2>4. CASE EndBroadcast(t)
    <3>1. Goto(t, "idle") /\ "idle" \in Steps
      BY <2>4 DEF EndBroadcast, Steps
    <3>2. th'[t].at = "idle"
      BY <1>0, <3>1, GotoIs
    <3>. QED
      BY <3>2 DEF Read
  <2>. QED
    BY <2>1, <2>2, <2>3, <2>4
<1>10. ChainInv(r, m)'
  BY <1>1, <1>4, <1>5, <1>9, ChainStays
<1>. QED
  BY <1>2, <1>3, <1>10 DEF Whole

-----------------------------------------------------------------------------
(* The steps that change the list.                                         *)

\* erase, first half: the node before it skips the node.
LEMMA UnlinkWhole ==
  ASSUME BaseInv, AtMostOne, AtMostOne', Whole, NEW t \in Threads, ~ crashed', torn => torn',
         ~ torn' => \A u \in Threads : ~ Broadcasting(u)', Unlink(t)
  PROVE  Whole'
<1>1. PICK n : n = th[t].node
  OBVIOUS
<1>2. PICK p : p = prev[n]
  OBVIOUS
<1>3. PICK k : k = next[n]
  OBVIOUS
<1>4. PICK r \in [Nodes -> Nat], m \in Nat : ChainInv(r, m)
  BY DEF Whole
<1>5. /\ th[t].at = "unlink" /\ next' = [next EXCEPT ![p] = k] /\ Goto(t, "erase")
      /\ prev' = prev /\ val' = val /\ live' = live /\ session' = session /\ closing' = closing /\ TypeInv /\ "erase" \in Steps
  BY <1>1, <1>2, <1>3 DEF Unlink, At, Touch, BaseInv, Steps, InCall
<1>6. /\ th'[t].at = "erase" /\ th'[t].client = th[t].client /\ th'[t].node = n
      /\ \A u \in Threads : u # t => th'[u] = th[u]
  BY <1>1, <1>5, GotoIs
<1>7. /\ t # Main /\ n \in InList /\ val[n] = th[t].client
      /\ session[th[t].client] = "removed" /\ t \in Workers
  BY <1>1, <1>4, <1>5, EndIs DEF ChainInv, Seek, BaseInv, RoleInv, Role, InCall, Seeking
<1>8. /\ Changing(t) /\ Outside = {} /\ Skipped = {} /\ InList = live
      /\ \A u \in Threads : u # t => ~ Changing(u) /\ th[u].at \notin Out
  BY <1>5, OneChanges DEF Changing, Out
<1>9. Outside' = {n} /\ Skipped' = {n} /\ InList' = InList \ {n}
  <2>1. \A u \in Threads : th'[u].at \in {"linknext", "erase"} <=> u = t
    BY <1>6, <1>8 DEF Out
  <2>2. \A u \in Threads : th'[u].at \in Out <=> u = t
    BY <1>6, <1>8 DEF Out
  <2>3. Outside' = {n}
    BY <1>6, <2>2 DEF Outside
  <2>4. Skipped' = {n}
    BY <1>6, <2>1 DEF Skipped
  <2>. QED
    BY <1>5, <1>8, <2>3, <2>4 DEF InList
<1>10. /\ InList \subseteq Nodes /\ end \notin InList /\ next \in [Places -> Places] /\ prev \in [Places -> Places]
       /\ InList \cup {end} \subseteq Places
  BY <1>5, PlacesAre DEF TypeInv
<1>11. \A x \in InList \cup {end} :
         /\ next[x] \in InList \cup {end} /\ prev[x] \in InList \cup {end}
         /\ next[prev[x]] = x /\ prev[next[x]] = x
  BY <1>8 DEF Whole, LinkInv, RingInv, Back
<1>12. p \in InList \cup {end} /\ k \in InList \cup {end} /\ next[p] = n /\ prev[k] = n
  BY <1>2, <1>3, <1>7, <1>11
<1>13. /\ From(r, k) = {x \in InList : r[n] < r[x]} /\ n \in From(r, n)
       /\ p # end => From(r, n) = {x \in InList : r[p] < r[x]}
       /\ p = end => From(r, n) = InList
       /\ \A x \in InList : r[x] \in Nat
       /\ \A x, y \in InList : r[x] = r[y] => x = y
  <2>1. OrderInv(r, m)
    BY <1>4 DEF ChainInv
  <2>2. \A x \in InList : r[x] \in Nat
    BY <1>10
  <2>3. n \in From(r, n)
    BY <1>7, <1>10, <2>2 DEF From
  <2>. QED
    BY <1>3, <1>7, <1>12, <2>1, <2>2, <2>3 DEF OrderInv
<1>14. p # n /\ k # n
  <2>1. n \notin From(r, k)
    BY <1>7, <1>13
  <2>2. k # n
    BY <1>13, <2>1
  <2>3. p # n
    BY <1>2, <1>3, <1>12, <2>2
  <2>. QED
    BY <2>2, <2>3
<1>15. /\ next'[p] = k /\ \A x \in InList \cup {end} : x # p => next'[x] = next[x]
  BY <1>5, <1>10, <1>12
<1>16. RingInv'
  <2>1. SUFFICES ASSUME NEW x \in InList \cup {end}, x # n
                 PROVE  /\ next'[x] \in (InList \ {n}) \cup {end} /\ Back(x)' \in (InList \ {n}) \cup {end}
                        /\ next'[Back(x)'] = x /\ Back(next[x])' = x
    BY <1>7, <1>9, <1>10 DEF RingInv
  <2>2. \A y : Back(y)' = IF prev[y] = n THEN p ELSE prev[y]
    BY <1>2, <1>5, <1>9 DEF Back
  <2>3. x = k => Back(x)' = p
    BY <1>12, <2>2
  <2>4. x # k => Back(x)' = prev[x] /\ prev[x] # n /\ prev[x] # p
    BY <1>2, <1>3, <1>11, <1>12, <2>1, <2>2
  <2>5. next'[x] \in (InList \ {n}) \cup {end}
    <3>1. CASE x = p
      BY <1>12, <1>14, <1>15, <3>1
    <3>2. CASE x # p
      <4>1. next[x] # n
        BY <1>2, <1>11, <3>2
      <4>. QED
        BY <1>11, <1>15, <2>1, <3>2, <4>1
    <3>. QED
      BY <3>1, <3>2
  <2>6. Back(x)' \in (InList \ {n}) \cup {end} /\ next'[Back(x)'] = x
    <3>1. CASE x = k
      BY <1>12, <1>14, <1>15, <2>3, <3>1
    <3>2. CASE x # k
      BY <1>11, <1>15, <2>1, <2>4, <3>2
    <3>. QED
      BY <3>1, <3>2
  <2>7. Back(next[x])' = x
    <3>1. CASE x = p
      BY <1>12, <1>15, <2>2, <3>1
    <3>2. CASE x # p
      <4>1. next'[x] = next[x] /\ prev[next[x]] = x
        BY <1>11, <1>15, <2>1, <3>2
      <4>. QED
        BY <2>1, <2>2, <4>1
    <3>. QED
      BY <3>1, <3>2
  <2>. QED
    BY <2>5, <2>6, <2>7
<1>17. \A u \in Threads : Hand(u)'
  <2>1. ASSUME NEW u \in Threads, u # t PROVE Hand(u)'
    <3>1. th'[u].at \notin Out /\ th'[u].at \notin {"linkprev", "linknext", "erase"}
      BY <1>6, <1>8, <2>1 DEF Out
    <3>. QED
      BY <3>1 DEF Hand
  <2>2. Hand(t)'
    <3>1. next'[n] = k /\ prev'[k] = n /\ n \in live' /\ k \in InList' \cup {end}
      BY <1>3, <1>5, <1>7, <1>8, <1>9, <1>12, <1>14, <1>15
    <3>. QED
      BY <1>6, <3>1 DEF Hand
  <2>. QED
    BY <2>1, <2>2
<1>18. ValueInv'
  <2>1. \A x : Adding(x)' <=> Adding(x)
    BY <1>6, <1>7, EndIs DEF Adding
  <2>2. ASSUME NEW x \in InList, x # n, Pending(val[x]) PROVE Pending(val[x])'
    <3>1. PICK u \in Workers : th[u].at \in Locking \cup Seeking /\ th[u].client = val[x]
      BY <2>2 DEF Pending
    <3>2. u # t
      BY <1>7, <2>2, <3>1 DEF Whole, ValueInv
    <3>. QED
      BY <1>5, <1>6, <3>1, <3>2, EndIs DEF Pending
  <2>3. ASSUME NEW s \in Sessions, session[s] = "added", ~ Adding(s) PROVE \E x \in InList : x # n /\ val[x] = s
    <3>1. PICK x \in InList : val[x] = s
      BY <2>3 DEF Whole, ValueInv
    <3>. QED
      BY <1>7, <2>3, <3>1
  <2>. QED
    BY <1>5, <1>9, <2>1, <2>2, <2>3 DEF Whole, ValueInv
<1>19. \A x : From(r, x)' = From(r, x) \ {n}
  BY <1>9 DEF From
<1>20. OrderInv(r, m)'
  <2>0. OrderInv(r, m)
    BY <1>4 DEF ChainInv
  <2>1. From(r, n) \ {n} = From(r, k) \ {n}
    <3>1. \A x \in InList : r[n] < r[x] <=> r[n] <= r[x] /\ x # n
      BY <1>7, <1>13
    <3>. QED
      BY <1>7, <1>10, <1>13, <3>1 DEF From
  <2>2. From(r, next[end])' = InList'
    <3>1. CASE p = end
      BY <1>9, <1>13, <1>15, <1>19, <2>1, <3>1
    <3>2. CASE p # end
      BY <1>9, <1>15, <1>19, <2>0, <3>2 DEF OrderInv
    <3>. QED
      BY <3>1, <3>2
  <2>3. ASSUME NEW x \in InList' PROVE From(r, next[x])' = {y \in InList' : r[x] < r[y]}
    <3>1. CASE x = p
      <4>1. From(r, next[x])' = {y \in InList : r[p] < r[y]} \ {n}
        BY <1>9, <1>10, <1>13, <1>15, <1>19, <2>1, <2>3, <3>1
      <4>. QED
        BY <1>9, <3>1, <4>1
    <3>2. CASE x # p
      <4>1. From(r, next[x])' = {y \in InList : r[x] < r[y]} \ {n}
        BY <1>9, <1>15, <1>19, <2>0, <2>3, <3>2 DEF OrderInv
      <4>. QED
        BY <1>9, <4>1
    <3>. QED
      BY <3>1, <3>2
  <2>. QED
    BY <1>9, <2>0, <2>2, <2>3 DEF OrderInv
<1>21. ASSUME NEW u \in Threads PROVE Seek(r, u)' /\ (~ torn' => Read(r, u)')
  <2>1. Seek(r, u)'
    <3>1. CASE u = t
      <4>1. \A x \in InList' : val'[x] # th[t].client
        BY <1>5, <1>7, <1>9 DEF Whole, ValueInv
      <4>. QED
        BY <1>6, <1>7, <3>1, <4>1 DEF Seek
    <3>2. CASE u # t
      <4>1. th'[u].at \notin {"compare", "unlink", "erase"}
        BY <1>6, <1>8, <3>2 DEF Changing
      <4>. QED
        BY <4>1 DEF Seek
    <3>. QED
      BY <3>1, <3>2
  <2>2. ASSUME ~ torn' PROVE Read(r, u)'
    <3>1. th'[u].at \notin {"visit", "flush"}
      BY <2>2 DEF Broadcasting
    <3>2. th'[u].at = "visited" => th'[u].owed \subseteq closing'
      BY <1>4, <1>5, <1>6, <2>2 DEF ChainInv, Read
    <3>. QED
      BY <3>1, <3>2 DEF Read
  <2>. QED
    BY <2>1, <2>2
<1>22. LinkInv' /\ ChainInv(r, m)'
  BY <1>16, <1>17, <1>20, <1>21 DEF LinkInv, ChainInv
<1>. QED
  BY <1>18, <1>22 DEF Whole

\* erase, second half: the node after it does too, and it is freed.
LEMMA EraseWhole ==
  ASSUME BaseInv, AtMostOne, AtMostOne', Whole, NEW t \in Threads, ~ crashed', torn => torn',
         ~ torn' => \A u \in Threads : ~ Broadcasting(u)', Erase(t)
  PROVE  Whole'
<1>1. PICK n : n = th[t].node
  OBVIOUS
<1>2. PICK k : k = next[n]
  OBVIOUS
<1>3. PICK r \in [Nodes -> Nat], m \in Nat : ChainInv(r, m)
  BY DEF Whole
<1>4. /\ th[t].at = "erase" /\ prev' = [prev EXCEPT ![k] = prev[n]] /\ live' = live \ {n}
      /\ th' = [th EXCEPT ![t].node = k, ![t].at = "compare"]
      /\ next' = next /\ val' = val /\ session' = session /\ closing' = closing /\ TypeInv /\ "compare" \in Steps
  BY <1>1, <1>2 DEF Erase, At, Touch, BaseInv, Steps, InCall, Seeking
<1>5. /\ Changing(t) /\ Outside = {n} /\ Skipped = {n} /\ InList = live \ {n}
      /\ \A u \in Threads : u # t => ~ Changing(u) /\ th[u].at \notin Out
  BY <1>1, <1>4, OneChanges DEF Changing, Out
<1>6. n \in live /\ k \in InList \cup {end} /\ prev[k] = n
  BY <1>1, <1>2, <1>4 DEF Whole, LinkInv, Hand, Out
<1>7. /\ InList \subseteq Nodes /\ end \notin InList /\ next \in [Places -> Places] /\ prev \in [Places -> Places]
      /\ InList \cup {end} \subseteq Places
  BY <1>4, PlacesAre DEF TypeInv
<1>8. /\ th'[t].at = "compare" /\ th'[t].client = th[t].client /\ th'[t].node = k
      /\ \A u \in Threads : u # t => th'[u] = th[u]
  <2>1. k \in Places
    BY <1>6, <1>7
  <2>. QED
    BY <1>4, <2>1, MoveIs
<1>9. t # Main /\ \A x \in InList : val[x] # th[t].client
  BY <1>3, <1>4 DEF ChainInv, Seek
<1>10. Outside' = {} /\ Skipped' = {} /\ InList' = InList
  <2>1. \A u \in Threads : th'[u].at \notin Out /\ th'[u].at \notin {"linknext", "erase"}
    BY <1>5, <1>8 DEF Out
  <2>2. Outside' = {} /\ Skipped' = {}
    BY <2>1 DEF Outside, Skipped
  <2>. QED
    BY <1>4, <1>5, <2>2 DEF InList
<1>11. /\ prev'[k] = prev[n] /\ \A x \in InList \cup {end} : x # k => prev'[x] = prev[x]
  BY <1>4, <1>6, <1>7
<1>12. \A x \in InList \cup {end} : Back(x)' = Back(x)
  <2>1. ASSUME NEW x \in InList \cup {end} PROVE Back(x)' = Back(x)
    <3>1. Back(x)' = prev'[x] /\ Back(x) = IF prev[x] = n THEN prev[n] ELSE prev[x]
      BY <1>5, <1>10 DEF Back
    <3>2. CASE x = k
      BY <1>6, <1>11, <3>1, <3>2
    <3>3. CASE x # k
      <4>1. next[Back(x)] = x /\ next[Back(k)] = k
        BY <1>6, <2>1 DEF Whole, LinkInv, RingInv
      <4>2. Back(k) = prev[n]
        BY <1>5, <1>6 DEF Back
      <4>3. prev[x] # n
        BY <3>1, <3>3, <4>1, <4>2
      <4>. QED
        BY <1>11, <3>1, <3>3, <4>3
    <3>. QED
      BY <3>2, <3>3
  <2>. QED
    BY <2>1
<1>13. RingInv'
  BY <1>4, <1>10, <1>12 DEF Whole, LinkInv, RingInv
<1>14. \A u \in Threads : Hand(u)'
  <2>1. \A u \in Threads : th'[u].at \notin Out /\ th'[u].at \notin {"linkprev", "linknext", "erase"}
    BY <1>5, <1>8 DEF Out
  <2>. QED
    BY <2>1 DEF Hand
<1>15. ValueInv'
  <2>1. \A x : Adding(x)' <=> Adding(x)
    BY <1>8, <1>9, EndIs DEF Adding
  <2>2. ASSUME NEW x, Pending(x) PROVE Pending(x)'
    <3>1. PICK u \in Workers : th[u].at \in Locking \cup Seeking /\ th[u].client = x
      BY <2>2 DEF Pending
    <3>2. u # t
      BY <1>4, <3>1 DEF Locking, Seeking
    <3>. QED
      BY <1>8, <3>1, <3>2, EndIs DEF Pending
  <2>. QED
    BY <1>4, <1>10, <2>1, <2>2 DEF Whole, ValueInv
<1>16. \A x : From(r, x)' = From(r, x)
  BY <1>10 DEF From
<1>17. OrderInv(r, m)'
  BY <1>3, <1>4, <1>10, <1>16 DEF ChainInv, OrderInv
<1>18. ASSUME NEW u \in Threads PROVE Seek(r, u)' /\ (~ torn' => Read(r, u)')
  <2>1. Seek(r, u)'
    <3>1. CASE u = t
      BY <1>4, <1>6, <1>8, <1>9, <1>10, <3>1 DEF Seek
    <3>2. CASE u # t
      <4>1. th'[u].at \notin {"compare", "unlink", "erase"}
        BY <1>5, <1>8, <3>2 DEF Changing
      <4>. QED
        BY <4>1 DEF Seek
    <3>. QED
      BY <3>1, <3>2
  <2>2. ASSUME ~ torn' PROVE Read(r, u)'
    <3>1. th'[u].at \notin {"visit", "flush"}
      BY <2>2 DEF Broadcasting
    <3>2. th'[u].at = "visited" => th'[u].owed \subseteq closing'
      BY <1>3, <1>4, <1>8, <2>2 DEF ChainInv, Read
    <3>. QED
      BY <3>1, <3>2 DEF Read
  <2>. QED
    BY <2>1, <2>2
<1>19. LinkInv' /\ ChainInv(r, m)'
  BY <1>13, <1>14, <1>17, <1>18 DEF LinkInv, ChainInv
<1>. QED
  BY <1>15, <1>19 DEF Whole

\* push_back: the new node is nobody's ...
LEMMA BuyWhole ==
  ASSUME BaseInv, AtMostOne, Whole, NEW t \in Threads, torn => torn', BuyNode(t)
  PROVE  Whole'
<1>1. PICK n \in Nodes \ live :
       /\ live' = live \cup {n} /\ val' = [val EXCEPT ![n] = th[t].client]
       /\ next' = [next EXCEPT ![n] = end] /\ prev' = [prev EXCEPT ![n] = prev[end]]
       /\ th' = [th EXCEPT ![t].node = n, ![t].at = "linkprev"]
  BY DEF BuyNode
<1>2. PICK r \in [Nodes -> Nat], m \in Nat : ChainInv(r, m)
  BY DEF Whole
<1>3. /\ th[t].at = "buynode" /\ session' = session /\ closing' = closing /\ TypeInv /\ "linkprev" \in Steps /\ n \in Places
      /\ t = Main
  BY DEF BuyNode, At, Same, BaseInv, Steps, InCall, Buying, Places, RoleInv, Role
<1>4. /\ Outside = {} /\ Skipped = {} /\ InList = live
      /\ \A u \in Threads : u # t => ~ Changing(u) /\ th[u].at \notin Out
  BY <1>3, OneChanges DEF Changing, Out
<1>5. /\ th'[t].at = "linkprev" /\ th'[t].client = th[t].client /\ th'[t].node = n
      /\ \A u \in Threads : u # t => th'[u] = th[u]
  BY <1>1, <1>3, MoveIs, ZenonT(30)
<1>6. Outside' = {n} /\ Skipped' = {} /\ InList' = InList
  <2>1. \A u \in Threads : th'[u].at \notin {"linknext", "erase"}
    BY <1>4, <1>5 DEF Out
  <2>2. \A u \in Threads : th'[u].at \in Out <=> u = t
    BY <1>4, <1>5 DEF Out
  <2>3. Outside' = {n}
    BY <1>5, <2>2 DEF Outside
  <2>4. Skipped' = {}
    BY <2>1 DEF Skipped
  <2>. QED
    BY <1>1, <1>4, <2>3, <2>4 DEF InList
<1>7. /\ InList \subseteq Nodes /\ end \notin InList /\ next \in [Places -> Places] /\ prev \in [Places -> Places]
      /\ InList \cup {end} \subseteq Places /\ n \notin InList /\ n # end /\ val \in [Nodes -> Someone]
  BY <1>1, <1>3, <1>4, PlacesAre, EndIs DEF TypeInv
<1>8. /\ \A x \in InList \cup {end} : next'[x] = next[x] /\ prev'[x] = prev[x]
      /\ \A x \in InList : val'[x] = val[x]
      /\ next'[n] = end /\ prev'[n] = prev[end] /\ val'[n] = th[t].client
  BY <1>1, <1>3, <1>7
<1>9. RingInv'
  <2>1. \A x \in InList \cup {end} : Back(x) = prev[x] /\ Back(x)' = prev[x]
    BY <1>4, <1>6, <1>8 DEF Back
  <2>2. \A x \in InList \cup {end} :
          /\ next[x] \in InList \cup {end} /\ prev[x] \in InList \cup {end}
          /\ next[prev[x]] = x /\ prev[next[x]] = x
    BY <1>4 DEF Whole, LinkInv, RingInv, Back
  <2>. QED
    BY <1>6, <1>8, <2>1, <2>2 DEF RingInv
<1>10. \A u \in Threads : Hand(u)'
  <2>1. ASSUME NEW u \in Threads, u # t PROVE Hand(u)'
    <3>1. th'[u].at \notin Out /\ th'[u].at \notin {"linkprev", "linknext", "erase"}
      BY <1>4, <1>5, <2>1 DEF Out
    <3>. QED
      BY <3>1 DEF Hand
  <2>2. Hand(t)'
    BY <1>1, <1>5, <1>8 DEF Hand
  <2>. QED
    BY <2>1, <2>2
<1>11. ValueInv'
  <2>1. \A x : Adding(x)' <=> Adding(x)
    BY <1>3, <1>5 DEF Adding, InCall, Buying
  <2>2. ASSUME NEW x, Pending(x) PROVE Pending(x)'
    BY <1>3, <1>5, <2>2, EndIs DEF Pending
  <2>. QED
    BY <1>3, <1>6, <1>8, <2>1, <2>2 DEF Whole, ValueInv
<1>12. \A x : From(r, x)' = From(r, x)
  BY <1>6 DEF From
<1>13. OrderInv(r, m)'
  BY <1>2, <1>6, <1>8, <1>12 DEF ChainInv, OrderInv
<1>14. ASSUME NEW u \in Threads PROVE Seek(r, u)' /\ (~ torn' => Read(r, u)')
  <2>0. InList' = InList /\ \A x \in InList : val'[x] = val[x] /\ next'[x] = next[x]
    BY <1>6, <1>8
  <2>1. Seek(r, u)'
    <3>1. th'[u].at \notin {"compare", "unlink", "erase"}
      BY <1>4, <1>5 DEF Changing
    <3>. QED
      BY <3>1 DEF Seek
  <2>2. ASSUME ~ torn' PROVE Read(r, u)'
    <3>1. CASE u = t
      BY <1>5, <3>1 DEF Read
    <3>2. CASE u # t
      <4>1. th'[u] = th[u] /\ Read(r, u)
        BY <1>2, <1>5, <2>2, <3>2 DEF ChainInv
      <4>2. \A x : From(r, x) \subseteq InList
        BY DEF From
      <4>3. th[u].at = "visit" =>
              /\ th[u].node \in InList' \cup {end}
              /\ \A s \in th[u].owed \ closing' : \E x \in From(r, th[u].node) : val'[x] = s
        BY <1>3, <2>0, <4>1, <4>2 DEF Read
      <4>4. th[u].at = "flush" =>
              /\ th[u].node \in InList'
              /\ \A s \in th[u].owed \ closing' : \E x \in From(r, next'[th[u].node]) : val'[x] = s
        BY <1>3, <2>0, <4>1, <4>2 DEF Read
      <4>5. th[u].at = "visited" => th[u].owed \subseteq closing'
        BY <1>3, <4>1 DEF Read
      <4>. QED
        BY <1>12, <4>1, <4>3, <4>4, <4>5 DEF Read
    <3>. QED
      BY <3>1, <3>2
  <2>. QED
    BY <2>1, <2>2
<1>15. LinkInv' /\ ChainInv(r, m)'
  BY <1>9, <1>10, <1>13, <1>14 DEF LinkInv, ChainInv
<1>. QED
  BY <1>11, <1>15 DEF Whole

\* ... the sentinel gets it as the last one ...
LEMMA PrevWhole ==
  ASSUME BaseInv, AtMostOne, Whole, NEW t \in Threads, torn => torn', LinkPrev(t)
  PROVE  Whole'
<1>1. PICK n : n = th[t].node
  OBVIOUS
<1>2. PICK r \in [Nodes -> Nat], m \in Nat : ChainInv(r, m)
  BY DEF Whole
<1>3. /\ th[t].at = "linkprev" /\ prev' = [prev EXCEPT ![end] = n] /\ Goto(t, "linknext")
      /\ next' = next /\ val' = val /\ live' = live /\ session' = session /\ closing' = closing /\ TypeInv /\ "linknext" \in Steps
      /\ t = Main
  BY <1>1 DEF LinkPrev, At, Same, BaseInv, Steps, InCall, Buying, RoleInv, Role
<1>4. /\ Outside = {n} /\ Skipped = {} /\ InList = live \ {n}
      /\ \A u \in Threads : u # t => ~ Changing(u) /\ th[u].at \notin Out
  BY <1>1, <1>3, OneChanges DEF Changing, Out
<1>5. /\ th'[t].at = "linknext" /\ th'[t].client = th[t].client /\ th'[t].node = n
      /\ \A u \in Threads : u # t => th'[u] = th[u]
  BY <1>1, <1>3, GotoIs
<1>6. Outside' = {n} /\ Skipped' = {n} /\ InList' = InList
  <2>1. \A u \in Threads : th'[u].at \in {"linknext", "erase"} <=> u = t
    BY <1>4, <1>5 DEF Out
  <2>2. \A u \in Threads : th'[u].at \in Out <=> u = t
    BY <1>4, <1>5 DEF Out
  <2>3. Outside' = {n}
    BY <1>5, <2>2 DEF Outside
  <2>4. Skipped' = {n}
    BY <1>5, <2>1 DEF Skipped
  <2>. QED
    BY <1>3, <1>4, <2>3, <2>4 DEF InList
<1>7. /\ n \in live /\ next[n] = end /\ val[n] = th[t].client /\ prev[n] = prev[end]
  BY <1>1, <1>3 DEF Whole, LinkInv, Hand, Out
<1>8. /\ InList \subseteq Nodes /\ end \notin InList /\ next \in [Places -> Places] /\ prev \in [Places -> Places]
      /\ InList \cup {end} \subseteq Places /\ n \notin InList /\ n # end
  BY <1>3, <1>4, <1>7, PlacesAre, EndIs DEF TypeInv
<1>9. prev'[end] = n /\ prev'[n] = prev[end] /\ \A x \in InList : prev'[x] = prev[x]
  <2>1. n \in Places /\ end \in Places
    BY <1>1, <1>3, <1>8, PlacesAre
  <2>. QED
    BY <1>3, <1>7, <1>8, <2>1
<1>10. RingInv'
  <2>1. \A x \in InList \cup {end} :
          /\ next[x] \in InList \cup {end} /\ prev[x] \in InList \cup {end}
          /\ next[prev[x]] = x /\ prev[next[x]] = x
    BY <1>4 DEF Whole, LinkInv, RingInv, Back
  <2>2. ASSUME NEW x \in InList \cup {end} PROVE Back(x)' = prev[x]
    <3>1. CASE x = end
      BY <1>6, <1>9, <3>1 DEF Back
    <3>2. CASE x \in InList
      <4>1. prev'[x] = prev[x] /\ prev[x] # n
        BY <1>8, <1>9, <2>1, <3>2
      <4>. QED
        BY <1>6, <4>1 DEF Back
    <3>. QED
      BY <3>1, <3>2
  <2>. QED
    BY <1>3, <1>6, <2>1, <2>2 DEF RingInv
<1>11. \A u \in Threads : Hand(u)'
  <2>1. ASSUME NEW u \in Threads, u # t PROVE Hand(u)'
    <3>1. th'[u].at \notin Out /\ th'[u].at \notin {"linkprev", "linknext", "erase"}
      BY <1>4, <1>5, <2>1 DEF Out
    <3>. QED
      BY <3>1 DEF Hand
  <2>2. Hand(t)'
    BY <1>3, <1>5, <1>7, <1>9 DEF Hand
  <2>. QED
    BY <2>1, <2>2
<1>12. ValueInv'
  <2>1. \A x : Adding(x)' <=> Adding(x)
    BY <1>3, <1>5 DEF Adding, InCall, Buying
  <2>2. ASSUME NEW x, Pending(x) PROVE Pending(x)'
    BY <1>3, <1>5, <2>2, EndIs DEF Pending
  <2>. QED
    BY <1>3, <1>6, <2>1, <2>2 DEF Whole, ValueInv
<1>13. \A x : From(r, x)' = From(r, x)
  BY <1>6 DEF From
<1>14. OrderInv(r, m)'
  BY <1>2, <1>3, <1>6, <1>13 DEF ChainInv, OrderInv
<1>15. ASSUME NEW u \in Threads PROVE Seek(r, u)' /\ (~ torn' => Read(r, u)')
  <2>1. Seek(r, u)'
    <3>1. th'[u].at \notin {"compare", "unlink", "erase"}
      BY <1>4, <1>5 DEF Changing
    <3>. QED
      BY <3>1 DEF Seek
  <2>2. ASSUME ~ torn' PROVE Read(r, u)'
    <3>1. CASE u = t
      BY <1>5, <3>1 DEF Read
    <3>2. CASE u # t
      <4>1. th'[u] = th[u] /\ Read(r, u)
        BY <1>2, <1>5, <2>2, <3>2 DEF ChainInv
      <4>. QED
        BY <1>3, <1>6, <1>13, <4>1 DEF Read
    <3>. QED
      BY <3>1, <3>2
  <2>. QED
    BY <2>1, <2>2
<1>16. LinkInv' /\ ChainInv(r, m)'
  BY <1>10, <1>11, <1>14, <1>15 DEF LinkInv, ChainInv
<1>. QED
  BY <1>12, <1>16 DEF Whole

\* ... and the one that was last, as its next.
LEMMA NextWhole ==
  ASSUME BaseInv, AtMostOne, Whole, NEW t \in Threads, torn => torn', LinkNext(t)
  PROVE  Whole'
<1>1. PICK n : n = th[t].node
  OBVIOUS
<1>2. PICK p : p = prev[n]
  OBVIOUS
<1>3. PICK r \in [Nodes -> Nat], m \in Nat : ChainInv(r, m)
  BY DEF Whole
<1>4. PICK q : q = [r EXCEPT ![n] = m]
  OBVIOUS
<1>5. /\ th[t].at = "linknext" /\ next' = [next EXCEPT ![p] = n] /\ Goto(t, "leave")
      /\ prev' = prev /\ val' = val /\ live' = live /\ session' = session /\ closing' = closing /\ TypeInv /\ "leave" \in Steps
      /\ t = Main /\ th[t].client \in Sessions /\ session[th[t].client] = "added"
  BY <1>1, <1>2 DEF LinkNext, At, Same, BaseInv, Steps, InCall, Buying, RoleInv, Role
<1>6. /\ Outside = {n} /\ Skipped = {n} /\ InList = live \ {n}
      /\ \A u \in Threads : u # t => ~ Changing(u) /\ th[u].at \notin Out
  BY <1>1, <1>5, OneChanges DEF Changing, Out
<1>7. /\ th'[t].at = "leave" /\ th'[t].client = th[t].client
      /\ \A u \in Threads : u # t => th'[u] = th[u]
  BY <1>1, <1>5, GotoIs
<1>8. n \in live /\ next[n] = end /\ val[n] = th[t].client /\ prev[end] = n
  BY <1>1, <1>5 DEF Whole, LinkInv, Hand, Out
<1>9. Outside' = {} /\ Skipped' = {} /\ InList' = InList \cup {n}
  <2>1. \A u \in Threads : th'[u].at \notin Out /\ th'[u].at \notin {"linknext", "erase"}
    BY <1>6, <1>7 DEF Out
  <2>2. Outside' = {} /\ Skipped' = {}
    BY <2>1 DEF Outside, Skipped
  <2>. QED
    BY <1>5, <1>6, <1>8, <2>2 DEF InList
<1>10. /\ InList \subseteq Nodes /\ end \notin InList /\ next \in [Places -> Places] /\ prev \in [Places -> Places]
       /\ InList \cup {end} \subseteq Places /\ n \notin InList /\ n # end /\ n \in Nodes /\ n \in Places
  BY <1>5, <1>6, <1>8, PlacesAre, EndIs DEF TypeInv, Places
<1>11. \A x \in InList \cup {end} :
         /\ next[x] \in InList \cup {end} /\ Back(x) \in InList \cup {end}
         /\ next[Back(x)] = x /\ Back(next[x]) = x
         /\ Back(x) = IF prev[x] = n THEN p ELSE prev[x]
  BY <1>2, <1>6 DEF Whole, LinkInv, RingInv, Back
<1>12. p \in InList \cup {end} /\ next[p] = end /\ p # n
  BY <1>8, <1>10, <1>11
<1>13. /\ next'[p] = n /\ next'[n] = end /\ \A x \in InList \cup {end} : x # p => next'[x] = next[x]
  BY <1>5, <1>8, <1>10, <1>12
<1>14. \A x \in InList : prev[x] # n /\ prev[x] = Back(x) /\ prev[x] # p
  <2>1. ASSUME NEW x \in InList PROVE Back(x) # p
    BY <1>10, <1>11, <1>12
  <2>. QED
    BY <1>11, <2>1
<1>15. \A x \in InList \cup {end} : x # p => next[x] # end /\ next[x] \in InList /\ prev[next[x]] = x
  <2>1. ASSUME NEW x \in InList \cup {end}, x # p PROVE next[x] # end
    BY <1>8, <1>11, <2>1
  <2>. QED
    BY <1>11, <1>14, <2>1
<1>16. RingInv'
  <2>1. \A x : Back(x)' = prev[x]
    BY <1>5, <1>9 DEF Back
  <2>2. ASSUME NEW x \in InList \cup {n, end}
        PROVE  /\ next'[x] \in InList \cup {n, end} /\ prev[x] \in InList \cup {n, end}
               /\ next'[prev[x]] = x /\ prev[next'[x]] = x
    <3>1. CASE x = n
      BY <1>2, <1>8, <1>12, <1>13, <3>1
    <3>2. CASE x = end
      <4>1. CASE p = end
        BY <1>2, <1>8, <1>13, <3>2, <4>1
      <4>2. CASE p # end
        BY <1>8, <1>13, <1>15, <3>2, <4>2
      <4>. QED
        BY <4>1, <4>2
    <3>3. CASE x \in InList
      <4>1. next'[prev[x]] = x /\ prev[x] \in InList \cup {end}
        BY <1>11, <1>13, <1>14, <3>3
      <4>2. next'[x] \in InList \cup {n, end} /\ prev[next'[x]] = x
        <5>1. CASE x = p
          BY <1>2, <1>13, <5>1
        <5>2. CASE x # p
          BY <1>13, <1>15, <3>3, <5>2
        <5>. QED
          BY <5>1, <5>2
      <4>. QED
        BY <4>1, <4>2
    <3>. QED
      BY <2>2, <3>1, <3>2, <3>3
  <2>. QED
    BY <1>9, <2>1, <2>2 DEF RingInv
<1>17. \A u \in Threads : Hand(u)'
  <2>1. \A u \in Threads : th'[u].at \notin Out /\ th'[u].at \notin {"linkprev", "linknext", "erase"}
    BY <1>6, <1>7 DEF Out
  <2>. QED
    BY <2>1 DEF Hand
<1>18. ValueInv'
  <2>1. \A x : ~ Adding(x)'
    BY <1>5, <1>7 DEF Adding
  <2>2. \A x : Adding(x) <=> x = th[t].client
    BY <1>5 DEF Adding, InCall, Buying
  <2>3. ASSUME NEW x, Pending(x) PROVE Pending(x)'
    BY <1>5, <1>7, <2>3, EndIs DEF Pending
  <2>4. \A x \in InList : val[x] # val[n]
    BY <1>8, <2>2 DEF Whole, ValueInv
  <2>5. \A x, y \in InList' : val[x] = val[y] => x = y
    BY <1>9, <2>4 DEF Whole, ValueInv
  <2>6. ASSUME NEW x \in InList'
        PROVE  /\ val[x] \in Sessions /\ session[val[x]] # "new"
               /\ session[val[x]] = "removed" => Pending(val[x])'
    <3>1. CASE x = n
      BY <1>5, <1>8, <3>1
    <3>2. CASE x \in InList
      <4>1. PICK c : c = val[x]
        OBVIOUS
      <4>2. c \in Sessions /\ session[c] # "new" /\ (session[c] = "removed" => Pending(c)')
        BY <2>3, <3>2, <4>1 DEF Whole, ValueInv
      <4>. QED
        BY <1>5, <4>1, <4>2
    <3>. QED
      BY <1>9, <3>1, <3>2
  <2>7. ASSUME NEW s \in Sessions, session[s] = "added" PROVE \E x \in InList' : val[x] = s
    <3>1. CASE Adding(s)
      BY <1>8, <1>9, <2>2, <3>1
    <3>2. CASE ~ Adding(s)
      BY <1>9, <2>7, <3>2 DEF Whole, ValueInv
    <3>. QED
      BY <3>1, <3>2
  <2>8. ASSUME NEW x \in InList' PROVE session[val[x]] = "removed" => Pending(val[x])'
    BY <1>5, <2>6, <2>8
  <2>. QED
    BY <1>5, <2>1, <2>5, <2>6, <2>7, <2>8 DEF ValueInv
<1>19. /\ q \in [Nodes -> Nat] /\ m + 1 \in Nat /\ m \in Nat
       /\ q[n] = m /\ \A x \in InList : q[x] = r[x] /\ r[x] \in Nat /\ r[x] < m
       /\ \A x, y \in InList : r[x] = r[y] => x = y
  <2>1. OrderInv(r, m)
    BY <1>3 DEF ChainInv
  <2>. QED
    BY <1>4, <1>10, <2>1 DEF OrderInv
<1>20. ASSUME NEW x \in InList PROVE From(q, x)' = From(r, x) \cup {n}
  <2>1. x # end
    BY <1>10, <1>20
  <2>. QED
    BY <1>9, <1>10, <1>19, <1>20, <2>1 DEF From
<1>21. From(q, n)' = {n} /\ From(q, end)' = {} /\ From(r, end) = {}
  BY <1>9, <1>10, <1>19 DEF From
<1>22. OrderInv(q, m + 1)'
  <2>0. OrderInv(r, m)
    BY <1>3 DEF ChainInv
  <2>1. \A x \in InList' : q[x] < m + 1
    BY <1>9, <1>19
  <2>2. \A x, y \in InList' : q[x] = q[y] => x = y
    BY <1>9, <1>19
  <2>3. From(q, next[end])' = InList'
    <3>1. CASE p = end
      <4>1. InList = {}
        BY <1>12, <1>21, <2>0, <3>1 DEF OrderInv
      <4>. QED
        BY <1>9, <1>13, <1>21, <3>1, <4>1
    <3>2. CASE p # end
      <4>1. next'[end] = next[end] /\ next[end] \in InList
        BY <1>13, <1>15, <3>2
      <4>. QED
        BY <1>9, <1>20, <2>0, <4>1 DEF OrderInv
    <3>. QED
      BY <3>1, <3>2
  <2>4. ASSUME NEW x \in InList' PROVE From(q, next[x])' = {y \in InList' : q[x] < q[y]}
    <3>1. CASE x = n
      <4>1. {y \in InList' : q[x] < q[y]} = {}
        BY <1>9, <1>19, <3>1
      <4>. QED
        BY <1>13, <1>21, <3>1, <4>1
    <3>2. CASE x \in InList
      <4>1. From(r, next[x]) = {y \in InList : r[x] < r[y]}
        BY <2>0, <3>2 DEF OrderInv
      <4>2. {y \in InList' : q[x] < q[y]} = {y \in InList : r[x] < r[y]} \cup {n}
        BY <1>9, <1>10, <1>19, <3>2
      <4>3. From(q, next[x])' = From(r, next[x]) \cup {n}
        <5>1. CASE x = p
          BY <1>12, <1>13, <1>21, <5>1
        <5>2. CASE x # p
          BY <1>13, <1>15, <1>20, <3>2, <5>2
        <5>. QED
          BY <5>1, <5>2
      <4>. QED
        BY <4>1, <4>2, <4>3
    <3>. QED
      BY <1>9, <2>4, <3>1, <3>2
  <2>. QED
    BY <2>1, <2>2, <2>3, <2>4 DEF OrderInv
<1>23. ASSUME NEW u \in Threads PROVE Seek(q, u)' /\ (~ torn' => Read(q, u)')
  <2>1. Seek(q, u)'
    <3>1. th'[u].at \notin {"compare", "unlink", "erase"}
      BY <1>6, <1>7 DEF Changing
    <3>. QED
      BY <3>1 DEF Seek
  <2>2. ASSUME ~ torn' PROVE Read(q, u)'
    <3>1. CASE u = t
      BY <1>7, <3>1 DEF Read
    <3>2. CASE u # t
      <4>1. th'[u] = th[u] /\ Read(r, u)
        BY <1>3, <1>7, <2>2, <3>2 DEF ChainInv
      <4>2. ASSUME NEW x \in InList \cup {end}, NEW y \in From(r, x) PROVE y \in From(q, x)'
        <5>1. x # end
          BY <4>2 DEF From
        <5>. QED
          BY <1>20, <4>2, <5>1
      <4>3. CASE th[u].at = "visit"
        <5>1. /\ th[u].node \in InList \cup {end}
              /\ \A s \in th[u].owed \ closing' : \E x \in From(r, th[u].node) : val[x] = s
          BY <1>5, <4>1, <4>3 DEF Read
        <5>2. \A s \in th[u].owed \ closing' : \E x \in From(q, th[u].node)' : val'[x] = s
          BY <1>5, <4>1, <4>2, <5>1
        <5>. QED
          BY <1>9, <4>1, <4>3, <5>1, <5>2 DEF Read
      <4>4. CASE th[u].at = "flush"
        <5>1. /\ th[u].node \in InList
              /\ \A s \in th[u].owed \ closing' : \E x \in From(r, next[th[u].node]) : val[x] = s
          BY <1>5, <4>1, <4>4 DEF Read
        <5>2. next[th[u].node] \in InList \cup {end}
          BY <1>11, <5>1
        <5>3. ASSUME NEW s \in th[u].owed \ closing' PROVE \E x \in From(q, next[th[u].node])' : val'[x] = s
          <6>1. PICK x \in From(r, next[th[u].node]) : val[x] = s
            BY <5>1, <5>3
          <6>2. next[th[u].node] # end
            BY <6>1 DEF From
          <6>3. next'[th[u].node] = next[th[u].node]
            BY <1>12, <1>13, <5>1, <6>2
          <6>. QED
            BY <1>5, <4>1, <4>2, <5>2, <6>1, <6>3
        <5>. QED
          BY <1>9, <4>1, <4>4, <5>1, <5>3 DEF Read
      <4>5. CASE th[u].at \notin {"visit", "flush"}
        BY <1>5, <4>1, <4>5 DEF Read
      <4>. QED
        BY <4>3, <4>4, <4>5
    <3>. QED
      BY <3>1, <3>2
  <2>. QED
    BY <2>1, <2>2
<1>24. ChainInv(q, m + 1)'
  BY <1>22, <1>23 DEF ChainInv
<1>25. LinkInv'
  BY <1>16, <1>17 DEF LinkInv
<1>. QED
  BY <1>18, <1>19, <1>24, <1>25 DEF Whole

-----------------------------------------------------------------------------
(* The theorems.                                                           *)

\* SListInv is inductive.
LEMMA SListStep == SListInv /\ [Next]_vars => SListInv'
<1> SUFFICES ASSUME SListInv, [Next]_vars PROVE SListInv'
  OBVIOUS
<1>1. BaseInv /\ BaseInv'
  BY BaseStep DEF SListInv, BaseInv
<1>2. CASE UNCHANGED vars
  <2>1. /\ next' = next /\ prev' = prev /\ val' = val /\ live' = live /\ th' = th /\ session' = session /\ closing' = closing
        /\ crashed' = crashed /\ overlap' = overlap /\ torn' = torn /\ raced' = raced
    BY <1>2 DEF vars, mem
  <2>2. Outside' = Outside /\ Skipped' = Skipped /\ InList' = InList
    BY <2>1 DEF Outside, Skipped, InList
  <2>3. AtMostOne' = AtMostOne /\ TornInv' = TornInv /\ CrashNeedsARace' = CrashNeedsARace
    BY <2>1 DEF AtMostOne, TornInv, CrashNeedsARace, Changing, Broadcasting, Removing
  <2>4. LinkInv' = LinkInv
    BY <2>1, <2>2 DEF LinkInv, RingInv, Hand, Back
  <2>5. ValueInv' = ValueInv
    BY <2>1, <2>2 DEF ValueInv, Adding, Pending
  <2>6. ASSUME NEW r, NEW m, ChainInv(r, m) PROVE ChainInv(r, m)'
    <3>1. \A n : From(r, n)' = From(r, n)
      BY <2>2 DEF From
    <3>2. OrderInv(r, m)'
      BY <2>1, <2>2, <2>6, <3>1 DEF ChainInv, OrderInv
    <3>3. \A t \in Threads : Seek(r, t)' /\ (~ torn' => Read(r, t)')
      BY <2>1, <2>2, <2>6, <3>1 DEF ChainInv, Seek, Read
    <3>. QED
      BY <3>2, <3>3 DEF ChainInv
  <2>7. ListInv'
    BY <2>1, <2>3, <2>4, <2>5, <2>6 DEF SListInv, ListInv, Whole
  <2>. QED
    BY <1>1, <2>3, <2>7 DEF SListInv, BaseInv
<1>3. CASE Next
  <2>1. /\ overlap' = (overlap \/ \E t, u \in Threads : t # u /\ Changing(t)' /\ Changing(u)')
        /\ torn' = (torn \/ \E t, u \in Threads : Broadcasting(t)' /\ Removing(u)')
        /\ raced' = (raced \/ \E t, u \in Threads : t # u /\ th[t].in = th[u].in
                       /\ th[t].at \in {"guard", "construct"}
                       /\ th[u].at \in {"test", "guard", "construct", "enter"})
        /\ \/ \E s \in Sessions : CallAdd(s) \/ \E t \in Workers : CallRemove(t, s) \/ Close(t, s)
           \/ \E t \in Threads : Does(t)
    BY <1>3 DEF Next, Does
  <2>2. TornInv' /\ (torn => torn') /\ (overlap => overlap') /\ (raced => raced')
    BY <2>1 DEF TornInv
  <2>3. ~ overlap' => AtMostOne'
    BY <2>1 DEF AtMostOne
  <2>4. ASSUME ~ overlap', NEW t \in Threads, Does(t), ~ crashed' PROVE Whole'
    <3>0. AtMostOne /\ AtMostOne' /\ Whole /\ BaseInv
      BY <1>1, <2>2, <2>3, <2>4 DEF SListInv, ListInv
    <3>1. ASSUME Unlink(t) \/ Erase(t) PROVE ~ torn' => \A u \in Threads : ~ Broadcasting(u)'
      <4>1. PICK r \in [Nodes -> Nat], m \in Nat : ChainInv(r, m)
        BY <3>0 DEF Whole
      <4>2. t # Main /\ th[t].at \in InCall
        BY <3>1, <4>1 DEF ChainInv, Seek, Unlink, Erase, At, InCall, Seeking
      <4>3. th[t].in \in Calls /\ th[t].in # "AddTcpClient"
        BY <3>0, <4>2 DEF BaseInv, RoleInv, Role, TypeInv, ThreadRecords
      <4>4. th'[t].in = th[t].in /\ th'[t].at \in {"erase", "compare"}
        <5>1. CASE Unlink(t)
          <6>1. Goto(t, "erase") /\ "erase" \in Steps
            BY <2>4, <5>1 DEF Unlink, Touch, Steps, InCall
          <6>. QED
            BY <3>0, <6>1, GotoIs DEF BaseInv
        <5>2. CASE Erase(t)
          <6>1. /\ th' = [th EXCEPT ![t].node = next[th[t].node], ![t].at = "compare"]
                /\ "compare" \in Steps /\ next[th[t].node] \in Places /\ TypeInv
            BY <2>4, <3>0, <5>2 DEF Erase, Touch, Steps, InCall, Seeking, BaseInv, TypeInv, ThreadRecords
          <6>. QED
            BY <6>1, MoveIs
        <5>. QED
          BY <3>1, <5>1, <5>2
      <4>5. Removing(t)'
        BY <4>3, <4>4 DEF Removing, Changing, Calls
      <4>. QED
        BY <2>1, <4>5
    <3>2. CASE TestGuard(t) \/ SetGuard(t) \/ Construct(t) \/ Enter(t) \/ Leave(t)
      BY <2>2, <2>4, <3>0, <3>2, LockWhole
    <3>3. CASE First(t)
      BY <2>2, <3>0, <3>3, FirstWhole
    <3>4. CASE Compare(t)
      BY <2>2, <2>4, <3>0, <3>4, CompareWhole
    <3>5. CASE Unlink(t)
      BY <2>2, <2>4, <3>0, <3>1, <3>5, UnlinkWhole
    <3>6. CASE Erase(t)
      BY <2>2, <2>4, <3>0, <3>1, <3>6, EraseWhole
    <3>7. CASE BuyNode(t)
      BY <2>2, <3>0, <3>7, BuyWhole
    <3>8. CASE LinkPrev(t)
      BY <2>2, <3>0, <3>8, PrevWhole
    <3>9. CASE LinkNext(t)
      BY <2>2, <3>0, <3>9, NextWhole
    <3>10. CASE BeginBroadcast(t) \/ Visit(t) \/ Flush(t) \/ EndBroadcast(t)
      BY <2>2, <2>4, <3>0, <3>10, ReadWhole
    <3>11. CASE CloseRemoved(t)
      BY <2>2, <3>0, <3>11, CloseWhole
    <3>. QED
      BY <2>4, <3>2, <3>3, <3>4, <3>5, <3>6, <3>7, <3>8, <3>9, <3>10, <3>11 DEF Does
  <2>5. CASE \E s \in Sessions : CallAdd(s) \/ \E t \in Workers : CallRemove(t, s) \/ Close(t, s)
    <3>0. Workers \subseteq Threads
      BY EndIs
    <3>1. ~ overlap' => Whole'
      BY <1>1, <2>2, <2>5, <3>0, AddWhole, RemoveWhole, CloseWhole DEF SListInv, ListInv
    <3>2. crashed' = crashed /\ ~ crashed
      BY <2>5 DEF CallAdd, CallRemove, Close, At
    <3>3. CrashNeedsARace'
      BY <3>2 DEF CrashNeedsARace
    <3>. QED
      BY <1>1, <2>2, <2>3, <3>1, <3>3 DEF SListInv, ListInv, BaseInv
  <2>6. ASSUME NEW t \in Threads, Does(t), ~ crashed' PROVE SListInv'
    BY <1>1, <2>2, <2>3, <2>4, <2>6 DEF SListInv, ListInv, BaseInv, CrashNeedsARace
  <2>7. ASSUME NEW t \in Threads, Does(t), crashed' PROVE SListInv'
    <3>1. /\ UNCHANGED <<mem, lock, th, session, closing>>
          /\ th[t].at \in {"enter", "compare", "unlink", "erase", "visit", "flush"}
          /\ \/ th[t].at = "enter" /\ cs[th[t].in] = Raw
             \/ th[t].at # "enter" /\ th[t].node \notin live \cup {end}
      BY <2>7, CrashStep
    <3>2. /\ next' = next /\ prev' = prev /\ val' = val /\ live' = live /\ th' = th /\ session' = session
          /\ closing' = closing
      BY <3>1 DEF mem
    <3>3. ListInv'
      <4>1. Outside' = Outside /\ Skipped' = Skipped /\ InList' = InList
        BY <3>2 DEF Outside, Skipped, InList
      <4>2. LinkInv' = LinkInv
        BY <3>2, <4>1 DEF LinkInv, RingInv, Hand, Back
      <4>3. ValueInv' = ValueInv
        BY <3>2, <4>1 DEF ValueInv, Adding, Pending
      <4>4. ASSUME NEW r, NEW m, ChainInv(r, m) PROVE ChainInv(r, m)'
        <5>1. \A n : From(r, n)' = From(r, n)
          BY <4>1 DEF From
        <5>2. OrderInv(r, m)'
          BY <3>2, <4>1, <4>4, <5>1 DEF ChainInv, OrderInv
        <5>3. \A u \in Threads : Seek(r, u)' /\ (~ torn' => Read(r, u)')
          BY <2>2, <3>2, <4>1, <4>4, <5>1 DEF ChainInv, Seek, Read
        <5>. QED
          BY <5>2, <5>3 DEF ChainInv
      <4>. QED
        BY <2>2, <2>3, <4>2, <4>3, <4>4 DEF SListInv, ListInv, Whole
    <3>4. CrashNeedsARace'
      <4>1. CASE th[t].at = "enter"
        <5>1. PICK u \in Threads : th[u].in = th[t].in /\ th[u].at = "construct"
          <6>1. th[t].in \in Calls
            BY <1>1 DEF BaseInv, TypeInv, ThreadRecords
          <6>. QED
            BY <1>1, <3>1, <4>1, <6>1 DEF BaseInv, BuildInv
        <5>2. raced'
          BY <2>1, <4>1, <5>1
        <5>. QED
          BY <5>2 DEF CrashNeedsARace
      <4>2. CASE th[t].at # "enter"
        <5>1. SUFFICES ASSUME ~ overlap', ~ torn' PROVE FALSE
          BY DEF CrashNeedsARace
        <5>2. /\ LinkInv /\ \E r \in [Nodes -> Nat], m \in Nat : ChainInv(r, m)
              /\ InList \subseteq live
          BY <1>1, <2>2, <5>1, PlacesAre DEF SListInv, ListInv, Whole, BaseInv
        <5>3. PICK r \in [Nodes -> Nat], m \in Nat : ChainInv(r, m)
          BY <5>2
        <5>4. Seek(r, t) /\ Read(r, t) /\ Hand(t)
          BY <2>2, <5>1, <5>2, <5>3 DEF ChainInv, LinkInv
        <5>5. th[t].at \in {"compare", "unlink", "visit", "flush"} => th[t].node \in InList \cup {end}
          BY <5>4 DEF Seek, Read
        <5>6. th[t].at = "erase" => th[t].node \in live
          BY <5>4 DEF Hand, Out
        <5>. QED
          BY <3>1, <4>2, <5>2, <5>5, <5>6
      <4>. QED
        BY <4>1, <4>2
    <3>. QED
      BY <1>1, <2>2, <3>3, <3>4 DEF SListInv, BaseInv
  <2>. QED
    BY <2>1, <2>5, <2>6, <2>7
<1>. QED
  BY <1>2, <1>3

\* The list is empty at first.
LEMMA InitSList == Init => SListInv
<1> SUFFICES ASSUME Init PROVE SListInv
  OBVIOUS
<1>1. /\ \A t \in Threads : th[t] = Idle /\ th[t].at = "idle"
      /\ th \in [Threads -> ThreadRecords]
  BY IdleIs DEF Init
<1>2. TypeInv
  BY <1>1 DEF Init, TypeInv, Places, Someone, end
<1>3. RoleInv
  BY <1>1 DEF RoleInv, Role, InCall, Locking, Seeking, Buying, Reading
<1>4. BuildInv
  BY <1>1 DEF BuildInv, Init
<1>5. Outside = {} /\ Skipped = {} /\ InList = {}
  BY <1>1 DEF Outside, Skipped, InList, Init, Out
<1>6. LinkInv
  <2>1. next[end] = end /\ prev[end] = end
    BY DEF Init
  <2>2. RingInv
    BY <1>5, <2>1 DEF RingInv, Back
  <2>3. \A t \in Threads : Hand(t)
    BY <1>1 DEF Hand, Out
  <2>. QED
    BY <2>2, <2>3 DEF LinkInv
<1>7. ValueInv
  BY <1>5 DEF ValueInv, Init
<1>8. ChainInv([n \in Nodes |-> 0], 0)
  <2>1. next[end] = end
    BY DEF Init
  <2>2. OrderInv([n \in Nodes |-> 0], 0)
    BY <1>5, <2>1 DEF OrderInv, From
  <2>3. \A t \in Threads : Seek([n \in Nodes |-> 0], t) /\ Read([n \in Nodes |-> 0], t)
    BY <1>1 DEF Seek, Read
  <2>. QED
    BY <2>2, <2>3 DEF ChainInv
<1>9. AtMostOne /\ TornInv
  BY <1>1 DEF AtMostOne, TornInv, Changing, Broadcasting
<1>10. Whole
  <2>1. [n \in Nodes |-> 0] \in [Nodes -> Nat] /\ 0 \in Nat
    OBVIOUS
  <2>. QED
    BY <1>6, <1>7, <1>8, <2>1 DEF Whole
<1>. QED
  BY <1>2, <1>3, <1>4, <1>9, <1>10 DEF SListInv, ListInv, CrashNeedsARace, Init

\* SListInv holds of every reachable state.
LEMMA AlwaysSListInv == Spec => []SListInv
  BY InitSList, SListStep, PTL DEF Spec

\* As long as no two calls changed m_clients at once, the list between calls is
\* a ring both ways and holds each listed session once.
THEOREM ListStaysWhole == Spec => []ListIsWhole
<1>1. SListInv => ListIsWhole
  <2>1. SUFFICES ASSUME SListInv, Quiet, ~ overlap
                 PROVE  /\ \A n \in live \cup {end} : next[n] \in live \cup {end} /\ prev[next[n]] = n
                        /\ {val[n] : n \in live} = Listed /\ Cardinality(live) = Cardinality(Listed)
    BY DEF ListIsWhole
  <2>2. LinkInv /\ ValueInv /\ TypeInv
    BY <2>1 DEF SListInv, ListInv, Whole
  <2>3. /\ \A t \in Threads : th[t].at \notin Out /\ th[t].at \notin {"linknext", "erase"} /\ th[t].at \notin InCall
    BY <2>1 DEF Quiet, Out, InCall, Locking, Seeking, Buying
  <2>4. Outside = {} /\ Skipped = {} /\ InList = live
    BY <2>3 DEF Outside, Skipped, InList
  <2>5. \A n \in live \cup {end} : next[n] \in live \cup {end} /\ prev[next[n]] = n
    BY <2>2, <2>4 DEF LinkInv, RingInv, Back
  <2>6. \A s : ~ Adding(s) /\ ~ Pending(s)
    BY <2>3, EndIs DEF Adding, Pending, InCall
  <2>7. /\ \A n \in live : val[n] \in Listed
        /\ \A s \in Listed : \E n \in live : val[n] = s
        /\ \A n, x \in live : val[n] = val[x] => n = x
    BY <2>2, <2>4, <2>6 DEF ValueInv, Listed, TypeInv
  <2>8. IsFiniteSet(live)
    BY <2>2, ListAssumption, FS_Subset DEF TypeInv
  <2> DEFINE f == [n \in live |-> val[n]]
  <2>9. f \in Bijection(live, Listed)
    BY <2>7 DEF Bijection, Injection, Surjection, IsInjective
  <2>10. Cardinality(live) = Cardinality(Listed)
    BY <2>8, <2>9, FS_Bijection DEF ExistsBijection
  <2>. QED
    BY <2>5, <2>7, <2>10
<1>. QED
  BY AlwaysSListInv, <1>1, PTL

\* The process ends only by one of the races: two calls at once, a removal
\* under a broadcast, or two threads in the first use of a SCOPED_LOCK.
THEOREM OnlyRacesCrash == Spec => []CrashNeedsARace
<1>1. SListInv => CrashNeedsARace
  BY DEF SListInv
<1>. QED
  BY AlwaysSListInv, <1>1, PTL

\* A broadcast that met no removal has written to every session that was listed
\* when it began, except those it found closing.
THEOREM BroadcastIsComplete == Spec => []BroadcastReachesAll
<1>1. SListInv => BroadcastReachesAll
  <2>1. SUFFICES ASSUME SListInv, NEW t \in Threads, th[t].at = "visited", ~ overlap, ~ torn
                 PROVE  th[t].owed \subseteq closing
    BY DEF BroadcastReachesAll
  <2>2. PICK r \in [Nodes -> Nat], m \in Nat : ChainInv(r, m)
    BY <2>1 DEF SListInv, ListInv, Whole
  <2>. QED
    BY <2>1, <2>2 DEF ChainInv, Read
<1>. QED
  BY AlwaysSListInv, <1>1, PTL

=============================================================================
