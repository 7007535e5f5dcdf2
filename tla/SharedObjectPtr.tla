-------------------------- MODULE SharedObjectPtr --------------------------
(***************************************************************************)
(* log4cplus::helpers::SharedObjectPtr and the count in SharedObject.      *)
(* Each thread has pointers of its own and may copy any thread's: it reads *)
(* rhs.pointee, and adds the reference in a later step; in between the     *)
(* owner may change or destroy rhs.  An assignment makes a temporary,      *)
(* swaps it in and destroys it.  addReference and removeReference are      *)
(* atomic (their definitions are not in the headers).                      *)
(***************************************************************************)
EXTENDS Integers, FiniteSets

CONSTANTS
  Threads,
  Objects,
  Slots,         \* the pointer variables of a thread
  Null,          \* a null pointer
  Unborn         \* a variable out of scope

VARIABLES
  pointee,       \* per thread and slot
  temp,          \* per thread: the temporary of an assignment
  target,        \* per thread: the slot that is assigned to
  reading,       \* per thread: the copy whose reference is still to be added
  count,         \* per object
  life,          \* per object: "raw", "live" or "freed"
  raced,         \* history: a pointer changed between a copy's read and its addref
  usedFreed      \* an addReference met a freed object; nothing is defined after

vars == <<pointee, temp, target, reading, count, life, raced, usedFreed>>

\* The slot to construct or to assign to, the pointer read from, and its value.
NoCopy == [for |-> "none", slot |-> Unborn, rhs |-> Unborn, value |-> Unborn]

Init ==
  /\ pointee = [t \in Threads |-> [s \in Slots |-> Unborn]]
  /\ temp = [t \in Threads |-> Unborn]
  /\ target = [t \in Threads |-> Unborn]
  /\ reading = [t \in Threads |-> NoCopy]
  /\ count = [o \in Objects |-> 0]
  /\ life = [o \in Objects |-> "raw"]
  /\ raced = FALSE /\ usedFreed = FALSE

addReference(o) == count' = [count EXCEPT ![o] = @ + 1]

\* The last reference deletes the object.
removeReference(o) ==
  /\ count' = [count EXCEPT ![o] = @ - 1]
  /\ life' = [life EXCEPT ![o] = IF count[o] = 1 THEN "freed" ELSE @]

addref(p) == IF p \in Objects THEN addReference(p) ELSE UNCHANGED count
release(p) == IF p \in Objects THEN removeReference(p) ELSE UNCHANGED <<count, life>>

Copying(t) == reading[t] # NoCopy
Idle(t) == temp[t] = Unborn /\ ~ Copying(t)
Free(t, d) == Idle(t) /\ pointee[t][d] = Unborn
Alive(t, s) == pointee[t][s] # Unborn
Set(t, d, p) == pointee' = [pointee EXCEPT ![t][d] = p]

\* SharedObjectPtr (new T) and SharedObjectPtr (0).
Construct(t, d, o) ==
  /\ Free(t, d) /\ (o \in Objects => life[o] = "raw")
  /\ Set(t, d, o)
  /\ addref(o)
  /\ life' = [x \in Objects |-> IF x = o THEN "live" ELSE life[x]]
  /\ UNCHANGED <<temp, target, reading, usedFreed>>

\* rhs.pointee is read, from any thread and also from the pointer itself ...
ReadRhs(t, c) == reading' = [reading EXCEPT ![t] = c]

BeginCopyConstruct(t, d, u, s) ==
  /\ Free(t, d) /\ Alive(u, s)
  /\ ReadRhs(t, [for |-> "construct", slot |-> d, rhs |-> <<u, s>>, value |-> pointee[u][s]])
  /\ UNCHANGED <<pointee, temp, target, count, life, usedFreed>>

BeginAssign(t, d, u, s) ==
  /\ Idle(t) /\ Alive(t, d) /\ Alive(u, s)
  /\ ReadRhs(t, [for |-> "assign", slot |-> d, rhs |-> <<u, s>>, value |-> pointee[u][s]])
  /\ UNCHANGED <<pointee, temp, target, count, life, usedFreed>>

\* ... and the reference added, to an object that may be gone by then.
Gone(p) == p \in Objects /\ life[p] = "freed"

UseFreed(t) ==
  /\ Copying(t) /\ Gone(reading[t].value)
  /\ usedFreed' = TRUE
  /\ UNCHANGED <<pointee, temp, target, reading, count, life>>

\* SharedObjectPtr (const SharedObjectPtr &).
CopyConstruct(t) ==
  LET c == reading[t] IN
  /\ c.for = "construct" /\ ~ Gone(c.value)
  /\ Set(t, c.slot, c.value)
  /\ addref(c.value)
  /\ ReadRhs(t, NoCopy)
  /\ UNCHANGED <<temp, target, life, usedFreed>>

AfterMove_Kept(p) == p
AfterMove(p) == Null

\* SharedObjectPtr (SharedObjectPtr &&).
MoveConstruct(t, d, s) ==
  /\ Free(t, d) /\ Alive(t, s)
  /\ pointee' = [pointee EXCEPT ![t][d] = pointee[t][s], ![t][s] = AfterMove(pointee[t][s])]
  /\ UNCHANGED <<temp, target, reading, count, life, usedFreed>>

\* operator = (SharedObjectPtr &&) swaps.
MoveAssign(t, d, s) ==
  /\ Idle(t) /\ Alive(t, d) /\ Alive(t, s)
  /\ pointee' = [pointee EXCEPT ![t][d] = pointee[t][s], ![t][s] = pointee[t][d]]
  /\ UNCHANGED <<temp, target, reading, count, life, usedFreed>>

\* operator = (const SharedObjectPtr &) and (T *): the temporary,
Assign(t) ==
  LET c == reading[t] IN
  /\ c.for = "assign" /\ ~ Gone(c.value)
  /\ temp' = [temp EXCEPT ![t] = c.value]
  /\ target' = [target EXCEPT ![t] = c.slot]
  /\ addref(c.value)
  /\ ReadRhs(t, NoCopy)
  /\ UNCHANGED <<pointee, life, usedFreed>>

\* the swap,
Swap(t) ==
  /\ target[t] # Unborn
  /\ Set(t, target[t], temp[t])
  /\ temp' = [temp EXCEPT ![t] = pointee[t][target[t]]]
  /\ target' = [target EXCEPT ![t] = Unborn]
  /\ UNCHANGED <<reading, count, life, usedFreed>>

\* and the destructor of the temporary.
DestroyTemp(t) ==
  /\ temp[t] # Unborn /\ target[t] = Unborn
  /\ temp' = [temp EXCEPT ![t] = Unborn]
  /\ release(temp[t])
  /\ UNCHANGED <<pointee, target, reading, usedFreed>>

\* ~SharedObjectPtr.
Destroy(t, s) ==
  /\ Idle(t) /\ Alive(t, s)
  /\ Set(t, s, Unborn)
  /\ release(pointee[t][s])
  /\ UNCHANGED <<temp, target, reading, usedFreed>>

\* A step of t, or the end of one of its copies; once a freed object was used,
\* there are no more.
Step(t) ==
  \/ Swap(t) \/ DestroyTemp(t) \/ CopyConstruct(t) \/ Assign(t) \/ UseFreed(t)
  \/ \E d \in Slots :
       \/ Destroy(t, d)
       \/ \E o \in Objects \cup {Null} : Construct(t, d, o)
       \/ \E s \in Slots : MoveConstruct(t, d, s) \/ MoveAssign(t, d, s)
       \/ \E u \in Threads, s \in Slots : BeginCopyConstruct(t, d, u, s) \/ BeginAssign(t, d, u, s)

At(m, x) == m[x[1]][x[2]]

Next ==
  /\ ~ usedFreed
  /\ \E t \in Threads : Step(t)
  /\ raced' = (raced \/ \E t \in Threads : /\ Copying(t) /\ Copying(t)'
                                        /\ At(pointee', reading[t].rhs) # At(pointee, reading[t].rhs))

Spec == Init /\ [][Next]_vars

-----------------------------------------------------------------------------

PointersTo(o) == {x \in Threads \X Slots : pointee[x[1]][x[2]] = o}
TempsTo(o) == {t \in Threads : temp[t] = o}

Counted ==
  \A o \in Objects :
    /\ count[o] = Cardinality(PointersTo(o)) + Cardinality(TempsTo(o))
    /\ life[o] = "live" <=> count[o] > 0

\* Through copies, moves, swaps and self-assignment, in the middle of the copies
\* and assignments of two threads, the count of an object is the number of
\* pointers to it, and it is freed exactly when the last of them goes.  A copy
\* adds its reference to an object that is gone only if the pointer it copies
\* was changed or destroyed after it was read (pointer.h:111, 147).
CountsPointers == Counted /\ (usedFreed => raced)
=============================================================================
