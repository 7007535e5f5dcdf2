--------------------------- MODULE ReadWriteLock ---------------------------
(***************************************************************************)
(* What a SharedMutex promises: many readers or one writer.                *)
(***************************************************************************)
CONSTANT Threads

VARIABLES readers, writers   \* the threads that hold the lock

Init == readers = {} /\ writers = {}

AcquireRead(t) ==
  /\ writers = {}
  /\ readers' = readers \cup {t} /\ UNCHANGED writers

AcquireWrite(t) ==
  /\ readers = {} /\ writers = {}
  /\ writers' = {t} /\ UNCHANGED readers

Release(t) ==
  /\ t \in readers \cup writers
  /\ readers' = readers \ {t} /\ writers' = writers \ {t}

Next == \E t \in Threads : AcquireRead(t) \/ AcquireWrite(t) \/ Release(t)

Spec == Init /\ [][Next]_<<readers, writers>>
=============================================================================
