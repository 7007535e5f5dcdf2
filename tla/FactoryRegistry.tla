--------------------------- MODULE FactoryRegistry ---------------------------
(***************************************************************************)
(* spi::FactoryRegistry: threads register factories for appenders,         *)
(* layouts, filters and locales under a name, look them up and create      *)
(* products with them, until the registry is destroyed.  A factory moves   *)
(* from an auto_ptr to the registry inside put; its bytes are somebody's   *)
(* at every step in between.                                               *)
(*                                                                         *)
(* The base class's putVal, getVal and clear have no source here and are   *)
(* modelled from their use: a name that is taken keeps its factory, and    *)
(* the registry, which owns what it was given, deletes the other.          *)
(***************************************************************************)
EXTENDS Integers, FiniteSets

CONSTANTS
  Threads,
  Names,         \* type names factories are registered under
  MaxFactories   \* bound: factories made

Factories == 1 .. MaxFactories
NoFactory == 0

VARIABLES
  data,      \* the map: name -> factory or NoFactory
  made,      \* the factories made so far
  typeName,  \* factory -> its name
  autoPtr,   \* per thread: what the auto_ptr of its put owns
  at,        \* per thread: "idle", or where its put stands
  found,     \* per thread: what its last get returned
  deleted,   \* factory -> how often it was deleted
  crashed,   \* a deleted factory was used
  destroyed  \* the registry is

vars == <<data, made, typeName, autoPtr, at, found, deleted, crashed, destroyed>>

Init ==
  /\ data = [n \in Names |-> NoFactory]
  /\ made = 0
  /\ typeName \in [Factories -> Names]
  /\ autoPtr = [t \in Threads |-> NoFactory]
  /\ at = [t \in Threads |-> "idle"]
  /\ found = [t \in Threads |-> NoFactory]
  /\ deleted = [f \in Factories |-> 0]
  /\ crashed = FALSE
  /\ destroyed = FALSE

deleteObject(S) == deleted' = [f \in Factories |-> IF f \in S THEN deleted[f] + 1 ELSE deleted[f]]

getTypeName(f) == typeName[f]

-----------------------------------------------------------------------------
(* put, as LOG4CPLUS_REG_PRODUCT calls it.                                 *)

\* The macro's new FactoryTempl, owned by an auto_ptr, which put gets by value.
RegProduct(t) ==
  /\ ~ destroyed /\ at[t] = "idle" /\ made < MaxFactories
  /\ made' = made + 1
  /\ autoPtr' = [autoPtr EXCEPT ![t] = made + 1]
  /\ at' = [at EXCEPT ![t] = "put"]
  /\ UNCHANGED <<data, typeName, found, deleted, crashed, destroyed>>

\* putVal under the registry's mutex.
PutVal(t) ==
  /\ at[t] = "put"
  /\ LET f == autoPtr[t]
         n == getTypeName(f) IN
     IF data[n] = NoFactory
     THEN data' = [data EXCEPT ![n] = f] /\ UNCHANGED deleted
     ELSE deleteObject({f}) /\ UNCHANGED data
  /\ at' = [at EXCEPT ![t] = "release"]
  /\ UNCHANGED <<made, typeName, autoPtr, found, crashed, destroyed>>

\* It may run out of memory before it stores anything; the auto_ptr then deletes.
PutValThrows(t) ==
  /\ at[t] = "put"
  /\ deleteObject({autoPtr[t]})
  /\ autoPtr' = [autoPtr EXCEPT ![t] = NoFactory]
  /\ at' = [at EXCEPT ![t] = "idle"]
  /\ UNCHANGED <<data, made, typeName, found, crashed, destroyed>>

\* object.release(), whatever putVal said; then the empty auto_ptr goes.
Release_Never(t) ==
  /\ at[t] = "release"
  /\ deleteObject({autoPtr[t]})
  /\ autoPtr' = [autoPtr EXCEPT ![t] = NoFactory]
  /\ at' = [at EXCEPT ![t] = "idle"]
  /\ UNCHANGED <<data, made, typeName, found, crashed, destroyed>>
Release(t) ==
  /\ at[t] = "release"
  /\ autoPtr' = [autoPtr EXCEPT ![t] = NoFactory]
  /\ at' = [at EXCEPT ![t] = "idle"]
  /\ UNCHANGED <<data, made, typeName, found, deleted, crashed, destroyed>>

-----------------------------------------------------------------------------

\* get: the registry goes on owning what it returns.
Get(t, n) ==
  /\ ~ destroyed /\ at[t] = "idle"
  /\ data[n] # found[t] /\ found' = [found EXCEPT ![t] = data[n]]
  /\ UNCHANGED <<data, made, typeName, autoPtr, at, deleted, crashed, destroyed>>

\* createObject with the factory that was found.
CreateObject(t) ==
  /\ at[t] = "idle" /\ found[t] # NoFactory
  /\ crashed' = (deleted[found[t]] > 0)
  /\ found' = [found EXCEPT ![t] = NoFactory]
  /\ UNCHANGED <<data, made, typeName, autoPtr, at, deleted, destroyed>>

\* The destructor clears; the registries are destroyed when no call is running.
Destroy ==
  /\ ~ destroyed /\ \A t \in Threads : at[t] = "idle"
  /\ destroyed' = TRUE
  /\ deleteObject({data[n] : n \in Names} \ {NoFactory})
  /\ data' = [n \in Names |-> NoFactory]
  /\ UNCHANGED <<made, typeName, autoPtr, at, found, crashed>>

Next ==
  \/ \E t \in Threads :
       RegProduct(t) \/ PutVal(t) \/ PutValThrows(t) \/ Release(t) \/ CreateObject(t) \/ \E n \in Names : Get(t, n)
  \/ Destroy

Spec == Init /\ [][Next]_vars

-----------------------------------------------------------------------------

\* The owners of factory f: the registry, and the auto_ptr of a put that has not
\* handed it over yet.
Kept(f) == {n \in Names : data[n] = f}
Putting(f) == {t \in Threads : autoPtr[t] = f /\ at[t] = "put"}

\* A factory is owned by exactly one of put's auto_ptr and the registry, or is
\* deleted, once: also when its name was taken, when putVal throws, and however
\* the registrations of two threads overlap.  A factory that was looked up is
\* gone only after the registry.
FactoriesOwnedOnce ==
  /\ \A f \in 1 .. made : Cardinality(Kept(f)) + Cardinality(Putting(f)) + deleted[f] = 1
  /\ crashed => destroyed
=============================================================================
