------------------------------ MODULE AtomicList ------------------------------
(***************************************************************************)
(* What the lists of lab2_list promise when they are synchronised: a        *)
(* worker's insert and its lookup-and-delete each take effect at one        *)
(* instant.  Each worker inserts its niteratns elements, then deletes, for  *)
(* each of them, some element of the same key - not always its own.         *)
(***************************************************************************)
EXTENDS Integers, FiniteSets

CONSTANTS nthreads,     \* --threads
          niteratns,    \* --iterations
          Keys          \* the keys elements may have

Workers == 1..nthreads
Turns == 0..(niteratns - 1)

(* <<t, i>> is the i-th element of worker t.                               *)
Elements == Workers \X Turns

VARIABLES keyOf,        \* keyOf[e]: the key of element e
          members,      \* the elements that are on a list
          inserted,     \* inserted[t]: inserts of worker t that took effect
          deleted       \* deleted[t]: deletes of worker t that took effect

vars == <<keyOf, members, inserted, deleted>>

TypeOK == /\ keyOf \in [Elements -> Keys]
          /\ members \subseteq Elements
          /\ inserted \in [Workers -> 0..niteratns]
          /\ deleted \in [Workers -> 0..niteratns]

Init == /\ keyOf \in [Elements -> Keys]
        /\ members = {}
        /\ inserted = [t \in Workers |-> 0]
        /\ deleted = [t \in Workers |-> 0]

Insert(t) ==
  /\ inserted[t] < niteratns
  /\ members' = members \cup {<<t, inserted[t]>>}
  /\ inserted' = [inserted EXCEPT ![t] = @ + 1]
  /\ UNCHANGED <<keyOf, deleted>>

(* A worker starts deleting when its own inserts are done.                 *)
Delete(t) ==
  /\ inserted[t] = niteratns /\ deleted[t] < niteratns
  /\ \E e \in members : /\ keyOf[e] = keyOf[<<t, deleted[t]>>]
                        /\ members' = members \ {e}
  /\ deleted' = [deleted EXCEPT ![t] = @ + 1]
  /\ UNCHANGED <<keyOf, inserted>>

Next == \E t \in Workers : Insert(t) \/ Delete(t)

Spec == Init /\ [][Next]_vars

-----------------------------------------------------------------------------
(* The inserts, and the deletes, of a key that took effect.                *)
Inserts(k) == {e \in Elements : keyOf[e] = k /\ e[2] < inserted[e[1]]}
Deletes(k) == {e \in Elements : keyOf[e] = k /\ e[2] < deleted[e[1]]}

(* Whoever deletes whose element, the lists hold as many elements of a key *)
(* as were inserted and not yet deleted.                                   *)
Balanced ==
  \A k \in Keys :
     Cardinality({e \in members : keyOf[e] = k}) + Cardinality(Deletes(k))
       = Cardinality(Inserts(k))

(* A worker that looks a key of its own up finds an element, so it never   *)
(* hands SortedList_delete() a NULL pointer - although others may have     *)
(* deleted the element it inserted.                                        *)
AlwaysFound ==
  \A t \in Workers :
     inserted[t] = niteratns /\ deleted[t] < niteratns =>
       \E e \in members : keyOf[e] = keyOf[<<t, deleted[t]>>]

(* When all deletes are done the lists are empty: main finds length 0.     *)
EmptyAtEnd == (\A t \in Workers : deleted[t] = niteratns) => members = {}
=============================================================================
