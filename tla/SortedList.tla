------------------------------ MODULE SortedList ------------------------------
(***************************************************************************)
(* SortedList.c (the same file in lab2a-mutual-exclusion and                *)
(* lab2b-contention): a circular doubly linked list with a head node.  The  *)
(* functions take no lock; each action below is one access to a pointer     *)
(* that other processes may be changing.  A process calls a function with   *)
(* one of the Call operators, which a driver uses in an action of its own,  *)
(* and finds its result in reg[t] when pc[t] = "ret".                       *)
(***************************************************************************)
EXTENDS Integers, Sequences

CONSTANTS Procs,        \* the threads that call the functions
          Heads,        \* the list heads
          Elems,        \* the elements
          NULL

VARIABLES next, prev,   \* the links of every node
          key,          \* key[e]: the string of element e
          pc,           \* pc[t]: the next access of process t
          reg           \* reg[t]: parameters and local variables of its call

Nodes == Heads \cup Elems

(* The strings are sequences of character codes.                           *)
strcmp(a, b) ==
  LET differ == {i \in 1..Len(a) : i > Len(b) \/ a[i] # b[i]}
  IN  IF differ = {} THEN Len(a) - Len(b)
      ELSE LET i == CHOOSE i \in differ : \A j \in differ : i <= j
           IN  IF i > Len(b) THEN 1 ELSE a[i] - b[i]

Idle == [list |-> NULL, element |-> NULL, key |-> <<>>,
         ptr |-> NULL, prev |-> NULL, next |-> NULL, ret |-> 0]

Labels == {"ins_first", "ins_scan", "ins_link1", "ins_link2", "ins_link3",
           "ins_link4", "look_first", "look_scan", "del_prev", "del_next",
           "del_check1", "del_check2", "del_link1", "del_link2",
           "len_head1", "len_head2", "len_first", "len_next", "len_prev",
           "len_fwd1", "len_fwd2", "len_bwd1", "len_bwd2", "len_advance"}

(* The variable a process is about to dereference.                         *)
Operand(t) ==
  reg[t][CASE pc[t] \in {"ins_first", "look_first", "len_head1", "len_head2",
                         "len_first"}                          -> "list"
           [] pc[t] \in {"ins_link2", "ins_link3", "del_prev", "del_next"}
                                                               -> "element"
           [] pc[t] \in {"ins_link1", "del_check2", "del_link1", "len_bwd2"}
                                                               -> "prev"
           [] pc[t] \in {"del_check1", "del_link2", "len_fwd2"} -> "next"
           [] OTHER                                            -> "ptr"]

Faults(t) == pc[t] \in Labels /\ Operand(t) = NULL

Load(t, var, value, label) ==
  /\ reg' = [reg EXCEPT ![t][var] = value]
  /\ pc' = [pc EXCEPT ![t] = label]
  /\ UNCHANGED <<next, prev>>

Return(t, found, ret) ==
  /\ reg' = [reg EXCEPT ![t] = [Idle EXCEPT !.ptr = found, !.ret = ret]]
  /\ pc' = [pc EXCEPT ![t] = "ret"]

-----------------------------------------------------------------------------
(* SortedList_insert, insert_before, connect                               *)

CallInsert(t, list, element) ==
  /\ reg' = [reg EXCEPT ![t] = [Idle EXCEPT !.list = list, !.element = element]]
  /\ pc' = [pc EXCEPT ![t] = "ins_first"]

InsertFirst(t) == /\ pc[t] = "ins_first"
                  /\ Load(t, "ptr", next[reg[t].list], "ins_scan")

(* Walk past every greater key, then read the predecessor of the place.    *)
InsertScan(t) ==
  LET r == reg[t]
      greater == r.ptr # r.list /\ strcmp(key[r.ptr], key[r.element]) > 0
  IN  /\ pc[t] = "ins_scan"
      /\ IF greater THEN Load(t, "ptr", next[r.ptr], "ins_scan")
                    ELSE Load(t, "prev", prev[r.ptr], "ins_link1")

InsertLink(t) ==
  LET r == reg[t]
      step(label) == pc' = [pc EXCEPT ![t] = label] /\ UNCHANGED reg
  IN  \/ /\ pc[t] = "ins_link1"
         /\ next' = [next EXCEPT ![r.prev] = r.element]
         /\ UNCHANGED prev
         /\ step("ins_link2")
      \/ /\ pc[t] = "ins_link2"
         /\ prev' = [prev EXCEPT ![r.element] = r.prev]
         /\ UNCHANGED next
         /\ step("ins_link3")
      \/ /\ pc[t] = "ins_link3"
         /\ next' = [next EXCEPT ![r.element] = r.ptr]
         /\ UNCHANGED prev
         /\ step("ins_link4")
      \/ /\ pc[t] = "ins_link4"
         /\ prev' = [prev EXCEPT ![r.ptr] = r.element]
         /\ UNCHANGED next
         /\ Return(t, NULL, 0)

-----------------------------------------------------------------------------
(* SortedList_lookup                                                       *)

CallLookup(t, list, k) ==
  /\ reg' = [reg EXCEPT ![t] = [Idle EXCEPT !.list = list, !.key = k]]
  /\ pc' = [pc EXCEPT ![t] = "look_first"]

LookupFirst(t) == /\ pc[t] = "look_first"
                  /\ Load(t, "ptr", next[reg[t].list], "look_scan")

(* A mutated LookupScan that stops early, as if keys were ascending.       *)
LookupScanStopsEarly(t) ==
  LET r == reg[t]
      found == r.ptr # r.list /\ strcmp(key[r.ptr], r.key) = 0
      passed == r.ptr = r.list \/ strcmp(key[r.ptr], r.key) > 0
  IN  /\ pc[t] = "look_scan"
      /\ IF found \/ passed
           THEN /\ Return(t, IF found THEN r.ptr ELSE NULL, 0)
                /\ UNCHANGED <<next, prev>>
           ELSE Load(t, "ptr", next[r.ptr], "look_scan")

(* A mutated LookupScan that takes the first element whatever its key.     *)
LookupScanTakesFirst(t) ==
  /\ pc[t] = "look_scan"
  /\ Return(t, IF reg[t].ptr = reg[t].list THEN NULL ELSE reg[t].ptr, 0)
  /\ UNCHANGED <<next, prev>>

LookupScan(t) ==
  LET r == reg[t]
      atEnd == r.ptr = r.list
      found == ~atEnd /\ strcmp(key[r.ptr], r.key) = 0
  IN  /\ pc[t] = "look_scan"
      /\ IF atEnd \/ found
           THEN /\ Return(t, IF found THEN r.ptr ELSE NULL, 0)
                /\ UNCHANGED <<next, prev>>
           ELSE Load(t, "ptr", next[r.ptr], "look_scan")

-----------------------------------------------------------------------------
(* SortedList_delete: 1 when the neighbours do not point back.             *)

CallDelete(t, element) ==
  /\ reg' = [reg EXCEPT ![t] = [Idle EXCEPT !.element = element]]
  /\ pc' = [pc EXCEPT ![t] = "del_prev"]

DeleteLoad(t) ==
  LET e == reg[t].element
  IN  \/ pc[t] = "del_prev" /\ Load(t, "prev", prev[e], "del_next")
      \/ pc[t] = "del_next" /\ Load(t, "next", next[e], "del_check1")

DeleteCheck(t) ==
  LET r == reg[t]
      check(link, label) ==
        IF link = r.element
          THEN pc' = [pc EXCEPT ![t] = label] /\ UNCHANGED reg
          ELSE Return(t, NULL, 1)
  IN  /\ \/ pc[t] = "del_check1" /\ check(prev[r.next], "del_check2")
         \/ pc[t] = "del_check2" /\ check(next[r.prev], "del_link1")
      /\ UNCHANGED <<next, prev>>

(* A mutated DeleteLink that unlinks the element in one direction only.    *)
DeleteLinkHalf(t) ==
  LET r == reg[t]
  IN  \/ /\ pc[t] = "del_link1"
         /\ pc' = [pc EXCEPT ![t] = "del_link2"]
         /\ UNCHANGED <<next, prev, reg>>
      \/ /\ pc[t] = "del_link2"
         /\ prev' = [prev EXCEPT ![r.next] = r.prev]
         /\ Return(t, NULL, 0)
         /\ UNCHANGED next

(* A mutated DeleteLink that also clears the element's own links.          *)
DeleteLinkClears(t) ==
  LET r == reg[t]
  IN  \/ /\ pc[t] = "del_link1"
         /\ next' = [next EXCEPT ![r.prev] = r.next, ![r.element] = NULL]
         /\ pc' = [pc EXCEPT ![t] = "del_link2"]
         /\ UNCHANGED <<prev, reg>>
      \/ /\ pc[t] = "del_link2"
         /\ prev' = [prev EXCEPT ![r.next] = r.prev]
         /\ Return(t, NULL, 0)
         /\ UNCHANGED next

DeleteLink(t) ==
  LET r == reg[t]
  IN  \/ /\ pc[t] = "del_link1"
         /\ next' = [next EXCEPT ![r.prev] = r.next]
         /\ pc' = [pc EXCEPT ![t] = "del_link2"]
         /\ UNCHANGED <<prev, reg>>
      \/ /\ pc[t] = "del_link2"
         /\ prev' = [prev EXCEPT ![r.next] = r.prev]
         /\ Return(t, NULL, 0)
         /\ UNCHANGED next

-----------------------------------------------------------------------------
(* SortedList_length: -1 when a link is NULL or is not returned by its     *)
(* other end.  Only the head's two pointers are tested for NULL alone.     *)

CallLength(t, list) ==
  /\ reg' = [reg EXCEPT ![t] = [Idle EXCEPT !.list = list]]
  /\ pc' = [pc EXCEPT ![t] = "len_head1"]

Corrupted(t) == Return(t, NULL, -1) /\ UNCHANGED <<next, prev>>

(* A test of a link just read: -1, or on to the next access.               *)
Test(t, good, label) ==
  IF good THEN /\ pc' = [pc EXCEPT ![t] = label]
               /\ UNCHANGED <<next, prev, reg>>
          ELSE Corrupted(t)

LengthHead(t) ==
  LET r == reg[t]
  IN  \/ pc[t] = "len_head1" /\ Test(t, next[r.list] # NULL, "len_head2")
      \/ pc[t] = "len_head2" /\ Test(t, prev[r.list] # NULL, "len_first")
      \/ pc[t] = "len_first" /\ Load(t, "ptr", next[r.list], "len_next")

(* A mutated LengthElement that does not test for NULL.                    *)
LengthElementUntested(t) ==
  LET r == reg[t]
  IN  \/ /\ pc[t] = "len_next"
         /\ IF r.ptr = r.list
              THEN Return(t, NULL, r.ret) /\ UNCHANGED <<next, prev>>
              ELSE Test(t, TRUE, "len_prev")
      \/ pc[t] = "len_prev" /\ Test(t, TRUE, "len_fwd1")
      \/ pc[t] = "len_fwd1" /\ Load(t, "next", next[r.ptr], "len_fwd2")
      \/ pc[t] = "len_fwd2" /\ Test(t, prev[r.next] = r.ptr, "len_bwd1")
      \/ pc[t] = "len_bwd1" /\ Load(t, "prev", prev[r.ptr], "len_bwd2")
      \/ pc[t] = "len_bwd2" /\ Test(t, next[r.prev] = r.ptr, "len_advance")
      \/ /\ pc[t] = "len_advance"
         /\ reg' = [reg EXCEPT ![t] = [Idle EXCEPT !.list = r.list,
                                        !.ptr = next[r.ptr], !.ret = r.ret + 1]]
         /\ pc' = [pc EXCEPT ![t] = "len_next"]
         /\ UNCHANGED <<next, prev>>

LengthElement(t) ==
  LET r == reg[t]
  IN  \/ /\ pc[t] = "len_next"
         /\ IF r.ptr = r.list
              THEN Return(t, NULL, r.ret) /\ UNCHANGED <<next, prev>>
              ELSE Test(t, next[r.ptr] # NULL, "len_prev")
      \/ pc[t] = "len_prev" /\ Test(t, prev[r.ptr] # NULL, "len_fwd1")
      \/ pc[t] = "len_fwd1" /\ Load(t, "next", next[r.ptr], "len_fwd2")
      \/ pc[t] = "len_fwd2" /\ Test(t, prev[r.next] = r.ptr, "len_bwd1")
      \/ pc[t] = "len_bwd1" /\ Load(t, "prev", prev[r.ptr], "len_bwd2")
      \/ pc[t] = "len_bwd2" /\ Test(t, next[r.prev] = r.ptr, "len_advance")
      \/ /\ pc[t] = "len_advance"
         /\ reg' = [reg EXCEPT ![t] = [Idle EXCEPT !.list = r.list,
                                        !.ptr = next[r.ptr], !.ret = r.ret + 1]]
         /\ pc' = [pc EXCEPT ![t] = "len_next"]
         /\ UNCHANGED <<next, prev>>

-----------------------------------------------------------------------------
ListStep(t) ==
  /\ pc[t] \in Labels
  /\ ~Faults(t)
  /\ \/ InsertFirst(t) \/ InsertScan(t) \/ InsertLink(t)
     \/ LookupFirst(t) \/ LookupScan(t)
     \/ DeleteLoad(t) \/ DeleteCheck(t) \/ DeleteLink(t)
     \/ LengthHead(t) \/ LengthElement(t)
  /\ UNCHANGED key

(* What is on a list: the nodes met walking prev pointers from its head,   *)
(* in at most n steps.                                                     *)
Members(list, n) ==
  LET walk[i \in Nat] ==
        IF i = 0 THEN {list}
        ELSE LET before == walk[i-1]
             IN  before \cup {prev[m] : m \in before \ {NULL}}
  IN  walk[n] \ {list, NULL}

(* Every link of the list is returned by the node at its other end.        *)
Circular(list, n) ==
  \A m \in Members(list, n) \cup {list} :
     /\ next[m] # NULL /\ prev[next[m]] = m
     /\ prev[m] # NULL /\ next[prev[m]] = m
=============================================================================
