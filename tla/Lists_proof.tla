------------------------------ MODULE Lists_proof ------------------------------
(***************************************************************************)
(* What both list programs are proved from.  First what the functions of    *)
(* SortedList do to the links and to the registers of their caller, for any *)
(* set of processes, heads and elements: with any interleaving of their     *)
(* accesses, then of one process alone on a list.  Last, of AtomicList: for *)
(* any number of workers, iterations and keys, elements of a key are        *)
(* conserved, a worker always finds an element to delete, and the lists end *)
(* empty.                                                                   *)
(***************************************************************************)
EXTENDS SortedList, AtomicList, NaturalsInduction, FiniteSetTheorems, TLAPS

(* Every process has a place and a full set of registers.                   *)
Registers ==
  /\ DOMAIN pc = Procs /\ DOMAIN reg = Procs
  /\ \A t \in Procs :
       {"list", "element", "key", "ptr", "prev", "next", "ret"} \subseteq DOMAIN reg[t]

OthersKeep(t) == \A u \in Procs \ {t} : pc'[u] = pc[u] /\ reg'[u] = reg[u]

LEMMA LoadPtr ==
  ASSUME Registers, NEW t \in Procs, NEW x, NEW label, Load(t, "ptr", x, label)
  PROVE  /\ Registers' /\ OthersKeep(t) /\ next' = next /\ prev' = prev
         /\ pc'[t] = label /\ reg'[t].ptr = x
         /\ reg'[t].list = reg[t].list /\ reg'[t].element = reg[t].element
         /\ reg'[t].key = reg[t].key /\ reg'[t].prev = reg[t].prev
         /\ reg'[t].next = reg[t].next /\ reg'[t].ret = reg[t].ret
BY DEF Registers, OthersKeep, Load

LEMMA LoadPrev ==
  ASSUME Registers, NEW t \in Procs, NEW x, NEW label, Load(t, "prev", x, label)
  PROVE  /\ Registers' /\ OthersKeep(t) /\ next' = next /\ prev' = prev
         /\ pc'[t] = label /\ reg'[t].prev = x
         /\ reg'[t].list = reg[t].list /\ reg'[t].element = reg[t].element
         /\ reg'[t].key = reg[t].key /\ reg'[t].ptr = reg[t].ptr
         /\ reg'[t].next = reg[t].next /\ reg'[t].ret = reg[t].ret
BY DEF Registers, OthersKeep, Load

LEMMA LoadNext ==
  ASSUME Registers, NEW t \in Procs, NEW x, NEW label, Load(t, "next", x, label)
  PROVE  /\ Registers' /\ OthersKeep(t) /\ next' = next /\ prev' = prev
         /\ pc'[t] = label /\ reg'[t].next = x
         /\ reg'[t].list = reg[t].list /\ reg'[t].element = reg[t].element
         /\ reg'[t].key = reg[t].key /\ reg'[t].ptr = reg[t].ptr
         /\ reg'[t].prev = reg[t].prev /\ reg'[t].ret = reg[t].ret
BY DEF Registers, OthersKeep, Load

LEMMA Returns ==
  ASSUME Registers, NEW t \in Procs, NEW x, NEW ret, Return(t, x, ret)
  PROVE  /\ Registers' /\ OthersKeep(t)
         /\ pc'[t] = "ret" /\ reg'[t].ptr = x /\ reg'[t].ret = ret
         /\ reg'[t].list = NULL /\ reg'[t].element = NULL
         /\ reg'[t].prev = NULL /\ reg'[t].next = NULL
BY DEF Registers, OthersKeep, Return, Idle

LEMMA GoesOn ==
  ASSUME Registers, NEW t \in Procs, NEW label, pc' = [pc EXCEPT ![t] = label],
         reg' = reg
  PROVE  Registers' /\ OthersKeep(t) /\ pc'[t] = label
BY DEF Registers, OthersKeep

LEMMA Calls ==
  ASSUME Registers, NEW t \in Procs, NEW list, NEW x
  PROVE  /\ CallInsert(t, list, x) =>
              /\ Registers' /\ OthersKeep(t) /\ pc'[t] = "ins_first"
              /\ reg'[t].list = list /\ reg'[t].element = x
              /\ reg'[t].ptr = NULL /\ reg'[t].prev = NULL /\ reg'[t].next = NULL
         /\ CallLookup(t, list, x) =>
              /\ Registers' /\ OthersKeep(t) /\ pc'[t] = "look_first"
              /\ reg'[t].list = list /\ reg'[t].key = x /\ reg'[t].element = NULL
              /\ reg'[t].ptr = NULL /\ reg'[t].prev = NULL /\ reg'[t].next = NULL
         /\ CallDelete(t, x) =>
              /\ Registers' /\ OthersKeep(t) /\ pc'[t] = "del_prev"
              /\ reg'[t].list = NULL /\ reg'[t].element = x
              /\ reg'[t].ptr = NULL /\ reg'[t].prev = NULL /\ reg'[t].next = NULL
         /\ CallLength(t, list) =>
              /\ Registers' /\ OthersKeep(t) /\ pc'[t] = "len_head1"
              /\ reg'[t].list = list /\ reg'[t].element = NULL /\ reg'[t].ret = 0
              /\ reg'[t].ptr = NULL /\ reg'[t].prev = NULL /\ reg'[t].next = NULL
<1>1. ASSUME CallInsert(t, list, x)
      PROVE  /\ Registers' /\ OthersKeep(t) /\ pc'[t] = "ins_first"
             /\ reg'[t].list = list /\ reg'[t].element = x
             /\ reg'[t].ptr = NULL /\ reg'[t].prev = NULL /\ reg'[t].next = NULL
  BY <1>1 DEF Registers, OthersKeep, Idle, CallInsert
<1>2. ASSUME CallLookup(t, list, x)
      PROVE  /\ Registers' /\ OthersKeep(t) /\ pc'[t] = "look_first"
             /\ reg'[t].list = list /\ reg'[t].key = x /\ reg'[t].element = NULL
             /\ reg'[t].ptr = NULL /\ reg'[t].prev = NULL /\ reg'[t].next = NULL
  BY <1>2 DEF Registers, OthersKeep, Idle, CallLookup
<1>3. ASSUME CallDelete(t, x)
      PROVE  /\ Registers' /\ OthersKeep(t) /\ pc'[t] = "del_prev"
             /\ reg'[t].list = NULL /\ reg'[t].element = x
             /\ reg'[t].ptr = NULL /\ reg'[t].prev = NULL /\ reg'[t].next = NULL
  BY <1>3 DEF Registers, OthersKeep, Idle, CallDelete
<1>4. ASSUME CallLength(t, list)
      PROVE  /\ Registers' /\ OthersKeep(t) /\ pc'[t] = "len_head1"
             /\ reg'[t].list = list /\ reg'[t].element = NULL /\ reg'[t].ret = 0
             /\ reg'[t].ptr = NULL /\ reg'[t].prev = NULL /\ reg'[t].next = NULL
  BY <1>4 DEF Registers, OthersKeep, Idle, CallLength
<1> QED BY <1>1, <1>2, <1>3, <1>4

-----------------------------------------------------------------------------
(* With or without locks: links lead to nodes, and what a function has      *)
(* tested, or must not find NULL, is not NULL.                             *)

InsertLabels == {"ins_first", "ins_scan", "ins_link1", "ins_link2", "ins_link3",
                 "ins_link4"}
LookupLabels == {"look_first", "look_scan"}
DeleteLabels == {"del_prev", "del_next", "del_check1", "del_check2", "del_link1",
                 "del_link2"}
LengthLabels == {"len_head1", "len_head2", "len_first", "len_next", "len_prev",
                 "len_fwd1", "len_fwd2", "len_bwd1", "len_bwd2", "len_advance"}

LinksLead == /\ next \in [Nodes -> Nodes \cup {NULL}]
             /\ prev \in [Nodes -> Nodes \cup {NULL}]
             /\ \A h \in Heads : next[h] # NULL /\ prev[h] # NULL

StaySet == \A n \in Nodes : /\ next[n] # NULL => next'[n] # NULL
                            /\ prev[n] # NULL => prev'[n] # NULL

Lead(r) == {r.ptr, r.prev, r.next, r.element} \subseteq Nodes \cup {NULL}

Known(t) ==
  LET r == reg[t]
  IN  /\ Lead(r)
      /\ pc[t] \in InsertLabels =>
            /\ r.list \in Heads /\ r.element # NULL
            /\ pc[t] \notin {"ins_first", "ins_scan"} => r.ptr # NULL
            /\ pc[t] \in {"ins_link2", "ins_link3", "ins_link4"} => r.prev # NULL
      /\ pc[t] \in LookupLabels => r.list \in Heads
      /\ pc[t] \in {"del_check2", "del_link1", "del_link2"} => r.next # NULL
      /\ pc[t] \in {"del_link1", "del_link2"} => r.prev # NULL
      /\ pc[t] \in LengthLabels =>
            /\ r.list \in Heads
            /\ pc[t] \notin {"len_head1", "len_head2", "len_first"} => r.ptr # NULL
            /\ pc[t] \in {"len_prev", "len_fwd1", "len_fwd2", "len_bwd1", "len_bwd2",
                          "len_advance"} => next[r.ptr] # NULL
            /\ pc[t] \in {"len_fwd1", "len_fwd2", "len_bwd1", "len_bwd2",
                          "len_advance"} => prev[r.ptr] # NULL
            /\ pc[t] = "len_fwd2" => r.next # NULL
            /\ pc[t] = "len_bwd2" => r.prev # NULL

Tied == NULL \notin Nodes /\ Registers /\ LinksLead

(* Where a step of a process leads, by the function it is in.               *)
LEMMA InsertKeepsLead ==
  ASSUME Tied, NEW t \in Procs, Known(t), ~Faults(t),
         InsertFirst(t) \/ InsertScan(t) \/ InsertLink(t)
  PROVE  Registers' /\ LinksLead' /\ Known(t)' /\ StaySet /\ OthersKeep(t)
<1> USE DEF Nodes, Tied, LinksLead, Known, Lead, StaySet, InsertLabels,
            LookupLabels, DeleteLabels, LengthLabels
<1>1. CASE InsertFirst(t)
  <2>1. Load(t, "ptr", next[reg[t].list], "ins_scan") /\ pc[t] = "ins_first"
    BY <1>1 DEF InsertFirst
  <2> QED BY <2>1, LoadPtr
<1>2. CASE InsertScan(t)
  <2>1. pc[t] = "ins_scan" /\ reg[t].ptr # NULL
    BY <1>2 DEF InsertScan, Faults, Operand, Labels
  <2>2. CASE Load(t, "ptr", next[reg[t].ptr], "ins_scan")
    BY <2>1, <2>2, LoadPtr
  <2>3. CASE Load(t, "prev", prev[reg[t].ptr], "ins_link1")
    BY <2>1, <2>3, LoadPrev
  <2> QED BY <1>2, <2>2, <2>3 DEF InsertScan
<1>3. CASE InsertLink(t)
  <2>1. CASE pc[t] = "ins_link1"
    <3>1. reg[t].prev # NULL
      BY <2>1 DEF Faults, Operand, Labels
    <3>2. /\ next' = [next EXCEPT ![reg[t].prev] = reg[t].element] /\ prev' = prev
          /\ pc' = [pc EXCEPT ![t] = "ins_link2"] /\ reg' = reg
      BY <1>3, <2>1 DEF InsertLink
    <3> QED BY <2>1, <3>1, <3>2, GoesOn
  <2>2. CASE pc[t] = "ins_link2"
    <3>2. /\ prev' = [prev EXCEPT ![reg[t].element] = reg[t].prev] /\ next' = next
          /\ pc' = [pc EXCEPT ![t] = "ins_link3"] /\ reg' = reg
      BY <1>3, <2>2 DEF InsertLink
    <3>3. Registers' /\ OthersKeep(t) /\ pc'[t] = "ins_link3" /\ reg'[t] = reg[t]
      BY <3>2, GoesOn
    <3>4. LinksLead' /\ StaySet
      BY <2>2, <3>2
    <3>5. Known(t)'
      BY <2>2, <3>3
    <3> QED BY <3>3, <3>4, <3>5
  <2>3. CASE pc[t] = "ins_link3"
    <3>2. /\ next' = [next EXCEPT ![reg[t].element] = reg[t].ptr] /\ prev' = prev
          /\ pc' = [pc EXCEPT ![t] = "ins_link4"] /\ reg' = reg
      BY <1>3, <2>3 DEF InsertLink
    <3> QED BY <2>3, <3>2, GoesOn
  <2>4. CASE pc[t] = "ins_link4"
    <3>2. /\ prev' = [prev EXCEPT ![reg[t].ptr] = reg[t].element] /\ next' = next
          /\ Return(t, NULL, 0)
      BY <1>3, <2>4 DEF InsertLink
    <3> QED BY <2>4, <3>2, Returns
  <2> QED BY <1>3, <2>1, <2>2, <2>3, <2>4 DEF InsertLink
<1> QED BY <1>1, <1>2, <1>3

LEMMA LookupKeepsLead ==
  ASSUME Tied, NEW t \in Procs, Known(t), ~Faults(t), LookupFirst(t) \/ LookupScan(t)
  PROVE  Registers' /\ LinksLead' /\ Known(t)' /\ StaySet /\ OthersKeep(t)
<1> USE DEF Nodes, Tied, LinksLead, Known, Lead, StaySet, InsertLabels,
            LookupLabels, DeleteLabels, LengthLabels
<1>1. CASE LookupFirst(t)
  <2>1. Load(t, "ptr", next[reg[t].list], "look_scan") /\ pc[t] = "look_first"
    BY <1>1 DEF LookupFirst
  <2> QED BY <2>1, LoadPtr
<1>2. CASE LookupScan(t)
  <2>1. pc[t] = "look_scan" /\ reg[t].ptr # NULL
    BY <1>2 DEF LookupScan, Faults, Operand, Labels
  <2>2. CASE Load(t, "ptr", next[reg[t].ptr], "look_scan")
    BY <2>1, <2>2, LoadPtr
  <2>3. ASSUME NEW x \in {NULL, reg[t].ptr}, Return(t, x, 0), UNCHANGED <<next, prev>>
        PROVE  Registers' /\ LinksLead' /\ Known(t)' /\ StaySet /\ OthersKeep(t)
    BY <2>1, <2>3, Returns
  <2> QED BY <1>2, <2>2, <2>3 DEF LookupScan
<1> QED BY <1>1, <1>2

LEMMA DeleteKeepsLead ==
  ASSUME Tied, NEW t \in Procs, Known(t), ~Faults(t),
         DeleteLoad(t) \/ DeleteCheck(t) \/ DeleteLink(t)
  PROVE  Registers' /\ LinksLead' /\ Known(t)' /\ StaySet /\ OthersKeep(t)
<1> USE DEF Nodes, Tied, LinksLead, Known, Lead, StaySet, InsertLabels,
            LookupLabels, DeleteLabels, LengthLabels
<1>1. CASE DeleteLoad(t)
  <2>1. reg[t].element # NULL
    BY <1>1 DEF DeleteLoad, Faults, Operand, Labels
  <2>2. CASE pc[t] = "del_prev" /\ Load(t, "prev", prev[reg[t].element], "del_next")
    BY <2>1, <2>2, LoadPrev
  <2>3. CASE pc[t] = "del_next" /\ Load(t, "next", next[reg[t].element], "del_check1")
    BY <2>1, <2>3, LoadNext
  <2> QED BY <1>1, <2>2, <2>3 DEF DeleteLoad
<1>2. CASE DeleteCheck(t)
  <2>1. /\ next' = next /\ prev' = prev
        /\ pc[t] = "del_check1" => reg[t].next # NULL
        /\ pc[t] = "del_check2" => reg[t].prev # NULL
        /\ pc[t] \in {"del_check1", "del_check2"}
    BY <1>2 DEF DeleteCheck, Faults, Operand, Labels
  <2>2. CASE pc[t] = "del_check1" /\ pc' = [pc EXCEPT ![t] = "del_check2"] /\ reg' = reg
    <3>1. Registers' /\ OthersKeep(t) /\ pc'[t] = "del_check2" /\ reg'[t] = reg[t]
      BY <2>2, GoesOn
    <3> QED BY <2>1, <2>2, <3>1
  <2>3. CASE pc[t] = "del_check2" /\ pc' = [pc EXCEPT ![t] = "del_link1"] /\ reg' = reg
    <3>1. Registers' /\ OthersKeep(t) /\ pc'[t] = "del_link1" /\ reg'[t] = reg[t]
      BY <2>3, GoesOn
    <3> QED BY <2>1, <2>3, <3>1
  <2>4. CASE Return(t, NULL, 1)
    BY <2>1, <2>4, Returns
  <2> QED BY <1>2, <2>2, <2>3, <2>4 DEF DeleteCheck
<1>3. CASE DeleteLink(t)
  <2>2. CASE pc[t] = "del_link1"
    <3>2. /\ next' = [next EXCEPT ![reg[t].prev] = reg[t].next] /\ prev' = prev
          /\ pc' = [pc EXCEPT ![t] = "del_link2"] /\ reg' = reg
      BY <1>3, <2>2 DEF DeleteLink
    <3> QED BY <2>2, <3>2, GoesOn
  <2>4. CASE pc[t] = "del_link2"
    <3>2. /\ prev' = [prev EXCEPT ![reg[t].next] = reg[t].prev] /\ next' = next
          /\ Return(t, NULL, 0)
      BY <1>3, <2>4 DEF DeleteLink
    <3> QED BY <2>4, <3>2, Returns
  <2> QED BY <1>3, <2>2, <2>4 DEF DeleteLink
<1> QED BY <1>1, <1>2, <1>3

LEMMA LengthKeepsLead ==
  ASSUME Tied, NEW t \in Procs, Known(t), LengthHead(t) \/ LengthElement(t)
  PROVE  Registers' /\ LinksLead' /\ Known(t)' /\ StaySet /\ OthersKeep(t)
<1> USE DEF Nodes, Tied, LinksLead, Known, Lead, StaySet, InsertLabels,
            LookupLabels, DeleteLabels, LengthLabels
<1>1. ASSUME NEW ret, Return(t, NULL, ret), UNCHANGED <<next, prev>>
      PROVE  Registers' /\ LinksLead' /\ Known(t)' /\ StaySet /\ OthersKeep(t)
  BY <1>1, Returns
<1>2. ASSUME NEW good, NEW label, Test(t, good, label)
      PROVE  \/ Return(t, NULL, -1) /\ UNCHANGED <<next, prev>>
             \/ /\ good /\ pc'[t] = label /\ reg'[t] = reg[t] /\ next' = next /\ prev' = prev
                /\ Registers' /\ OthersKeep(t)
  BY <1>2, GoesOn DEF Test, Corrupted
<1>3. CASE LengthHead(t)
  <2>1. CASE pc[t] = "len_head1" /\ Test(t, next[reg[t].list] # NULL, "len_head2")
    BY <1>1, <1>2, <2>1
  <2>2. CASE pc[t] = "len_head2" /\ Test(t, prev[reg[t].list] # NULL, "len_first")
    BY <1>1, <1>2, <2>2
  <2>3. CASE pc[t] = "len_first" /\ Load(t, "ptr", next[reg[t].list], "len_next")
    BY <2>3, LoadPtr
  <2> QED BY <1>3, <2>1, <2>2, <2>3 DEF LengthHead
<1>4. CASE LengthElement(t)
  <2>1. CASE pc[t] = "len_next"
    <3>1. CASE Return(t, NULL, reg[t].ret) /\ UNCHANGED <<next, prev>>
      BY <1>1, <3>1
    <3>2. CASE Test(t, next[reg[t].ptr] # NULL, "len_prev")
      <4>1. CASE Return(t, NULL, -1) /\ UNCHANGED <<next, prev>>
        BY <1>1, <4>1
      <4>2. CASE /\ next[reg[t].ptr] # NULL /\ pc'[t] = "len_prev" /\ reg'[t] = reg[t]
                 /\ next' = next /\ prev' = prev /\ Registers' /\ OthersKeep(t)
        BY <2>1, <4>2
      <4> QED BY <1>2, <3>2, <4>1, <4>2
    <3> QED BY <1>4, <2>1, <3>1, <3>2 DEF LengthElement
  <2>2. CASE pc[t] = "len_prev" /\ Test(t, prev[reg[t].ptr] # NULL, "len_fwd1")
    <3>1. CASE Return(t, NULL, -1) /\ UNCHANGED <<next, prev>>
      BY <1>1, <3>1
    <3>2. CASE /\ prev[reg[t].ptr] # NULL /\ pc'[t] = "len_fwd1" /\ reg'[t] = reg[t]
               /\ next' = next /\ prev' = prev /\ Registers' /\ OthersKeep(t)
      BY <2>2, <3>2
    <3> QED BY <1>2, <2>2, <3>1, <3>2
  <2>3. CASE pc[t] = "len_fwd1" /\ Load(t, "next", next[reg[t].ptr], "len_fwd2")
    BY <2>3, LoadNext
  <2>4. CASE pc[t] = "len_fwd2" /\ Test(t, prev[reg[t].next] = reg[t].ptr, "len_bwd1")
    BY <1>1, <1>2, <2>4
  <2>5. CASE pc[t] = "len_bwd1" /\ Load(t, "prev", prev[reg[t].ptr], "len_bwd2")
    BY <2>5, LoadPrev
  <2>6. CASE pc[t] = "len_bwd2" /\ Test(t, next[reg[t].prev] = reg[t].ptr, "len_advance")
    BY <1>1, <1>2, <2>6
  <2>7. CASE pc[t] = "len_advance"
    <3>1. /\ reg' = [reg EXCEPT ![t] = [Idle EXCEPT !.list = reg[t].list,
                                     !.ptr = next[reg[t].ptr], !.ret = reg[t].ret + 1]]
          /\ pc' = [pc EXCEPT ![t] = "len_next"] /\ next' = next /\ prev' = prev
      BY <1>4, <2>7 DEF LengthElement
    <3>2. /\ Registers' /\ OthersKeep(t) /\ pc'[t] = "len_next"
          /\ reg'[t].ptr = next[reg[t].ptr] /\ reg'[t].list = reg[t].list
          /\ reg'[t].element = NULL /\ reg'[t].prev = NULL /\ reg'[t].next = NULL
      <4> HIDE DEF Nodes, Tied, LinksLead, Known
      <4> QED BY <3>1 DEF Tied, Registers, OthersKeep, Idle
    <3> QED BY <2>7, <3>1, <3>2
  <2> QED BY <1>4, <2>1, <2>2, <2>3, <2>4, <2>5, <2>6, <2>7 DEF LengthElement
<1> QED BY <1>3, <1>4

(* Whatever the others do meanwhile, no step makes a link NULL, and every   *)
(* process still knows what it knew.                                       *)
LEMMA StepKeepsLead ==
  ASSUME Tied, \A u \in Procs : Known(u), NEW t \in Procs, ListStep(t)
  PROVE  Tied' /\ StaySet /\ OthersKeep(t) /\ \A u \in Procs : Known(u)'
<1>1. Registers' /\ LinksLead' /\ Known(t)' /\ StaySet /\ OthersKeep(t)
  BY InsertKeepsLead, LookupKeepsLead, DeleteKeepsLead, LengthKeepsLead DEF ListStep
<1>2. ASSUME NEW u \in Procs \ {t}
      PROVE  Known(u)'
  BY <1>1, <1>2 DEF Known, Lead, StaySet, OthersKeep, Tied, LinksLead, LengthLabels
<1> QED BY <1>1, <1>2 DEF Tied, Nodes

(* A call starts from what its caller knows.                                *)
LEMMA CallsKnown ==
  ASSUME Tied, NEW t \in Procs, NEW x \in Nodes \cup {NULL}, NEW list \in Heads,
         NEW k,
         \/ CallInsert(t, list, x) /\ x # NULL
         \/ CallLookup(t, list, k)
         \/ CallDelete(t, x)
         \/ CallLength(t, list)
  PROVE  Registers' /\ OthersKeep(t) /\ Known(t)'
BY Calls DEF Tied, Known, Lead, InsertLabels, LookupLabels, DeleteLabels, LengthLabels

(* SortedList_length never follows a NULL pointer.                          *)
LEMMA LengthIsSafe ==
  ASSUME Tied, NEW t \in Procs, Known(t), pc[t] \in LengthLabels
  PROVE  ~Faults(t)
BY DEF Tied, Known, Lead, LengthLabels, Faults, Operand, Labels, LookupLabels,
       DeleteLabels, InsertLabels, Nodes

(* A process stays in the function it called until that returns.            *)
LEMMA StaysInFunction ==
  ASSUME Registers, NEW t \in Procs, ListStep(t)
  PROVE  /\ \/ /\ pc[t] \in InsertLabels /\ pc'[t] \in InsertLabels \cup {"ret"}
               /\ InsertFirst(t) \/ InsertScan(t) \/ InsertLink(t)
            \/ /\ pc[t] \in LookupLabels /\ pc'[t] \in LookupLabels \cup {"ret"}
               /\ LookupFirst(t) \/ LookupScan(t)
            \/ /\ pc[t] \in DeleteLabels /\ pc'[t] \in DeleteLabels \cup {"ret"}
               /\ DeleteLoad(t) \/ DeleteCheck(t) \/ DeleteLink(t)
            \/ /\ pc[t] \in LengthLabels /\ pc'[t] \in LengthLabels \cup {"ret"}
               /\ LengthHead(t) \/ LengthElement(t)
         /\ OthersKeep(t)
<1>1. /\ \A label : pc' = [pc EXCEPT ![t] = label] => pc'[t] = label
      /\ OthersKeep(t) /\ key' = key
  BY DEF ListStep, Registers, OthersKeep, InsertFirst, InsertScan, InsertLink, LookupFirst,
         LookupScan, DeleteLoad, DeleteCheck, DeleteLink, LengthHead, LengthElement, Load,
         Return, Test, Corrupted
<1>2. CASE InsertFirst(t) \/ InsertScan(t) \/ InsertLink(t)
  BY <1>1, <1>2 DEF InsertFirst, InsertScan, InsertLink, Load, Return, InsertLabels
<1>3. CASE LookupFirst(t) \/ LookupScan(t)
  BY <1>1, <1>3 DEF LookupFirst, LookupScan, Load, Return, LookupLabels
<1>4. CASE DeleteLoad(t) \/ DeleteCheck(t) \/ DeleteLink(t)
  BY <1>1, <1>4 DEF DeleteLoad, DeleteCheck, DeleteLink, Load, Return, DeleteLabels
<1>5. CASE LengthHead(t)
  BY <1>1, <1>5 DEF LengthHead, Load, Return, Test, Corrupted, LengthLabels
<1>6. CASE LengthElement(t)
  BY <1>1, <1>6 DEF LengthElement, Load, Return, Test, Corrupted, LengthLabels
<1> QED BY <1>1, <1>2, <1>3, <1>4, <1>5, <1>6 DEF ListStep

(* A length that has counted no element has seen the head lead to itself.   *)
EmptySeen(t, h) ==
  LET r == reg[t]
  IN  /\ pc[t] \in LengthLabels =>
            /\ r.list = h /\ r.ret \in Nat
            /\ pc[t] = "len_next" /\ r.ret = 0 => r.ptr = next[h]
      /\ pc[t] = "ret" /\ r.ret = 0 => next[h] = h

LEMMA LengthSees ==
  ASSUME Registers, NEW t \in Procs, NEW h, EmptySeen(t, h),
         pc[t] \in LengthLabels, ListStep(t)
  PROVE  EmptySeen(t, h)' /\ next' = next /\ prev' = prev
<1> USE DEF EmptySeen, LengthLabels
<1>1. CASE Corrupted(t)
  BY <1>1, Returns DEF Corrupted
<1>2. CASE pc[t] = "len_head1" /\ pc' = [pc EXCEPT ![t] = "len_head2"]
             /\ UNCHANGED <<next, prev, reg>>
  BY <1>2, GoesOn
<1>3. CASE pc[t] = "len_head2" /\ pc' = [pc EXCEPT ![t] = "len_first"]
             /\ UNCHANGED <<next, prev, reg>>
  BY <1>3, GoesOn
<1>4. CASE pc[t] = "len_first" /\ Load(t, "ptr", next[reg[t].list], "len_next")
  BY <1>4, LoadPtr
<1>5. CASE pc[t] = "len_next" /\ Return(t, NULL, reg[t].ret) /\ UNCHANGED <<next, prev>>
             /\ reg[t].ptr = reg[t].list
  BY <1>5, Returns
<1>6. ASSUME NEW label \in {"len_prev", "len_fwd1", "len_bwd1", "len_advance"},
             pc' = [pc EXCEPT ![t] = label], UNCHANGED <<next, prev, reg>>
      PROVE  EmptySeen(t, h)' /\ next' = next /\ prev' = prev
  BY <1>6, GoesOn
<1>7. CASE pc[t] = "len_fwd1" /\ Load(t, "next", next[reg[t].ptr], "len_fwd2")
  BY <1>7, LoadNext
<1>8. CASE pc[t] = "len_bwd1" /\ Load(t, "prev", prev[reg[t].ptr], "len_bwd2")
  BY <1>8, LoadPrev
<1>9. CASE /\ reg' = [reg EXCEPT ![t] = [Idle EXCEPT !.list = reg[t].list,
                                 !.ptr = next[reg[t].ptr], !.ret = reg[t].ret + 1]]
           /\ pc' = [pc EXCEPT ![t] = "len_next"]
           /\ UNCHANGED <<next, prev>>
  <2>1. /\ pc'[t] = "len_next" /\ reg'[t].list = reg[t].list
        /\ reg'[t].ret = reg[t].ret + 1
    BY <1>9 DEF Registers, Idle
  <2> QED BY <1>9, <2>1
<1>10. LengthHead(t) \/ LengthElement(t)
  BY StaysInFunction DEF InsertLabels, LookupLabels, DeleteLabels
<1>11. CASE LengthHead(t)
  BY <1>1, <1>2, <1>3, <1>4, <1>11 DEF LengthHead, Test
<1>12. CASE LengthElement(t)
  BY <1>1, <1>5, <1>6, <1>7, <1>8, <1>9, <1>12 DEF LengthElement, Test
<1> QED BY <1>10, <1>11, <1>12

-----------------------------------------------------------------------------
(* strcmp() orders the keys.                                               *)

(* The least-number principle.                                            *)
LEMMA LeastElement ==
  ASSUME NEW S \in SUBSET Nat, S # {}
  PROVE  \E m \in S : \A n \in S : m <= n
<1>1. IsWellFoundedOn(OpToRel(<, Nat), Nat)
  BY NatLessThanWellFounded
<1>2. PICK m \in S : \A n \in S : ~(<<n, m>> \in OpToRel(<, Nat))
  BY <1>1, WFMin
<1>3. \A n \in S : ~(n < m)
  BY <1>2 DEF OpToRel
<1> QED BY <1>3

(* a and b agree on their first m characters.                               *)
Agree(a, b, m) == /\ m \in Nat /\ m <= Len(a) /\ m <= Len(b)
                  /\ \A i \in 1..m : a[i] = b[i]

(* strcmp() looks at the first character after the longest common prefix.   *)
LEMMA StrcmpIs ==
  ASSUME NEW a \in Seq(Int), NEW b \in Seq(Int)
  PROVE  \E m : /\ Agree(a, b, m)
                /\ \/ m = Len(a) /\ strcmp(a, b) = Len(a) - Len(b)
                   \/ m < Len(a) /\ m = Len(b) /\ strcmp(a, b) = 1
                   \/ /\ m < Len(a) /\ m < Len(b) /\ a[m + 1] # b[m + 1]
                      /\ strcmp(a, b) = a[m + 1] - b[m + 1]
<1> DEFINE differ == {i \in 1..Len(a) : i > Len(b) \/ a[i] # b[i]}
<1>0. Len(a) \in Nat /\ Len(b) \in Nat
  OBVIOUS
<1>1. CASE differ = {}
  <2>1. Len(a) <= Len(b) /\ \A i \in 1..Len(a) : a[i] = b[i]
    <3>1. \A i \in 1..Len(a) : i <= Len(b) /\ a[i] = b[i]
      BY <1>0, <1>1
    <3>2. Len(a) = 0 \/ Len(a) \in 1..Len(a)
      BY <1>0
    <3> QED BY <1>0, <3>1, <3>2
  <2>2. strcmp(a, b) = Len(a) - Len(b)
    BY <1>1 DEF strcmp
  <2> QED BY <1>0, <2>1, <2>2 DEF Agree
<1>2. CASE differ # {}
  <2> DEFINE d == CHOOSE i \in differ : \A j \in differ : i <= j
  <2>1. d \in differ /\ \A j \in differ : d <= j
    <3>1. differ \in SUBSET Nat
      BY <1>0
    <3>2. \E i \in differ : \A j \in differ : i <= j
      <4> HIDE DEF differ
      <4> QED BY <1>2, <3>1, LeastElement
    <3> HIDE DEF differ
    <3> QED BY <3>2
  <2>2. strcmp(a, b) = IF d > Len(b) THEN 1 ELSE a[d] - b[d]
    BY <1>2 DEF strcmp
  <2> HIDE DEF d
  <2>3. d \in 1..Len(a) /\ (d > Len(b) \/ a[d] # b[d])
    BY <2>1
  <2>4. \A i \in 1..(d - 1) : i <= Len(b) /\ a[i] = b[i]
    BY <1>0, <2>1, <2>3
  <2>5. d - 1 <= Len(b)
    <3>1. d - 1 = 0 \/ d - 1 \in 1..(d - 1)
      BY <2>3
    <3> QED BY <1>0, <2>3, <2>4, <3>1
  <2>6. Agree(a, b, d - 1)
    <3>1. d - 1 \in Nat /\ d - 1 <= Len(a) /\ d - 1 <= Len(b)
      BY <1>0, <2>3, <2>5
    <3>2. \A i \in 1..(d - 1) : a[i] = b[i]
      BY <2>4
    <3> QED BY <3>1, <3>2 DEF Agree
  <2> DEFINE m == d - 1
  <2>7. m + 1 = d /\ m \in Nat /\ m < Len(a)
    BY <1>0, <2>3
  <2>8. CASE d > Len(b)
    <3>1. m = Len(b)
      BY <1>0, <2>3, <2>5, <2>8
    <3>2. strcmp(a, b) = 1
      BY <2>2, <2>8
    <3> QED BY <2>6, <2>7, <3>1, <3>2
  <2>9. CASE ~(d > Len(b))
    <3>1. m < Len(b) /\ a[m + 1] # b[m + 1]
      BY <1>0, <2>3, <2>7, <2>9
    <3>2. strcmp(a, b) = a[m + 1] - b[m + 1]
      BY <2>2, <2>7, <2>9
    <3> QED BY <2>6, <2>7, <3>1, <3>2
  <2> QED BY <2>8, <2>9
<1> QED BY <1>1, <1>2

(* Equal keys, and only they, compare as 0.                                 *)
LEMMA StrcmpEqual ==
  ASSUME NEW a \in Seq(Int), NEW b \in Seq(Int)
  PROVE  /\ strcmp(a, b) \in Int
         /\ strcmp(a, b) = 0 <=> a = b
<1>1. PICK m : /\ Agree(a, b, m)
                /\ \/ m = Len(a) /\ strcmp(a, b) = Len(a) - Len(b)
                   \/ m < Len(a) /\ m = Len(b) /\ strcmp(a, b) = 1
                   \/ /\ m < Len(a) /\ m < Len(b) /\ a[m + 1] # b[m + 1]
                      /\ strcmp(a, b) = a[m + 1] - b[m + 1]
  BY StrcmpIs
<1>2. strcmp(a, b) \in Int
  BY <1>1 DEF Agree
<1>3. ASSUME strcmp(a, b) = 0
      PROVE  a = b
  <2>1. m = Len(a) /\ Len(a) = Len(b)
    BY <1>1, <1>3 DEF Agree
  <2>2. \A i \in 1..Len(a) : a[i] = b[i]
    BY <1>1, <2>1 DEF Agree
  <2>3. /\ Len(a) \in Nat
        /\ a = [i \in 1..Len(a) |-> a[i]] /\ b = [i \in 1..Len(b) |-> b[i]]
    OBVIOUS
  <2> QED BY <2>1, <2>2, <2>3
<1>4. ASSUME a = b
      PROVE  strcmp(a, b) = 0
  BY <1>1, <1>4 DEF Agree
<1> QED BY <1>2, <1>3, <1>4

(* a comes before b, greatest first, or equals it.                          *)
NotLess(a, b) ==
  \/ a = b
  \/ \E m : /\ Agree(a, b, m) /\ m < Len(a)
            /\ m = Len(b) \/ (m < Len(b) /\ a[m + 1] > b[m + 1])

(* The sign of strcmp() is that order.                                      *)
LEMMA StrcmpSign ==
  ASSUME NEW a \in Seq(Int), NEW b \in Seq(Int)
  PROVE  /\ strcmp(a, b) >= 0 <=> NotLess(a, b)
         /\ strcmp(a, b) <= 0 <=> NotLess(b, a)
<1>1. PICK m : /\ Agree(a, b, m)
                /\ \/ m = Len(a) /\ strcmp(a, b) = Len(a) - Len(b)
                   \/ m < Len(a) /\ m = Len(b) /\ strcmp(a, b) = 1
                   \/ /\ m < Len(a) /\ m < Len(b) /\ a[m + 1] # b[m + 1]
                      /\ strcmp(a, b) = a[m + 1] - b[m + 1]
  BY StrcmpIs
<1>2. strcmp(a, b) \in Int /\ (strcmp(a, b) = 0 <=> a = b)
  BY StrcmpEqual
<1>3. Len(a) \in Nat /\ Len(b) \in Nat /\ m \in Nat
  BY <1>1 DEF Agree
<1>4. Agree(b, a, m)
  BY <1>1 DEF Agree
<1>5. strcmp(a, b) > 0 => NotLess(a, b)
  <2>1. CASE m = Len(b) /\ m < Len(a)
    BY <1>1, <1>3, <2>1 DEF NotLess
  <2>2. CASE m < Len(a) /\ m < Len(b) /\ a[m + 1] > b[m + 1]
    BY <1>1, <1>3, <2>2 DEF NotLess
  <2> QED BY <1>1, <1>3, <2>1, <2>2 DEF Agree
<1>6. strcmp(a, b) < 0 => NotLess(b, a)
  <2>1. CASE m = Len(a) /\ m < Len(b)
    BY <1>3, <1>4, <2>1 DEF NotLess
  <2>2. CASE m < Len(a) /\ m < Len(b) /\ a[m + 1] < b[m + 1]
    BY <1>3, <1>4, <2>2 DEF NotLess
  <2> QED BY <1>1, <1>3, <2>1, <2>2 DEF Agree
<1>7. ~(a # b /\ NotLess(a, b) /\ NotLess(b, a))
  <2> SUFFICES ASSUME a # b, NotLess(a, b), NotLess(b, a)
               PROVE  FALSE
    OBVIOUS
  <2>1. PICK p : /\ Agree(a, b, p) /\ p < Len(a)
                 /\ p = Len(b) \/ (p < Len(b) /\ a[p + 1] > b[p + 1])
    BY DEF NotLess
  <2>2. PICK q : /\ Agree(b, a, q) /\ q < Len(b)
                 /\ q = Len(a) \/ (q < Len(a) /\ b[q + 1] > a[q + 1])
    BY DEF NotLess
  <2>3. p \in Nat /\ q \in Nat /\ q < Len(a) /\ p < Len(b)
    BY <1>3, <2>1, <2>2 DEF Agree
  <2>4. a[p + 1] \in Int /\ b[p + 1] \in Int /\ a[q + 1] \in Int /\ b[q + 1] \in Int
    BY <1>3, <2>1, <2>2, <2>3
  <2>5. p < q => a[p + 1] = b[p + 1]
    BY <2>2, <2>3 DEF Agree
  <2>6. q < p => a[q + 1] = b[q + 1]
    BY <2>1, <2>3 DEF Agree
  <2>7. CASE p < q
    BY <1>3, <2>1, <2>2, <2>3, <2>4, <2>5, <2>7 DEF Agree
  <2>8. CASE q < p
    BY <1>3, <2>1, <2>2, <2>3, <2>4, <2>6, <2>8 DEF Agree
  <2>9. CASE p = q
    BY <1>3, <2>1, <2>2, <2>3, <2>4, <2>9
  <2> QED BY <2>3, <2>7, <2>8, <2>9
<1> QED BY <1>2, <1>5, <1>6, <1>7 DEF NotLess

LEMMA StrcmpOpposite ==
  ASSUME NEW a \in Seq(Int), NEW b \in Seq(Int), strcmp(a, b) <= 0
  PROVE  strcmp(b, a) >= 0
BY StrcmpSign

LEMMA StrcmpTransitive ==
  ASSUME NEW a \in Seq(Int), NEW b \in Seq(Int), NEW c \in Seq(Int),
         strcmp(a, b) >= 0, strcmp(b, c) >= 0
  PROVE  strcmp(a, c) >= 0
<1> SUFFICES ASSUME a # b, b # c
             PROVE  NotLess(a, c)
  BY StrcmpSign
<1>0. Len(a) \in Nat /\ Len(b) \in Nat /\ Len(c) \in Nat
  OBVIOUS
<1>1. PICK p : /\ Agree(a, b, p) /\ p < Len(a)
               /\ p = Len(b) \/ (p < Len(b) /\ a[p + 1] > b[p + 1])
  BY StrcmpSign DEF NotLess
<1>2. PICK q : /\ Agree(b, c, q) /\ q < Len(b)
               /\ q = Len(c) \/ (q < Len(c) /\ b[q + 1] > c[q + 1])
  BY StrcmpSign DEF NotLess
<1>3. p \in Nat /\ q \in Nat
  BY <1>1, <1>2 DEF Agree
<1>4. CASE p < q
  <2>1. Agree(a, c, p) /\ p < Len(c) /\ p < Len(b)
    <3>1. /\ \A i \in 1..p : i \in 1..q
          /\ \A i \in 1..p : a[i] = b[i]
          /\ \A i \in 1..q : b[i] = c[i]
      BY <1>1, <1>2, <1>3, <1>4 DEF Agree
    <3>2. p < Len(c) /\ p < Len(b) /\ p <= Len(a)
      BY <1>0, <1>1, <1>2, <1>3, <1>4 DEF Agree
    <3>3. \A i \in 1..p : a[i] = c[i]
      BY <3>1
    <3>4. p <= Len(c)
      BY <1>0, <1>3, <3>2
    <3> QED BY <1>3, <3>2, <3>3, <3>4 DEF Agree
  <2>2. b[p + 1] = c[p + 1]
    BY <1>0, <1>2, <1>3, <1>4 DEF Agree
  <2>3. p = Len(b) \/ a[p + 1] > c[p + 1]
    BY <1>1, <2>2
  <2>4. a[p + 1] > c[p + 1]
    BY <1>0, <2>1, <2>3
  <2> QED BY <1>1, <2>1, <2>4 DEF NotLess
<1>5. CASE q <= p
  <2>1. Agree(a, c, q) /\ q < Len(a) /\ q < Len(b)
    BY <1>0, <1>1, <1>2, <1>3, <1>5 DEF Agree
  <2>2. q < p => a[q + 1] = b[q + 1]
    BY <1>0, <1>1, <1>3 DEF Agree
  <2>3. q = p => a[q + 1] > b[q + 1]
    BY <1>0, <1>1, <1>2, <1>3
  <2>4. q < Len(c) => a[q + 1] \in Int /\ b[q + 1] \in Int /\ c[q + 1] \in Int
    BY <1>0, <1>3, <2>1
  <2>5. q = Len(c) \/ (q < Len(c) /\ a[q + 1] > c[q + 1])
    BY <1>0, <1>2, <1>3, <1>5, <2>2, <2>3, <2>4
  <2> QED BY <2>1, <2>5 DEF NotLess
<1> QED BY <1>3, <1>4, <1>5

-----------------------------------------------------------------------------
(* One process alone in the functions of a list.                            *)

(* A list of head h, whose elements are of S: c[1], ..., c[n] between two    *)
(* occurrences of the head, distinct, linked by prev, and ordered.          *)
Chain(h, S, n, c) ==
  /\ n \in Nat /\ c \in [0..(n + 1) -> Nodes]
  /\ c[0] = h /\ c[n + 1] = h
  /\ \A i \in 1..n : c[i] \in S
  /\ \A i, j \in 1..n : c[i] = c[j] => i = j
  /\ \A i \in 0..n : prev[c[i + 1]] = c[i]
  /\ \A i \in 1..(n - 1) : strcmp(key[c[i]], key[c[i + 1]]) >= 0

(* The links by next: all as in the chain, or all but that of c[k].         *)
Detour(n, c, k, m) == \A i \in 0..n : next[c[i]] = IF i = k THEN m ELSE c[i + 1]
Whole(n, c) == \A i \in 0..n : next[c[i]] = c[i + 1]

On(n, c) == {c[i] : i \in 1..n}

(* What one process, alone in the functions of the list, has reached.       *)
InsertLocal(t, h, S, x, n, c) ==
  LET r == reg[t]
      place(k) == /\ r.ptr = c[k]
                  /\ \A i \in 1..(k - 1) : strcmp(key[c[i]], key[x]) > 0
      linking(k) ==
        \/ pc[t] = "ins_link1" /\ Whole(n, c)
        \/ pc[t] = "ins_link2" /\ Detour(n, c, k - 1, x)
        \/ pc[t] = "ins_link3" /\ Detour(n, c, k - 1, x) /\ prev[x] = r.prev
        \/ /\ pc[t] = "ins_link4" /\ Detour(n, c, k - 1, x)
           /\ prev[x] = r.prev /\ next[x] = r.ptr
  IN  \/ pc[t] = "ret" /\ Whole(n, c)
      \/ /\ r.list = h /\ r.element = x /\ x \in S /\ x \notin On(n, c)
         /\ \/ pc[t] = "ins_first" /\ Whole(n, c)
            \/ \E k \in 1..(n + 1) : pc[t] = "ins_scan" /\ Whole(n, c) /\ place(k)
            \/ \E k \in 1..(n + 1) : /\ place(k) /\ r.prev = c[k - 1] /\ linking(k)
                                     /\ k <= n => strcmp(key[c[k]], key[x]) <= 0

(* The outcome of a lookup of key K.                                        *)
Found(p, K, n, c) ==
  \/ p = NULL /\ \A i \in 1..n : strcmp(key[c[i]], K) # 0
  \/ \E i \in 1..n : p = c[i] /\ strcmp(key[c[i]], K) = 0

LookupLocal(t, h, K, n, c) ==
  LET r == reg[t]
  IN  /\ Whole(n, c)
      /\ \/ pc[t] = "ret" /\ Found(r.ptr, K, n, c)
         \/ pc[t] = "look_first" /\ r.list = h /\ r.key = K
         \/ /\ pc[t] = "look_scan" /\ r.list = h /\ r.key = K
            /\ \E k \in 1..(n + 1) : /\ r.ptr = c[k]
                                     /\ \A i \in 1..(k - 1) : strcmp(key[c[i]], K) # 0

DeleteLocal(t, x, n, c) ==
  LET r == reg[t]
  IN  \/ pc[t] = "ret" /\ r.ret = 0 /\ Whole(n, c)
      \/ \E k \in 1..n :
           /\ c[k] = x /\ r.element = x
           /\ \/ pc[t] = "del_prev" /\ Whole(n, c)
              \/ pc[t] = "del_next" /\ Whole(n, c) /\ r.prev = c[k - 1]
              \/ /\ pc[t] \in {"del_check1", "del_check2", "del_link1"} /\ Whole(n, c)
                 /\ r.prev = c[k - 1] /\ r.next = c[k + 1]
              \/ /\ pc[t] = "del_link2" /\ Detour(n, c, k - 1, c[k + 1])
                 /\ r.prev = c[k - 1] /\ r.next = c[k + 1]

LengthLocal(t, h, n, c) ==
  LET r == reg[t]
  IN  /\ Whole(n, c)
      /\ \/ pc[t] = "ret" /\ r.ret = n
         \/ pc[t] \in {"len_head1", "len_head2", "len_first"} /\ r.list = h /\ r.ret = 0
         \/ \E k \in 1..(n + 1) :
              /\ r.list = h /\ r.ptr = c[k] /\ r.ret = k - 1
              /\ \/ pc[t] = "len_next"
                 \/ /\ k <= n
                    /\ \/ pc[t] \in {"len_prev", "len_fwd1", "len_bwd1", "len_advance"}
                       \/ pc[t] = "len_fwd2" /\ r.next = c[k + 1]
                       \/ pc[t] = "len_bwd2" /\ r.prev = c[k - 1]

(* The list's head and its elements are nodes apart from NULL.              *)
Setting(h, S) == /\ h \in Heads /\ S \subseteq Elems /\ Heads \cap Elems = {}
                 /\ Tied /\ \A e \in Elems : key[e] \in Seq(Int)

(* Only the nodes of the list change their links.                           *)
Apart(h, S) == \A m \in Nodes \ ({h} \cup S) : next'[m] = next[m] /\ prev'[m] = prev[m]

(* The nodes of a chain are distinct, and none is NULL.                     *)
LEMMA ChainNodes ==
  ASSUME NEW h, NEW S, NEW n, NEW c, Setting(h, S), Chain(h, S, n, c)
  PROVE  /\ h \notin S /\ h \in Nodes /\ NULL \notin S
         /\ \A i \in 0..(n + 1) : c[i] \in {h} \cup S /\ c[i] \in Nodes /\ c[i] # NULL
         /\ \A i \in 1..(n + 1) : c[i] = h <=> i = n + 1
         /\ \A i \in 0..n : c[i] = h <=> i = 0
         /\ \A i, j \in 1..(n + 1) : c[i] = c[j] => i = j
         /\ \A i, j \in 0..n : c[i] = c[j] => i = j
<1>1. h \notin S /\ h \in Nodes /\ NULL \notin S /\ n \in Nat
  BY DEF Setting, Nodes, Tied, Chain
<1>2. \A i \in 0..(n + 1) : i = 0 \/ i = n + 1 \/ i \in 1..n
  BY <1>1
<1>3. \A i \in 0..(n + 1) : c[i] \in {h} \cup S /\ c[i] \in Nodes /\ c[i] # NULL
  BY <1>1, <1>2 DEF Chain, Setting, Tied
<1>4. \A i \in 1..(n + 1) : c[i] = h <=> i = n + 1
  BY <1>1, <1>2 DEF Chain
<1>5. \A i \in 0..n : c[i] = h <=> i = 0
  BY <1>1, <1>2 DEF Chain
<1>6. \A i, j \in 1..(n + 1) : c[i] = c[j] => i = j
  BY <1>1, <1>2, <1>4 DEF Chain
<1>7. \A i, j \in 0..n : c[i] = c[j] => i = j
  BY <1>1, <1>2, <1>5 DEF Chain
<1> QED BY <1>1, <1>3, <1>4, <1>5, <1>6, <1>7

(* A step that leaves the links alone leaves the chain.                     *)
LEMMA SameChain ==
  ASSUME NEW h, NEW S, NEW n, NEW c, Chain(h, S, n, c), prev' = prev, key' = key
  PROVE  Chain(h, S, n, c)'
BY DEF Chain, Nodes

(* What each function does to a list of which one process holds the lock.   *)
LEMMA LookupStep ==
  ASSUME NEW h, NEW S, NEW n, NEW c, Setting(h, S), Chain(h, S, n, c),
         NEW t \in Procs, NEW K, LookupLocal(t, h, K, n, c), pc[t] # "ret", ListStep(t)
  PROVE  /\ Chain(h, S, n, c)' /\ LookupLocal(t, h, K, n, c)'
         /\ next' = next /\ prev' = prev
<1>1. /\ LookupFirst(t) \/ LookupScan(t)
      /\ key' = key /\ Registers /\ n \in Nat
  BY StaysInFunction DEF LookupLocal, Setting, Tied, InsertLabels, LookupLabels,
         DeleteLabels, LengthLabels, ListStep, Chain
<1>2. CASE LookupFirst(t)
  <2>1. pc[t] = "look_first" /\ Load(t, "ptr", next[h], "look_scan")
        /\ reg[t].list = h /\ reg[t].key = K
    BY <1>2 DEF LookupFirst, LookupLocal
  <2>2. /\ next' = next /\ prev' = prev /\ pc'[t] = "look_scan" /\ reg'[t].ptr = next[h]
        /\ reg'[t].list = h /\ reg'[t].key = K
    BY <1>1, <2>1, LoadPtr
  <2>3. next[h] = c[1] /\ 1 \in 1..(n + 1) /\ 1..(1 - 1) = {}
    BY <1>1 DEF LookupLocal, Whole, Chain
  <2>4. LookupLocal(t, h, K, n, c)'
    BY <1>1, <2>1, <2>2, <2>3 DEF LookupLocal, Whole
  <2> QED BY <1>1, <2>2, <2>4, SameChain
<1>3. CASE LookupScan(t)
  <2>1. pc[t] = "look_scan" /\ reg[t].list = h /\ reg[t].key = K
    BY <1>3 DEF LookupScan, LookupLocal
  <2>2. PICK k \in 1..(n + 1) : /\ reg[t].ptr = c[k]
                                /\ \A i \in 1..(k - 1) : strcmp(key[c[i]], K) # 0
    BY <2>1 DEF LookupLocal
  <2>3. c[k] = h <=> k = n + 1
    BY ChainNodes
  <2>4. CASE k = n + 1
    <3>1. Return(t, NULL, 0) /\ next' = next /\ prev' = prev
      BY <1>3, <2>1, <2>2, <2>3, <2>4 DEF LookupScan
    <3>2. pc'[t] = "ret" /\ reg'[t].ptr = NULL
      BY <1>1, <3>1, Returns
    <3>3. LookupLocal(t, h, K, n, c)'
      BY <1>1, <2>2, <2>4, <3>1, <3>2 DEF LookupLocal, Whole, Found
    <3> QED BY <1>1, <3>1, <3>3, SameChain
  <2>5. CASE k # n + 1 /\ strcmp(key[c[k]], K) = 0
    <3>1. Return(t, c[k], 0) /\ next' = next /\ prev' = prev
      BY <1>3, <2>1, <2>2, <2>3, <2>5 DEF LookupScan
    <3>2. pc'[t] = "ret" /\ reg'[t].ptr = c[k] /\ k \in 1..n
      BY <1>1, <2>5, <3>1, Returns
    <3>3. LookupLocal(t, h, K, n, c)'
      BY <1>1, <2>2, <2>5, <3>1, <3>2 DEF LookupLocal, Whole, Found
    <3> QED BY <1>1, <3>1, <3>3, SameChain
  <2>6. CASE k # n + 1 /\ strcmp(key[c[k]], K) # 0
    <3>1. Load(t, "ptr", next[c[k]], "look_scan")
      BY <1>3, <2>1, <2>2, <2>3, <2>6 DEF LookupScan
    <3>2. /\ next' = next /\ prev' = prev /\ pc'[t] = "look_scan"
          /\ reg'[t].ptr = next[c[k]] /\ reg'[t].list = h /\ reg'[t].key = K
      BY <1>1, <2>1, <3>1, LoadPtr
    <3>3. next[c[k]] = c[k + 1] /\ k + 1 \in 1..(n + 1)
      BY <1>1, <2>6 DEF LookupLocal, Whole
    <3>4. \A i \in 1..((k + 1) - 1) : strcmp(key[c[i]], K) # 0
      BY <1>1, <2>2, <2>6
    <3>5. LookupLocal(t, h, K, n, c)'
      BY <1>1, <3>2, <3>3, <3>4 DEF LookupLocal, Whole
    <3> QED BY <1>1, <3>2, <3>5, SameChain
  <2> QED BY <2>4, <2>5, <2>6
<1> QED BY <1>1, <1>2, <1>3

LEMMA LengthStep ==
  ASSUME NEW h, NEW S, NEW n, NEW c, Setting(h, S), Chain(h, S, n, c),
         NEW t \in Procs, LengthLocal(t, h, n, c), pc[t] # "ret", ListStep(t)
  PROVE  /\ Chain(h, S, n, c)' /\ LengthLocal(t, h, n, c)'
         /\ next' = next /\ prev' = prev
<1>1. /\ LengthHead(t) \/ LengthElement(t)
      /\ key' = key /\ Registers /\ n \in Nat
  BY StaysInFunction DEF LengthLocal, Setting, Tied, InsertLabels, LookupLabels,
         DeleteLabels, LengthLabels, ListStep, Chain
<1>2. ASSUME NEW good, NEW label, Test(t, good, label), good
      PROVE  /\ pc'[t] = label /\ reg'[t] = reg[t] /\ next' = next /\ prev' = prev
  BY <1>1, <1>2, GoesOn DEF Test
<1>3. h \in Nodes /\ next[h] = c[1] /\ prev[h] = c[n] /\ c[1] # NULL /\ c[n] # NULL
      /\ c[n + 1] = h
  <2>1. 0 \in 0..n /\ n \in 0..n /\ 1 \in 0..(n + 1) /\ n \in 0..(n + 1) /\ 0 + 1 = 1
    BY <1>1
  <2>2. c[1] # NULL /\ c[n] # NULL /\ h \in Nodes
    BY <2>1, ChainNodes
  <2>3. c[0] = h /\ c[n + 1] = h /\ prev[c[n + 1]] = c[n]
    BY <2>1 DEF Chain
  <2>4. next[c[0]] = c[0 + 1]
    BY <2>1 DEF LengthLocal, Whole
  <2> QED BY <2>1, <2>2, <2>3, <2>4
<1>4. CASE LengthHead(t)
  <2>1. pc[t] \in {"len_head1", "len_head2", "len_first"} /\ reg[t].list = h /\ reg[t].ret = 0
    BY <1>4 DEF LengthHead, LengthLocal
  <2>2. CASE pc[t] = "len_first"
    <3>1. Load(t, "ptr", next[h], "len_next")
      BY <1>4, <2>1, <2>2 DEF LengthHead
    <3>2. /\ next' = next /\ prev' = prev /\ pc'[t] = "len_next" /\ reg'[t].ptr = c[1]
          /\ reg'[t].list = h /\ reg'[t].ret = 0
      BY <1>1, <1>3, <2>1, <3>1, LoadPtr
    <3>3. 1 \in 1..(n + 1) /\ 0 = 1 - 1
      BY <1>1
    <3>4. LengthLocal(t, h, n, c)'
      BY <3>2, <3>3 DEF LengthLocal, Whole
    <3> QED BY <1>1, <3>2, <3>4, SameChain
  <2>3. CASE pc[t] # "len_first"
    <3>1. /\ pc'[t] \in {"len_head2", "len_first"} /\ reg'[t] = reg[t]
          /\ next' = next /\ prev' = prev
      BY <1>2, <1>3, <1>4, <2>1, <2>3 DEF LengthHead
    <3>2. LengthLocal(t, h, n, c)'
      BY <2>1, <3>1 DEF LengthLocal, Whole
    <3> QED BY <1>1, <3>1, <3>2, SameChain
  <2> QED BY <2>2, <2>3
<1>5. CASE LengthElement(t)
  <2>1. PICK k \in 1..(n + 1) :
              /\ reg[t].list = h /\ reg[t].ptr = c[k] /\ reg[t].ret = k - 1
              /\ \/ pc[t] = "len_next"
                 \/ /\ k <= n
                    /\ \/ pc[t] \in {"len_prev", "len_fwd1", "len_bwd1", "len_advance"}
                       \/ pc[t] = "len_fwd2" /\ reg[t].next = c[k + 1]
                       \/ pc[t] = "len_bwd2" /\ reg[t].prev = c[k - 1]
    BY <1>5 DEF LengthElement, LengthLocal
  <2>2. c[k] = h <=> k = n + 1
    BY ChainNodes
  <2>3. k <= n => /\ next[c[k]] = c[k + 1] /\ prev[c[k]] = c[k - 1]
                  /\ c[k + 1] # NULL /\ c[k - 1] # NULL
                  /\ prev[c[k + 1]] = c[k] /\ next[c[k - 1]] = c[k]
    <3> SUFFICES ASSUME k <= n
                 PROVE  /\ next[c[k]] = c[k + 1] /\ prev[c[k]] = c[k - 1]
                        /\ c[k + 1] # NULL /\ c[k - 1] # NULL
                        /\ prev[c[k + 1]] = c[k] /\ next[c[k - 1]] = c[k]
      OBVIOUS
    <3>1. k \in 0..n /\ k - 1 \in 0..n /\ k + 1 \in 0..(n + 1) /\ k - 1 \in 0..(n + 1)
          /\ (k - 1) + 1 = k
      BY <1>1
    <3>2. c[k + 1] # NULL /\ c[k - 1] # NULL
      BY <3>1, ChainNodes
    <3>3. prev[c[(k - 1) + 1]] = c[k - 1] /\ prev[c[k + 1]] = c[k]
      BY <3>1 DEF Chain
    <3>4. next[c[k - 1]] = c[(k - 1) + 1] /\ next[c[k]] = c[k + 1]
      BY <3>1 DEF LengthLocal, Whole
    <3> QED BY <3>1, <3>2, <3>3, <3>4
  <2>4. CASE pc[t] = "len_next" /\ k = n + 1
    <3>1. Return(t, NULL, n) /\ next' = next /\ prev' = prev
      BY <1>1, <1>5, <2>1, <2>2, <2>4 DEF LengthElement
    <3>2. pc'[t] = "ret" /\ reg'[t].ret = n
      BY <1>1, <3>1, Returns
    <3>3. LengthLocal(t, h, n, c)'
      BY <3>1, <3>2 DEF LengthLocal, Whole
    <3> QED BY <1>1, <3>1, <3>3, SameChain
  <2>5. CASE pc[t] \in {"len_next", "len_prev", "len_fwd2", "len_bwd2"} /\ k <= n
    <3>1. /\ pc'[t] \in {"len_prev", "len_fwd1", "len_bwd1", "len_advance"}
          /\ reg'[t] = reg[t] /\ next' = next /\ prev' = prev
      <4>1. \/ Test(t, next[c[k]] # NULL, "len_prev")
            \/ Test(t, prev[c[k]] # NULL, "len_fwd1")
            \/ Test(t, prev[c[k + 1]] = c[k], "len_bwd1")
            \/ Test(t, next[c[k - 1]] = c[k], "len_advance")
        BY <1>1, <1>5, <2>1, <2>2, <2>5 DEF LengthElement
      <4> QED BY <1>2, <2>3, <2>5, <4>1
    <3>2. LengthLocal(t, h, n, c)'
      BY <2>1, <2>5, <3>1 DEF LengthLocal, Whole
    <3> QED BY <1>1, <3>1, <3>2, SameChain
  <2>6. CASE pc[t] = "len_fwd1"
    <3>1. Load(t, "next", next[c[k]], "len_fwd2") /\ k <= n
      BY <1>5, <2>1, <2>6 DEF LengthElement
    <3>2. /\ next' = next /\ prev' = prev /\ pc'[t] = "len_fwd2" /\ reg'[t].next = c[k + 1]
          /\ reg'[t].list = h /\ reg'[t].ret = k - 1 /\ reg'[t].ptr = c[k]
      BY <1>1, <2>1, <2>3, <3>1, LoadNext
    <3>3. LengthLocal(t, h, n, c)'
      BY <3>1, <3>2 DEF LengthLocal, Whole
    <3> QED BY <1>1, <3>2, <3>3, SameChain
  <2>7. CASE pc[t] = "len_bwd1"
    <3>1. Load(t, "prev", prev[c[k]], "len_bwd2") /\ k <= n
      BY <1>5, <2>1, <2>7 DEF LengthElement
    <3>2. /\ next' = next /\ prev' = prev /\ pc'[t] = "len_bwd2" /\ reg'[t].prev = c[k - 1]
          /\ reg'[t].list = h /\ reg'[t].ret = k - 1 /\ reg'[t].ptr = c[k]
      BY <1>1, <2>1, <2>3, <3>1, LoadPrev
    <3>3. LengthLocal(t, h, n, c)'
      BY <3>1, <3>2 DEF LengthLocal, Whole
    <3> QED BY <1>1, <3>2, <3>3, SameChain
  <2>8. CASE pc[t] = "len_advance"
    <3>1. /\ reg' = [reg EXCEPT ![t] = [Idle EXCEPT !.list = reg[t].list,
                                     !.ptr = next[reg[t].ptr], !.ret = reg[t].ret + 1]]
          /\ pc' = [pc EXCEPT ![t] = "len_next"] /\ next' = next /\ prev' = prev
          /\ k <= n
      BY <1>5, <2>1, <2>8 DEF LengthElement
    <3>4. /\ pc'[t] = "len_next" /\ reg'[t].list = reg[t].list
          /\ reg'[t].ptr = next[reg[t].ptr] /\ reg'[t].ret = reg[t].ret + 1
 
      <4>1. Registers
        BY <1>1
      <4> QED BY <4>1, <3>1 DEF Registers, Idle
    <3>2. /\ pc'[t] = "len_next" /\ reg'[t].list = h /\ reg'[t].ptr = c[k + 1]
          /\ reg'[t].ret = (k + 1) - 1 /\ k + 1 \in 1..(n + 1)
      BY <1>1, <2>1, <2>3, <3>1, <3>4
    <3>3. LengthLocal(t, h, n, c)'
      BY <3>1, <3>2 DEF LengthLocal, Whole
    <3> QED BY <1>1, <3>1, <3>3, SameChain
  <2> QED BY <1>1, <2>1, <2>4, <2>5, <2>6, <2>7, <2>8
<1> QED BY <1>1, <1>4, <1>5

(* The chain with x at place k.                                             *)
Inserted(n, c, k, x) ==
  [i \in 0..(n + 2) |-> IF i < k THEN c[i] ELSE IF i = k THEN x ELSE c[i - 1]]

(* The chain without what is at place k.                                    *)
Removed(n, c, k) == [i \in 0..n |-> IF i < k THEN c[i] ELSE c[i + 1]]

(* Linking x in front of the first key that is not greater.                 *)
LEMMA InsertChain ==
  ASSUME NEW h, NEW S, NEW n, NEW c, Setting(h, S), Chain(h, S, n, c),
         NEW x \in S, x \notin On(n, c), NEW k \in 1..(n + 1),
         prev[x] = c[k - 1], key' = key,
         prev'[c[k]] = x, \A m \in Nodes \ {c[k]} : prev'[m] = prev[m],
         \A i \in 1..(k - 1) : strcmp(key[c[i]], key[x]) > 0,
         k <= n => strcmp(key[c[k]], key[x]) <= 0
  PROVE  /\ Chain(h, S, n + 1, Inserted(n, c, k, x))'
         /\ On(n + 1, Inserted(n, c, k, x)) = On(n, c) \cup {x}
<1> DEFINE d == Inserted(n, c, k, x)
<1>1. /\ n \in Nat /\ x \in Nodes /\ DOMAIN prev = Nodes
      /\ \A i \in 1..n : c[i] \in S /\ c[i] # x
      /\ h # x /\ c[0] = h /\ c[n + 1] = h
      /\ \A i \in 0..(n + 1) : c[i] \in Nodes
  BY ChainNodes DEF Chain, Setting, Tied, LinksLead, Nodes, On
<1>2. \A i \in 0..(n + 2) : d[i] = IF i < k THEN c[i] ELSE IF i = k THEN x ELSE c[i - 1]
  BY <1>1 DEF Inserted
<1>3. d \in [0..((n + 1) + 1) -> Nodes]
  BY <1>1 DEF Inserted
<1> HIDE DEF d
<1>4. d[0] = h /\ d[(n + 1) + 1] = h
  BY <1>1, <1>2
<1>5. \A i \in 1..(n + 1) : d[i] \in S
  BY <1>1, <1>2
<1>6. \A i, j \in 1..(n + 1) : d[i] = d[j] => i = j
  <2> SUFFICES ASSUME NEW i \in 1..(n + 1), NEW j \in 1..(n + 1), d[i] = d[j]
               PROVE  i = j
    OBVIOUS
  <2>1. \A p, q \in 1..n : c[p] = c[q] => p = q
    BY DEF Chain
  <2>2. i = k <=> j = k
    BY <1>1, <1>2
  <2> QED BY <1>1, <1>2, <2>1, <2>2
<1>7. \A i \in 0..(n + 1) : prev'[d[i + 1]] = d[i]
  <2> TAKE i \in 0..(n + 1)
  <2>0. \A p, q \in 1..(n + 1) : c[p] = c[q] => p = q
    BY ChainNodes
  <2>1. CASE i + 1 < k
    <3>1. d[i + 1] = c[i + 1] /\ d[i] = c[i] /\ c[i + 1] # c[k] /\ i \in 0..n
      BY <1>1, <1>2, <2>0, <2>1
    <3> QED BY <1>1, <3>1 DEF Chain
  <2>2. CASE i + 1 = k
    <3>1. d[i + 1] = x /\ d[i] = c[k - 1] /\ x # c[k]
      BY <1>1, <1>2, <2>2
    <3> QED BY <1>1, <3>1
  <2>3. CASE i = k
    <3>1. d[i + 1] = c[k] /\ d[i] = x /\ c[k] \in Nodes
      BY <1>1, <1>2, <2>3
    <3> QED BY <1>1, <3>1
  <2>4. CASE i > k
    <3>1. d[i + 1] = c[i] /\ d[i] = c[i - 1] /\ c[i] # c[k] /\ i - 1 \in 0..n
          /\ c[i] \in Nodes
      BY <1>1, <1>2, <2>0, <2>4
    <3>2. prev[c[(i - 1) + 1]] = c[i - 1] /\ (i - 1) + 1 = i
      BY <3>1 DEF Chain
    <3> QED BY <1>1, <3>1, <3>2
  <2> QED BY <1>1, <2>1, <2>2, <2>3, <2>4
<1>8. \A i \in 1..((n + 1) - 1) : strcmp(key[d[i]], key[d[i + 1]]) >= 0
  <2> TAKE i \in 1..((n + 1) - 1)
  <2>0. /\ \A e \in S : key[e] \in Seq(Int)
        /\ \A p \in 1..(n - 1) : strcmp(key[c[p]], key[c[p + 1]]) >= 0
    BY DEF Chain, Setting
  <2>1. CASE i + 1 < k
    <3>1. d[i + 1] = c[i + 1] /\ d[i] = c[i] /\ i \in 1..(n - 1)
      BY <1>1, <1>2, <2>1
    <3> QED BY <2>0, <3>1
  <2>2. CASE i + 1 = k
    <3>1. d[i + 1] = x /\ d[i] = c[i] /\ i \in 1..(k - 1) /\ c[i] \in S
      BY <1>1, <1>2, <2>2
    <3>2. strcmp(key[c[i]], key[x]) > 0 /\ strcmp(key[c[i]], key[x]) \in Int
      BY <2>0, <3>1, StrcmpEqual
    <3> QED BY <3>1, <3>2
  <2>3. CASE i = k
    <3>1. d[i + 1] = c[k] /\ d[i] = x /\ c[k] \in S /\ k <= n
      BY <1>1, <1>2, <2>3
    <3> QED BY <2>0, <3>1, StrcmpOpposite
  <2>4. CASE i > k
    <3>1. d[i + 1] = c[i] /\ d[i] = c[i - 1] /\ i - 1 \in 1..(n - 1) /\ (i - 1) + 1 = i
      BY <1>1, <1>2, <2>4
    <3> QED BY <2>0, <3>1
  <2> QED BY <1>1, <2>1, <2>2, <2>3, <2>4
<1>9. On(n + 1, d) = On(n, c) \cup {x}
  <2>1. d[k] = x /\ k \in 1..(n + 1)
    BY <1>1, <1>2
  <2>2. \A i \in 1..n : \E j \in 1..(n + 1) : c[i] = d[j]
    <3> TAKE i \in 1..n
    <3>1. CASE i < k
      BY <1>1, <1>2, <3>1
    <3>2. CASE i >= k
      <4>1. d[i + 1] = c[i] /\ i + 1 \in 1..(n + 1)
        BY <1>1, <1>2, <3>2
      <4> QED BY <4>1
    <3> QED BY <1>1, <3>1, <3>2
  <2>3. \A j \in 1..(n + 1) : d[j] = x \/ \E i \in 1..n : d[j] = c[i]
    <3> TAKE j \in 1..(n + 1)
    <3>1. CASE j < k
      BY <1>1, <1>2, <3>1
    <3>2. CASE j > k
      <4>1. d[j] = c[j - 1] /\ j - 1 \in 1..n
        BY <1>1, <1>2, <3>2
      <4> QED BY <4>1
    <3> QED BY <1>1, <2>1, <3>1, <3>2
  <2> QED BY <2>1, <2>2, <2>3 DEF On
<1>10. Chain(h, S, n + 1, d)'
  <2>1. /\ n + 1 \in Nat /\ d \in [0..((n + 1) + 1) -> Nodes]
        /\ d[0] = h /\ d[(n + 1) + 1] = h
        /\ \A i \in 1..(n + 1) : d[i] \in S
        /\ \A i, j \in 1..(n + 1) : d[i] = d[j] => i = j
        /\ \A i \in 0..(n + 1) : prev'[d[i + 1]] = d[i]
        /\ \A i \in 1..((n + 1) - 1) : strcmp(key[d[i]], key[d[i + 1]]) >= 0
    BY <1>1, <1>3, <1>4, <1>5, <1>6, <1>7, <1>8
  <2> QED BY <2>1 DEF Chain
<1> QED BY <1>9, <1>10 DEF d

(* Then the next links agree again.                                         *)
LEMMA InsertWhole ==
  ASSUME NEW h, NEW S, NEW n, NEW c, Setting(h, S), Chain(h, S, n, c),
         NEW x \in S, x \notin On(n, c), NEW k \in 1..(n + 1),
         Detour(n, c, k - 1, x), next[x] = c[k], next' = next
  PROVE  Whole(n + 1, Inserted(n, c, k, x))'
<1> DEFINE d == Inserted(n, c, k, x)
<1>1. n \in Nat
  BY DEF Chain
<1>2. \A i \in 0..(n + 2) : d[i] = IF i < k THEN c[i] ELSE IF i = k THEN x ELSE c[i - 1]
  BY <1>1 DEF Inserted
<1> HIDE DEF d
<1>3. ASSUME NEW i \in 0..(n + 1)
      PROVE  next[d[i]] = d[i + 1]
  <2>1. CASE i < k
    <3>1. d[i] = c[i] /\ d[i + 1] = (IF i = k - 1 THEN x ELSE c[i + 1]) /\ i \in 0..n
      BY <1>1, <1>2, <2>1
    <3> QED BY <3>1 DEF Detour
  <2>2. CASE i = k
    <3>1. d[i] = x /\ d[i + 1] = c[k]
      BY <1>1, <1>2, <2>2
    <3> QED BY <3>1
  <2>3. CASE i > k
    <3>1. d[i] = c[i - 1] /\ d[i + 1] = c[i] /\ i - 1 \in 0..n /\ i - 1 # k - 1
          /\ (i - 1) + 1 = i
      BY <1>1, <1>2, <2>3
    <3> QED BY <3>1 DEF Detour
  <2> QED BY <1>1, <2>1, <2>2, <2>3
<1>4. \A i \in 0..(n + 1) : next'[d[i]] = d[i + 1]
  BY <1>3
<1> QED BY <1>4 DEF Whole, d

LEMMA InsertStep ==
  ASSUME NEW h, NEW S, NEW n, NEW c, Setting(h, S), Chain(h, S, n, c),
         NEW t \in Procs, NEW x, InsertLocal(t, h, S, x, n, c), pc[t] # "ret",
         ListStep(t)
  PROVE  /\ Apart(h, S) /\ key' = key
         /\ \E m, d : /\ Chain(h, S, m, d)' /\ InsertLocal(t, h, S, x, m, d)'
                      /\ On(m, d) = IF pc'[t] = "ret" THEN On(n, c) \cup {x} ELSE On(n, c)
<1>1. /\ InsertFirst(t) \/ InsertScan(t) \/ InsertLink(t)
      /\ key' = key /\ Registers /\ n \in Nat /\ h \notin S /\ h \in Nodes
      /\ \A i \in 0..(n + 1) : c[i] \in {h} \cup S /\ c[i] \in Nodes /\ c[i] # NULL
      /\ c[0] = h /\ c[n + 1] = h
      /\ x \in S /\ x \notin On(n, c) /\ x \in Nodes /\ x # h
      /\ reg[t].list = h /\ reg[t].element = x /\ LinksLead
      /\ DOMAIN next = Nodes /\ DOMAIN prev = Nodes
  <2>1. pc[t] \in InsertLabels
    BY DEF InsertLocal, InsertLabels
  <2>2. /\ InsertFirst(t) \/ InsertScan(t) \/ InsertLink(t)
        /\ key' = key /\ Registers
    BY <2>1, StaysInFunction DEF Setting, Tied, InsertLabels, LookupLabels, DeleteLabels,
           LengthLabels, ListStep
  <2>3. x \in S /\ x \notin On(n, c) /\ reg[t].list = h /\ reg[t].element = x
    BY DEF InsertLocal
  <2>4. LinksLead /\ DOMAIN next = Nodes /\ DOMAIN prev = Nodes /\ S \subseteq Nodes
    BY DEF Setting, Tied, LinksLead, Nodes
  <2>5. n \in Nat /\ c[0] = h /\ c[n + 1] = h
    BY DEF Chain
  <2> QED BY <2>2, <2>3, <2>4, <2>5, ChainNodes
<1>x. \A i \in 0..(n + 1) : c[i] # x
  <2>1. \A i \in 0..(n + 1) : i = 0 \/ i = n + 1 \/ i \in 1..n
    BY <1>1
  <2> QED BY <1>1, <2>1 DEF On
<1>a. ASSUME next' = next, prev' = prev
      PROVE  Apart(h, S)
  BY <1>a DEF Apart
<1>2. CASE InsertFirst(t)
  <2>1. pc[t] = "ins_first" /\ Load(t, "ptr", next[h], "ins_scan") /\ Whole(n, c)
    BY <1>1, <1>2 DEF InsertFirst, InsertLocal
  <2>2. /\ next' = next /\ prev' = prev /\ pc'[t] = "ins_scan" /\ reg'[t].ptr = next[h]
        /\ reg'[t].list = h /\ reg'[t].element = x
    BY <1>1, <2>1, LoadPtr
  <2>3. next[h] = c[1] /\ 1 \in 1..(n + 1) /\ 1..(1 - 1) = {}
    BY <1>1, <2>1 DEF Whole
  <2>4. InsertLocal(t, h, S, x, n, c)'
    BY <1>1, <2>1, <2>2, <2>3 DEF InsertLocal, Whole, On
  <2> QED BY <1>1, <1>a, <2>2, <2>4, SameChain
<1>3. CASE InsertScan(t)
  <2>1. pc[t] = "ins_scan"
    BY <1>3 DEF InsertScan
  <2>2. PICK k \in 1..(n + 1) : /\ Whole(n, c) /\ reg[t].ptr = c[k]
                                /\ \A i \in 1..(k - 1) : strcmp(key[c[i]], key[x]) > 0
    BY <2>1 DEF InsertLocal
  <2>3. c[k] = h <=> k = n + 1
    BY ChainNodes
  <2>4. CASE k <= n /\ strcmp(key[c[k]], key[x]) > 0
    <3>1. Load(t, "ptr", next[c[k]], "ins_scan")
      BY <1>1, <1>3, <2>1, <2>2, <2>3, <2>4 DEF InsertScan
    <3>2. /\ next' = next /\ prev' = prev /\ pc'[t] = "ins_scan"
          /\ reg'[t].ptr = next[c[k]] /\ reg'[t].list = h /\ reg'[t].element = x
      BY <1>1, <3>1, LoadPtr
    <3>3. next[c[k]] = c[k + 1] /\ k + 1 \in 1..(n + 1)
      BY <1>1, <2>2, <2>4 DEF Whole
    <3>4. \A i \in 1..((k + 1) - 1) : strcmp(key[c[i]], key[x]) > 0
      BY <1>1, <2>2, <2>4
    <3>5. InsertLocal(t, h, S, x, n, c)'
      BY <1>1, <2>2, <3>2, <3>3, <3>4 DEF InsertLocal, Whole, On
    <3> QED BY <1>1, <1>a, <3>2, <3>5, SameChain
  <2>5. CASE ~(k <= n /\ strcmp(key[c[k]], key[x]) > 0)
    <3>1. Load(t, "prev", prev[c[k]], "ins_link1")
      BY <1>1, <1>3, <2>1, <2>2, <2>3, <2>5 DEF InsertScan
    <3>2. /\ next' = next /\ prev' = prev /\ pc'[t] = "ins_link1"
          /\ reg'[t].prev = prev[c[k]] /\ reg'[t].ptr = c[k]
          /\ reg'[t].list = h /\ reg'[t].element = x
      BY <1>1, <2>2, <3>1, LoadPrev
    <3>3. prev[c[(k - 1) + 1]] = c[k - 1] /\ (k - 1) + 1 = k
      <4>1. k - 1 \in 0..n /\ (k - 1) + 1 = k
        BY <1>1
      <4> QED BY <4>1 DEF Chain
    <3>4. k <= n => strcmp(key[c[k]], key[x]) <= 0
      <4> SUFFICES ASSUME k <= n
                   PROVE  strcmp(key[c[k]], key[x]) <= 0
        OBVIOUS
      <4>1. c[k] \in S /\ x \in S /\ S \subseteq Elems /\ \A e \in Elems : key[e] \in Seq(Int)
        BY DEF Chain, Setting, InsertLocal
      <4>2. strcmp(key[c[k]], key[x]) \in Int
        BY <1>1, <4>1, StrcmpEqual
      <4> QED BY <2>5, <4>2
    <3>5. InsertLocal(t, h, S, x, n, c)'
      BY <1>1, <2>2, <3>2, <3>3, <3>4 DEF InsertLocal, Whole, On
    <3> QED BY <1>1, <1>a, <3>2, <3>5, SameChain
  <2> QED BY <2>4, <2>5
<1>4. CASE InsertLink(t)
  <2>1. PICK k \in 1..(n + 1) :
          /\ reg[t].ptr = c[k] /\ reg[t].prev = c[k - 1]
          /\ \A i \in 1..(k - 1) : strcmp(key[c[i]], key[x]) > 0
          /\ k <= n => strcmp(key[c[k]], key[x]) <= 0
          /\ \/ pc[t] = "ins_link1" /\ Whole(n, c)
             \/ pc[t] = "ins_link2" /\ Detour(n, c, k - 1, x)
             \/ pc[t] = "ins_link3" /\ Detour(n, c, k - 1, x) /\ prev[x] = reg[t].prev
             \/ /\ pc[t] = "ins_link4" /\ Detour(n, c, k - 1, x)
                /\ prev[x] = reg[t].prev /\ next[x] = reg[t].ptr
    BY <1>4 DEF InsertLink, InsertLocal
  <2>2. k - 1 \in 0..n /\ c[k - 1] \in Nodes /\ c[k] \in Nodes
        /\ c[k - 1] \in {h} \cup S /\ c[k] \in {h} \cup S
        /\ \A i \in 0..n : i \in 0..(n + 1) /\ (c[i] = c[k - 1] <=> i = k - 1)
    BY <1>1, ChainNodes
  <2>3. CASE pc[t] = "ins_link1"
    <3>1. /\ next' = [next EXCEPT ![c[k - 1]] = x] /\ prev' = prev /\ reg' = reg
          /\ pc' = [pc EXCEPT ![t] = "ins_link2"] /\ Whole(n, c)
      BY <1>1, <1>4, <2>1, <2>3 DEF InsertLink
    <3>2. pc'[t] = "ins_link2"
      BY <1>1, <3>1, GoesOn
    <3>3. \A i \in 0..n : next'[c[i]] = IF i = k - 1 THEN x ELSE c[i + 1]
      BY <1>1, <2>2, <3>1 DEF Whole
    <3>4. Detour(n, c, k - 1, x)'
      BY <3>3 DEF Detour
    <3>5. InsertLocal(t, h, S, x, n, c)'
      BY <1>1, <2>1, <3>1, <3>2, <3>4 DEF InsertLocal, On
    <3>6. Apart(h, S)
      BY <1>1, <2>2, <3>1 DEF Apart
    <3> QED BY <1>1, <3>1, <3>2, <3>5, <3>6, SameChain
  <2>4. CASE pc[t] = "ins_link2"
    <3>1. /\ prev' = [prev EXCEPT ![x] = c[k - 1]] /\ next' = next /\ reg' = reg
          /\ pc' = [pc EXCEPT ![t] = "ins_link3"] /\ Detour(n, c, k - 1, x)
      BY <1>1, <1>4, <2>1, <2>4 DEF InsertLink
    <3>2. pc'[t] = "ins_link3" /\ prev'[x] = c[k - 1]
      BY <1>1, <3>1, GoesOn
    <3>3. \A i \in 0..n : prev'[c[i + 1]] = c[i]
      <4> TAKE i \in 0..n
      <4>1. c[i + 1] # x /\ c[i + 1] \in Nodes /\ prev[c[i + 1]] = c[i]
        BY <1>1, <1>x DEF Chain
      <4> QED BY <1>1, <3>1, <4>1
    <3>4. Detour(n, c, k - 1, x)'
      BY <3>1 DEF Detour
    <3>5. InsertLocal(t, h, S, x, n, c)'
      BY <1>1, <2>1, <3>1, <3>2, <3>4 DEF InsertLocal, On
    <3>6. Apart(h, S)
      BY <1>1, <2>2, <3>1 DEF Apart
    <3>7. Chain(h, S, n, c)'
      BY <1>1, <3>3 DEF Chain, Nodes
    <3> QED BY <1>1, <3>2, <3>5, <3>6, <3>7
  <2>5. CASE pc[t] = "ins_link3"
    <3>1. /\ next' = [next EXCEPT ![x] = c[k]] /\ prev' = prev /\ reg' = reg
          /\ pc' = [pc EXCEPT ![t] = "ins_link4"] /\ Detour(n, c, k - 1, x)
          /\ prev[x] = c[k - 1]
      BY <1>1, <1>4, <2>1, <2>5 DEF InsertLink
    <3>2. pc'[t] = "ins_link4" /\ next'[x] = c[k]
      BY <1>1, <3>1, GoesOn
    <3>3. \A i \in 0..n : next'[c[i]] = IF i = k - 1 THEN x ELSE c[i + 1]
      BY <1>1, <1>x, <2>2, <3>1 DEF Detour
    <3>4. Detour(n, c, k - 1, x)'
      BY <3>3 DEF Detour
    <3>5. InsertLocal(t, h, S, x, n, c)'
      BY <1>1, <2>1, <3>1, <3>2, <3>4 DEF InsertLocal, On
    <3>6. Apart(h, S)
      BY <1>1, <2>2, <3>1 DEF Apart
    <3> QED BY <1>1, <3>1, <3>2, <3>5, <3>6, SameChain
  <2>6. CASE pc[t] = "ins_link4"
    <3>1. /\ prev' = [prev EXCEPT ![c[k]] = x] /\ next' = next /\ Return(t, NULL, 0)
          /\ Detour(n, c, k - 1, x) /\ prev[x] = c[k - 1] /\ next[x] = c[k]
      BY <1>1, <1>4, <2>1, <2>6 DEF InsertLink
    <3>2. pc'[t] = "ret"
      BY <1>1, <3>1, Returns
    <3>3. Chain(h, S, n + 1, Inserted(n, c, k, x))'
          /\ On(n + 1, Inserted(n, c, k, x)) = On(n, c) \cup {x}
      <4>1. /\ x \in S /\ x \notin On(n, c) /\ prev[x] = c[k - 1] /\ key' = key
            /\ prev'[c[k]] = x /\ \A m \in Nodes \ {c[k]} : prev'[m] = prev[m]
            /\ \A i \in 1..(k - 1) : strcmp(key[c[i]], key[x]) > 0
            /\ k <= n => strcmp(key[c[k]], key[x]) <= 0
        BY <1>1, <2>1, <2>2, <3>1
      <4> QED BY <4>1, InsertChain
    <3>4. Whole(n + 1, Inserted(n, c, k, x))'
      BY <1>1, <3>1, InsertWhole
    <3>5. InsertLocal(t, h, S, x, n + 1, Inserted(n, c, k, x))'
      BY <3>2, <3>4 DEF InsertLocal
    <3>6. Apart(h, S)
      BY <1>1, <2>2, <3>1 DEF Apart
    <3> QED BY <1>1, <3>2, <3>3, <3>5, <3>6
  <2> QED BY <2>1, <2>3, <2>4, <2>5, <2>6
<1> QED BY <1>1, <1>2, <1>3, <1>4

(* Unlinking what is at place k.                                            *)
LEMMA DeleteChain ==
  ASSUME NEW h, NEW S, NEW n, NEW c, Setting(h, S), Chain(h, S, n, c),
         NEW k \in 1..n, key' = key, Detour(n, c, k - 1, c[k + 1]), next' = next,
         prev'[c[k + 1]] = c[k - 1], \A m \in Nodes \ {c[k + 1]} : prev'[m] = prev[m]
  PROVE  /\ Chain(h, S, n - 1, Removed(n, c, k))'
         /\ Whole(n - 1, Removed(n, c, k))'
         /\ On(n - 1, Removed(n, c, k)) = On(n, c) \ {c[k]}
<1> DEFINE d == Removed(n, c, k)
<1>1. /\ n \in Nat /\ n - 1 \in Nat /\ (n - 1) + 1 = n
      /\ \A i \in 1..n : c[i] \in S
      /\ c[0] = h /\ c[n + 1] = h
      /\ \A i \in 0..(n + 1) : c[i] \in Nodes
      /\ \A i, j \in 1..(n + 1) : c[i] = c[j] => i = j
  <2>1. n \in Nat
    BY DEF Chain
  <2>2. n - 1 \in Nat /\ (n - 1) + 1 = n
    BY <2>1
  <2> QED BY <2>1, <2>2, ChainNodes DEF Chain
<1>j. \A i, j \in 1..(n + 1) : c[i] = c[j] => i = j
  BY <1>1
<1>2. \A i \in 0..n : d[i] = IF i < k THEN c[i] ELSE c[i + 1]
  BY <1>1 DEF Removed
<1>3. d \in [0..n -> Nodes]
  BY <1>1 DEF Removed
<1> HIDE DEF d
<1>4. d[0] = h /\ d[n] = h
  BY <1>1, <1>2
<1>5. \A i \in 1..(n - 1) : d[i] \in S
  BY <1>1, <1>2
<1>6. \A i, j \in 1..(n - 1) : d[i] = d[j] => i = j
  <2> SUFFICES ASSUME NEW i \in 1..(n - 1), NEW j \in 1..(n - 1), d[i] = d[j]
               PROVE  i = j
    OBVIOUS
  <2>1. d[i] = (IF i < k THEN c[i] ELSE c[i + 1]) /\ d[j] = (IF j < k THEN c[j] ELSE c[j + 1])
    BY <1>1, <1>2
  <2>2. i \in 1..(n + 1) /\ j \in 1..(n + 1) /\ i + 1 \in 1..(n + 1) /\ j + 1 \in 1..(n + 1)
    BY <1>1
  <2>3. CASE i < k /\ j < k
    BY <1>1, <2>1, <2>2, <2>3
  <2>4. CASE i >= k /\ j >= k
    <3>1. c[i + 1] = c[j + 1]
      <4>1. ~(i < k) /\ ~(j < k)
        BY <1>1, <2>2, <2>4
      <4> QED BY <2>1, <4>1
    <3>2. i + 1 = j + 1
      BY <1>j, <2>2, <3>1
    <3> QED BY <2>2, <3>2
  <2>5. CASE i < k /\ j >= k
    <3>1. c[i] = c[j + 1]
      <4>1. i < k /\ ~(j < k)
        BY <1>1, <2>2, <2>5
      <4> QED BY <2>1, <4>1
    <3>2. i = j + 1
      BY <1>j, <2>2, <3>1
    <3> QED BY <1>1, <2>5, <3>2
  <2>6. CASE i >= k /\ j < k
    <3>1. c[i + 1] = c[j]
      <4>1. ~(i < k) /\ j < k
        BY <1>1, <2>2, <2>6
      <4> QED BY <2>1, <4>1
    <3>2. i + 1 = j
      BY <1>j, <2>2, <3>1
    <3> QED BY <1>1, <2>6, <3>2
  <2> QED BY <1>1, <2>3, <2>4, <2>5, <2>6
<1>7. \A i \in 0..(n - 1) : prev'[d[i + 1]] = d[i]
  <2> TAKE i \in 0..(n - 1)
  <2>1. CASE i + 1 < k
    <3>0. i + 1 \in 1..(n + 1) /\ k + 1 \in 1..(n + 1) /\ i + 1 # k + 1
          /\ i + 1 \in 0..n /\ i \in 0..n /\ i < k /\ i + 1 \in 0..(n + 1)
      BY <1>1, <2>1
    <3>1. d[i + 1] = c[i + 1] /\ d[i] = c[i] /\ c[i + 1] # c[k + 1] /\ i \in 0..n
          /\ c[i + 1] \in Nodes
      <4>1. c[i + 1] # c[k + 1]
        BY <1>j, <3>0
      <4> QED BY <1>1, <1>2, <2>1, <3>0, <4>1
    <3>2. prev[c[i + 1]] = c[i]
      BY <3>1 DEF Chain
    <3> QED BY <3>1, <3>2
  <2>2. CASE i + 1 = k
    <3>1. d[i + 1] = c[k + 1] /\ d[i] = c[k - 1]
      BY <1>1, <1>2, <2>2
    <3> QED BY <1>1, <3>1
  <2>3. CASE i >= k
    <3>1. d[i + 1] = c[(i + 1) + 1] /\ d[i] = c[i + 1] /\ i + 1 \in 0..n
          /\ c[(i + 1) + 1] # c[k + 1] /\ c[(i + 1) + 1] \in Nodes
      BY <1>1, <1>2, <2>3
    <3> QED BY <1>1, <3>1 DEF Chain
  <2> QED BY <1>1, <2>1, <2>2, <2>3
<1>8. \A i \in 1..((n - 1) - 1) : strcmp(key[d[i]], key[d[i + 1]]) >= 0
  <2> TAKE i \in 1..((n - 1) - 1)
  <2>0. /\ \A e \in S : key[e] \in Seq(Int)
        /\ \A p \in 1..(n - 1) : strcmp(key[c[p]], key[c[p + 1]]) >= 0
    BY DEF Chain, Setting
  <2>1. CASE i + 1 < k
    <3>1. d[i + 1] = c[i + 1] /\ d[i] = c[i] /\ i \in 1..(n - 1)
      BY <1>1, <1>2, <2>1
    <3> QED BY <2>0, <3>1
  <2>2. CASE i + 1 = k
    <3>1. d[i + 1] = c[(i + 1) + 1] /\ d[i] = c[i] /\ i \in 1..(n - 1) /\ i + 1 \in 1..(n - 1)
          /\ c[i] \in S /\ c[i + 1] \in S /\ c[(i + 1) + 1] \in S
      BY <1>1, <1>2, <2>2
    <3>2. strcmp(key[c[i]], key[c[i + 1]]) >= 0
          /\ strcmp(key[c[i + 1]], key[c[(i + 1) + 1]]) >= 0
      BY <2>0, <3>1
    <3> QED BY <2>0, <3>1, <3>2, StrcmpTransitive
  <2>3. CASE i >= k
    <3>1. d[i + 1] = c[(i + 1) + 1] /\ d[i] = c[i + 1] /\ i + 1 \in 1..(n - 1)
      BY <1>1, <1>2, <2>3
    <3> QED BY <2>0, <3>1
  <2> QED BY <1>1, <2>1, <2>2, <2>3
<1>9. On(n - 1, d) = On(n, c) \ {c[k]}
  <2>2. \A i \in 1..n : i # k => \E j \in 1..(n - 1) : c[i] = d[j]
    <3> TAKE i \in 1..n
    <3>1. CASE i < k
      <4>1. d[i] = c[i] /\ i \in 1..(n - 1)
        BY <1>1, <1>2, <3>1
      <4> QED BY <4>1
    <3>2. CASE i > k
      <4>1. d[i - 1] = c[i] /\ i - 1 \in 1..(n - 1)
        BY <1>1, <1>2, <3>2
      <4> QED BY <4>1
    <3> QED BY <1>1, <3>1, <3>2
  <2>3. \A j \in 1..(n - 1) : \E i \in 1..n : d[j] = c[i] /\ i # k
    <3> TAKE j \in 1..(n - 1)
    <3>1. CASE j < k
      <4>1. d[j] = c[j] /\ j \in 1..n /\ j # k
        BY <1>1, <1>2, <3>1
      <4> QED BY <4>1
    <3>2. CASE j >= k
      <4>1. d[j] = c[j + 1] /\ j + 1 \in 1..n /\ j + 1 # k
        BY <1>1, <1>2, <3>2
      <4> QED BY <4>1
    <3> QED BY <1>1, <3>1, <3>2
  <2>4. \A i \in 1..n : c[i] = c[k] <=> i = k
    BY <1>1
  <2> QED BY <2>2, <2>3, <2>4 DEF On
<1>10. Chain(h, S, n - 1, d)'
  <2>1. /\ n - 1 \in Nat /\ d \in [0..((n - 1) + 1) -> Nodes]
        /\ d[0] = h /\ d[(n - 1) + 1] = h
        /\ \A i \in 1..(n - 1) : d[i] \in S
        /\ \A i, j \in 1..(n - 1) : d[i] = d[j] => i = j
        /\ \A i \in 0..(n - 1) : prev'[d[i + 1]] = d[i]
        /\ \A i \in 1..((n - 1) - 1) : strcmp(key[d[i]], key[d[i + 1]]) >= 0
    BY <1>1, <1>3, <1>4, <1>5, <1>6, <1>7, <1>8
  <2> QED BY <2>1 DEF Chain
<1>11. \A i \in 0..(n - 1) : next'[d[i]] = d[i + 1]
  <2> TAKE i \in 0..(n - 1)
  <2>1. CASE i + 1 < k
    <3>1. d[i + 1] = c[i + 1] /\ d[i] = c[i] /\ i \in 0..n /\ i # k - 1
      BY <1>1, <1>2, <2>1
    <3> QED BY <3>1 DEF Detour
  <2>2. CASE i + 1 = k
    <3>1. d[i + 1] = c[k + 1] /\ d[i] = c[i] /\ i \in 0..n /\ i = k - 1
      BY <1>1, <1>2, <2>2
    <3> QED BY <3>1 DEF Detour
  <2>3. CASE i >= k
    <3>1. d[i + 1] = c[(i + 1) + 1] /\ d[i] = c[i + 1] /\ i + 1 \in 0..n /\ i + 1 # k - 1
      BY <1>1, <1>2, <2>3
    <3> QED BY <3>1 DEF Detour
  <2> QED BY <1>1, <2>1, <2>2, <2>3
<1>12. Whole(n - 1, d)'
  BY <1>11 DEF Whole
<1> QED BY <1>9, <1>10, <1>12 DEF d

LEMMA DeleteStep ==
  ASSUME NEW h, NEW S, NEW n, NEW c, Setting(h, S), Chain(h, S, n, c),
         NEW t \in Procs, NEW x, DeleteLocal(t, x, n, c), pc[t] # "ret", ListStep(t)
  PROVE  /\ Apart(h, S) /\ key' = key
         /\ \E m, d : /\ Chain(h, S, m, d)' /\ DeleteLocal(t, x, m, d)'
                      /\ On(m, d) = IF pc'[t] = "ret" THEN On(n, c) \ {x} ELSE On(n, c)
<1>1. /\ DeleteLoad(t) \/ DeleteCheck(t) \/ DeleteLink(t)
      /\ key' = key /\ Registers /\ n \in Nat
      /\ \A i \in 0..(n + 1) : c[i] \in {h} \cup S /\ c[i] \in Nodes /\ c[i] # NULL
      /\ DOMAIN next = Nodes /\ DOMAIN prev = Nodes
  <2>1. pc[t] \in DeleteLabels
    BY DEF DeleteLocal, DeleteLabels
  <2>2. /\ DeleteLoad(t) \/ DeleteCheck(t) \/ DeleteLink(t)
        /\ key' = key /\ Registers
    BY <2>1, StaysInFunction DEF Setting, Tied, InsertLabels, LookupLabels, DeleteLabels,
           LengthLabels, ListStep
  <2>3. DOMAIN next = Nodes /\ DOMAIN prev = Nodes
    BY DEF Setting, Tied, LinksLead
  <2>4. n \in Nat
    BY DEF Chain
  <2> QED BY <2>2, <2>3, <2>4, ChainNodes
<1>2. PICK k \in 1..n :
        /\ c[k] = x /\ reg[t].element = x
        /\ \/ pc[t] = "del_prev" /\ Whole(n, c)
           \/ pc[t] = "del_next" /\ Whole(n, c) /\ reg[t].prev = c[k - 1]
           \/ /\ pc[t] \in {"del_check1", "del_check2", "del_link1"} /\ Whole(n, c)
              /\ reg[t].prev = c[k - 1] /\ reg[t].next = c[k + 1]
           \/ /\ pc[t] = "del_link2" /\ Detour(n, c, k - 1, c[k + 1])
              /\ reg[t].prev = c[k - 1] /\ reg[t].next = c[k + 1]
  BY DEF DeleteLocal
<1>3. /\ k \in 0..n /\ k - 1 \in 0..n /\ (k - 1) + 1 = k /\ k - 1 \in 0..(n + 1)
      /\ k + 1 \in 0..(n + 1)
      /\ prev[c[k]] = c[k - 1] /\ prev[c[k + 1]] = c[k]
      /\ c[k - 1] \in Nodes /\ c[k + 1] \in Nodes
      /\ c[k - 1] \in {h} \cup S /\ c[k + 1] \in {h} \cup S
      /\ Whole(n, c) => next[c[k]] = c[k + 1] /\ next[c[k - 1]] = c[k]
      /\ \A i \in 0..n : c[i] = c[k - 1] <=> i = k - 1
  <2>1. /\ k \in 0..n /\ k - 1 \in 0..n /\ (k - 1) + 1 = k /\ k - 1 \in 0..(n + 1)
        /\ k + 1 \in 0..(n + 1)
    BY <1>1
  <2>2. prev[c[(k - 1) + 1]] = c[k - 1] /\ prev[c[k + 1]] = c[k]
    BY <2>1 DEF Chain
  <2>3. Whole(n, c) => next[c[k]] = c[k + 1] /\ next[c[k - 1]] = c[(k - 1) + 1]
    BY <2>1 DEF Whole
  <2>4. \A i \in 0..n : c[i] = c[k - 1] <=> i = k - 1
    BY <2>1, ChainNodes
  <2> QED BY <1>1, <2>1, <2>2, <2>3, <2>4
<1>a. ASSUME next' = next, prev' = prev
      PROVE  Apart(h, S)
  BY <1>a DEF Apart
<1>4. CASE DeleteLoad(t)
  <2>1. CASE pc[t] = "del_prev"
    <3>1. Load(t, "prev", prev[c[k]], "del_next") /\ Whole(n, c)
      BY <1>2, <1>4, <2>1 DEF DeleteLoad
    <3>2. /\ next' = next /\ prev' = prev /\ pc'[t] = "del_next" /\ reg'[t].prev = c[k - 1]
          /\ reg'[t].element = x
      BY <1>1, <1>2, <1>3, <3>1, LoadPrev
    <3>3. DeleteLocal(t, x, n, c)'
      BY <1>2, <3>1, <3>2 DEF DeleteLocal, Whole
    <3> QED BY <1>1, <1>a, <3>2, <3>3, SameChain
  <2>2. CASE pc[t] = "del_next"
    <3>1. Load(t, "next", next[c[k]], "del_check1") /\ Whole(n, c) /\ reg[t].prev = c[k - 1]
      BY <1>2, <1>4, <2>2 DEF DeleteLoad
    <3>2. /\ next' = next /\ prev' = prev /\ pc'[t] = "del_check1" /\ reg'[t].next = c[k + 1]
          /\ reg'[t].element = x /\ reg'[t].prev = c[k - 1]
      BY <1>1, <1>2, <1>3, <3>1, LoadNext
    <3>3. DeleteLocal(t, x, n, c)'
      BY <1>2, <3>1, <3>2 DEF DeleteLocal, Whole
    <3> QED BY <1>1, <1>a, <3>2, <3>3, SameChain
  <2> QED BY <1>4, <2>1, <2>2 DEF DeleteLoad
<1>5. CASE DeleteCheck(t)
  <2>1. /\ pc[t] \in {"del_check1", "del_check2"} /\ next' = next /\ prev' = prev
        /\ Whole(n, c) /\ reg[t].prev = c[k - 1] /\ reg[t].next = c[k + 1]
    BY <1>2, <1>5 DEF DeleteCheck
  <2>2. \E label \in {"del_check2", "del_link1"} :
           pc' = [pc EXCEPT ![t] = label] /\ reg' = reg
    BY <1>2, <1>3, <1>5, <2>1 DEF DeleteCheck
  <2>3. pc'[t] \in {"del_check2", "del_link1"} /\ reg' = reg
    BY <1>1, <2>2, GoesOn
  <2>4. DeleteLocal(t, x, n, c)'
    BY <1>2, <2>1, <2>3 DEF DeleteLocal, Whole
  <2> QED BY <1>1, <1>a, <2>1, <2>3, <2>4, SameChain
<1>6. CASE DeleteLink(t)
  <2>1. CASE pc[t] = "del_link1"
    <3>1. /\ next' = [next EXCEPT ![c[k - 1]] = c[k + 1]] /\ prev' = prev /\ reg' = reg
          /\ pc' = [pc EXCEPT ![t] = "del_link2"] /\ Whole(n, c)
          /\ reg[t].prev = c[k - 1] /\ reg[t].next = c[k + 1]
      BY <1>2, <1>6, <2>1 DEF DeleteLink
    <3>2. pc'[t] = "del_link2"
      BY <1>1, <3>1, GoesOn
    <3>3. \A i \in 0..n : next'[c[i]] = IF i = k - 1 THEN c[k + 1] ELSE c[i + 1]
      BY <1>1, <1>3, <3>1 DEF Whole
    <3>4. Detour(n, c, k - 1, c[k + 1])'
      BY <3>3 DEF Detour
    <3>5. DeleteLocal(t, x, n, c)'
      BY <1>2, <3>1, <3>2, <3>4 DEF DeleteLocal
    <3>6. Apart(h, S)
      BY <1>1, <1>3, <3>1 DEF Apart
    <3> QED BY <1>1, <3>1, <3>2, <3>5, <3>6, SameChain
  <2>2. CASE pc[t] = "del_link2"
    <3>1. /\ prev' = [prev EXCEPT ![c[k + 1]] = c[k - 1]] /\ next' = next
          /\ Return(t, NULL, 0) /\ Detour(n, c, k - 1, c[k + 1])
      BY <1>2, <1>6, <2>2 DEF DeleteLink
    <3>2. pc'[t] = "ret" /\ reg'[t].ret = 0
      BY <1>1, <3>1, Returns
    <3>3. prev'[c[k + 1]] = c[k - 1] /\ \A m \in Nodes \ {c[k + 1]} : prev'[m] = prev[m]
      BY <1>1, <1>3, <3>1
    <3>4. /\ Chain(h, S, n - 1, Removed(n, c, k))'
          /\ Whole(n - 1, Removed(n, c, k))'
          /\ On(n - 1, Removed(n, c, k)) = On(n, c) \ {x}
      BY <1>1, <1>2, <3>1, <3>3, DeleteChain
    <3>5. DeleteLocal(t, x, n - 1, Removed(n, c, k))'
      BY <3>2, <3>4 DEF DeleteLocal
    <3>6. Apart(h, S)
      BY <1>1, <1>3, <3>1 DEF Apart
    <3> QED BY <1>1, <3>2, <3>4, <3>5, <3>6
  <2> QED BY <1>6, <2>1, <2>2 DEF DeleteLink
<1> QED BY <1>1, <1>4, <1>5, <1>6

(* A call that finds the list whole starts from its beginning.              *)
LEMMA CallsFindWhole ==
  ASSUME NEW h, NEW S, NEW n, NEW c, Setting(h, S), Chain(h, S, n, c), Whole(n, c),
         NEW t \in Procs, NEW x, NEW K, next' = next, prev' = prev, key' = key
  PROVE  /\ Chain(h, S, n, c)' /\ Whole(n, c)'
         /\ CallInsert(t, h, x) /\ x \in S \ On(n, c) => InsertLocal(t, h, S, x, n, c)'
         /\ CallLookup(t, h, K) => LookupLocal(t, h, K, n, c)'
         /\ CallDelete(t, x) /\ x \in On(n, c) => DeleteLocal(t, x, n, c)'
         /\ CallLength(t, h) => LengthLocal(t, h, n, c)'
<1>1. Registers
  BY DEF Setting, Tied
<1>2. Chain(h, S, n, c)' /\ Whole(n, c)'
  BY SameChain DEF Whole
<1>3. CallInsert(t, h, x) => pc'[t] = "ins_first" /\ reg'[t].list = h /\ reg'[t].element = x
  BY <1>1, Calls
<1>4. CallLookup(t, h, K) => pc'[t] = "look_first" /\ reg'[t].list = h /\ reg'[t].key = K
  BY <1>1, Calls
<1>5. CallDelete(t, x) => pc'[t] = "del_prev" /\ reg'[t].element = x
  BY <1>1, Calls
<1>6. CallLength(t, h) => pc'[t] = "len_head1" /\ reg'[t].list = h /\ reg'[t].ret = 0
  BY <1>1, Calls
<1>7. ASSUME CallInsert(t, h, x), x \in S \ On(n, c)
      PROVE  InsertLocal(t, h, S, x, n, c)'
  BY <1>2, <1>3, <1>7 DEF InsertLocal, On
<1>8. ASSUME CallLookup(t, h, K)
      PROVE  LookupLocal(t, h, K, n, c)'
  BY <1>2, <1>4, <1>8 DEF LookupLocal
<1>9. ASSUME CallDelete(t, x), x \in On(n, c)
      PROVE  DeleteLocal(t, x, n, c)'
  BY <1>2, <1>5, <1>9 DEF DeleteLocal, On
<1>10. ASSUME CallLength(t, h)
       PROVE  LengthLocal(t, h, n, c)'
  BY <1>2, <1>6, <1>10 DEF LengthLocal
<1> QED BY <1>2, <1>7, <1>8, <1>9, <1>10

(* A function that has returned leaves the list whole.                      *)
LEMMA ReturnsWhole ==
  ASSUME NEW h, NEW S, NEW n, NEW c, NEW t \in Procs, NEW x, NEW K, pc[t] = "ret"
  PROVE  /\ InsertLocal(t, h, S, x, n, c) <=> Whole(n, c)
         /\ LookupLocal(t, h, K, n, c) <=> Whole(n, c) /\ Found(reg[t].ptr, K, n, c)
         /\ DeleteLocal(t, x, n, c) <=> Whole(n, c) /\ reg[t].ret = 0
         /\ LengthLocal(t, h, n, c) <=> Whole(n, c) /\ reg[t].ret = n
BY DEF InsertLocal, LookupLocal, DeleteLocal, LengthLocal

(* No function follows a NULL pointer on a list it has to itself.           *)
LEMMA LocalSafe ==
  ASSUME NEW h, NEW S, NEW n, NEW c, Setting(h, S), Chain(h, S, n, c),
         NEW t \in Procs, NEW x, NEW K,
         \/ InsertLocal(t, h, S, x, n, c)
         \/ LookupLocal(t, h, K, n, c)
         \/ DeleteLocal(t, x, n, c)
         \/ LengthLocal(t, h, n, c)
  PROVE  ~Faults(t)
<1>1. /\ n \in Nat /\ NULL \notin S /\ h # NULL
      /\ \A i \in 0..(n + 1) : c[i] # NULL
      /\ \A k \in 1..(n + 1) : c[k] # NULL /\ c[k - 1] # NULL
      /\ \A k \in 1..n : c[k] # NULL /\ c[k + 1] # NULL /\ c[k - 1] # NULL
  <2>1. n \in Nat /\ c[0] = h
    BY DEF Chain
  <2>2. /\ \A k \in 1..(n + 1) : k \in 0..(n + 1) /\ k - 1 \in 0..(n + 1)
        /\ \A k \in 1..n : k \in 0..(n + 1) /\ k - 1 \in 0..(n + 1) /\ k + 1 \in 0..(n + 1)
        /\ 0 \in 0..(n + 1)
    BY <2>1
  <2>3. NULL \notin S /\ \A i \in 0..(n + 1) : c[i] # NULL
    BY ChainNodes
  <2> QED BY <2>1, <2>2, <2>3
<1>2. ASSUME InsertLocal(t, h, S, x, n, c), Faults(t)
      PROVE  FALSE
  <2>1. pc[t] # "ret"
    BY <1>2 DEF Faults, Labels
  <2>2. /\ reg[t].list # NULL /\ reg[t].element # NULL
        /\ pc[t] \in InsertLabels
        /\ pc[t] # "ins_first" => reg[t].ptr # NULL
        /\ pc[t] \notin {"ins_first", "ins_scan"} => reg[t].prev # NULL
    BY <1>1, <1>2, <2>1 DEF InsertLocal, InsertLabels
  <2> QED BY <1>2, <2>2 DEF Faults, Operand, Labels, InsertLabels
<1>3. ASSUME LookupLocal(t, h, K, n, c), Faults(t)
      PROVE  FALSE
  <2>1. /\ pc[t] \in LookupLabels /\ reg[t].list # NULL
        /\ pc[t] # "look_first" => reg[t].ptr # NULL
    BY <1>1, <1>3 DEF LookupLocal, LookupLabels, Faults, Labels
  <2> QED BY <1>3, <2>1 DEF Faults, Operand, Labels, LookupLabels
<1>4. ASSUME DeleteLocal(t, x, n, c), Faults(t)
      PROVE  FALSE
  <2>1. /\ pc[t] \in DeleteLabels /\ reg[t].element # NULL
        /\ pc[t] \in {"del_check1", "del_check2", "del_link1", "del_link2"} =>
              reg[t].prev # NULL /\ reg[t].next # NULL
    BY <1>1, <1>4 DEF DeleteLocal, DeleteLabels, Faults, Labels
  <2> QED BY <1>4, <2>1 DEF Faults, Operand, Labels, DeleteLabels
<1>5. ASSUME LengthLocal(t, h, n, c), Faults(t)
      PROVE  FALSE
  <2>1. /\ pc[t] \in LengthLabels /\ reg[t].list # NULL
        /\ pc[t] \notin {"len_head1", "len_head2", "len_first"} => reg[t].ptr # NULL
        /\ pc[t] = "len_fwd2" => reg[t].next # NULL
        /\ pc[t] = "len_bwd2" => reg[t].prev # NULL
    BY <1>1, <1>5 DEF LengthLocal, LengthLabels, Faults, Labels
  <2> QED BY <1>5, <2>1 DEF Faults, Operand, Labels, LengthLabels
<1> QED BY <1>2, <1>3, <1>4, <1>5

(* A list none of whose nodes a step touches.                               *)
LEMMA Untouched ==
  ASSUME NEW h, NEW S, NEW n, NEW c, Setting(h, S), Chain(h, S, n, c), key' = key,
         \A m \in {h} \cup S : next'[m] = next[m] /\ prev'[m] = prev[m]
  PROVE  Chain(h, S, n, c)' /\ (Whole(n, c) => Whole(n, c)')
<1>1. n \in Nat /\ \A i \in 0..(n + 1) : c[i] \in {h} \cup S
  BY ChainNodes DEF Chain
<1>2. \A i \in 0..n : /\ next'[c[i]] = next[c[i]] /\ prev'[c[i + 1]] = prev[c[i + 1]]
  <2>1. \A i \in 0..n : i \in 0..(n + 1) /\ i + 1 \in 0..(n + 1)
    BY <1>1
  <2> QED BY <1>1, <2>1
<1>3. Chain(h, S, n, c)'
  BY <1>1, <1>2 DEF Chain, Nodes
<1> QED BY <1>2, <1>3 DEF Whole

(* What a process is doing to a list is not disturbed by what happens to   *)
(* other nodes.                                                            *)
LEMMA LocalKept ==
  ASSUME NEW h, NEW S, NEW n, NEW c, Setting(h, S), Chain(h, S, n, c), key' = key,
         \A m \in {h} \cup S : next'[m] = next[m] /\ prev'[m] = prev[m],
         NEW t, pc'[t] = pc[t], reg'[t] = reg[t], NEW x, NEW K
  PROVE  /\ InsertLocal(t, h, S, x, n, c) => InsertLocal(t, h, S, x, n, c)'
         /\ LookupLocal(t, h, K, n, c) => LookupLocal(t, h, K, n, c)'
         /\ DeleteLocal(t, x, n, c) => DeleteLocal(t, x, n, c)'
         /\ LengthLocal(t, h, n, c) => LengthLocal(t, h, n, c)'
<1>1. /\ n \in Nat
      /\ \A i \in 0..(n + 1) : next'[c[i]] = next[c[i]] /\ prev'[c[i]] = prev[c[i]]
  <2>1. n \in Nat /\ \A i \in 0..(n + 1) : c[i] \in {h} \cup S
    BY ChainNodes DEF Chain
  <2> QED BY <2>1
<1>2. Whole(n, c) => Whole(n, c)'
  <2>1. \A i \in 0..n : i \in 0..(n + 1)
    BY <1>1
  <2> QED BY <1>1, <2>1 DEF Whole
<1>3. \A k, m : Detour(n, c, k, m) => Detour(n, c, k, m)'
  <2>1. \A i \in 0..n : i \in 0..(n + 1)
    BY <1>1
  <2> QED BY <1>1, <2>1 DEF Detour
<1>4. InsertLocal(t, h, S, x, n, c) => InsertLocal(t, h, S, x, n, c)'
  <2>1. x \in S => next'[x] = next[x] /\ prev'[x] = prev[x]
    OBVIOUS
  <2>2. On(n, c)' = On(n, c)
    BY DEF On
  <2> QED BY <1>2, <1>3, <2>1, <2>2 DEF InsertLocal
<1>5. LookupLocal(t, h, K, n, c) => LookupLocal(t, h, K, n, c)'
  <2>1. Found(reg[t].ptr, K, n, c) => Found(reg[t].ptr, K, n, c)'
    BY DEF Found
  <2> QED BY <1>2, <2>1 DEF LookupLocal
<1>6. DeleteLocal(t, x, n, c) => DeleteLocal(t, x, n, c)'
  BY <1>2, <1>3 DEF DeleteLocal
<1>7. LengthLocal(t, h, n, c) => LengthLocal(t, h, n, c)'
  BY <1>2 DEF LengthLocal
<1> QED BY <1>4, <1>5, <1>6, <1>7

(* init_list_and_ele() leaves a head that leads to itself.                  *)
LEMMA EmptyList ==
  ASSUME NEW h, NEW S, h \in Nodes, next[h] = h, prev[h] = h
  PROVE  \E c : Chain(h, S, 0, c) /\ Whole(0, c) /\ On(0, c) = {}
<1> DEFINE c == [i \in 0..1 |-> h]
<1>1. c[0] = h /\ c[1] = h /\ c \in [0..(0 + 1) -> Nodes] /\ c[0 + 1] = h
  OBVIOUS
<1> HIDE DEF c
<1>2. 0..0 = {0} /\ 1..0 = {} /\ 1..(0 - 1) = {}
  OBVIOUS
<1>3. Chain(h, S, 0, c) /\ Whole(0, c) /\ On(0, c) = {}
  BY <1>1, <1>2 DEF Chain, Whole, On
<1> QED BY <1>3

(* What a walk of i steps along prev from the head has met.                 *)
Met(n, c, i) == {c[j] : j \in {k \in 0..(n + 1) : k >= n + 1 - i}}

(* Each step meets the predecessors of what was met.                        *)
LEMMA MetSteps ==
  ASSUME NEW h, NEW S, NEW n, NEW c, Setting(h, S), Chain(h, S, n, c)
  PROVE  /\ Met(n, c, 0) = {h}
         /\ \A i \in Nat : Met(n, c, i + 1)
                             = Met(n, c, i) \cup {prev[m] : m \in Met(n, c, i) \ {NULL}}
<1>1. /\ n \in Nat /\ c[0] = h /\ c[n + 1] = h
      /\ \A j \in 0..n : prev[c[j + 1]] = c[j]
      /\ \A j \in 0..(n + 1) : c[j] # NULL
  BY ChainNodes DEF Chain
<1>2. {k \in 0..(n + 1) : k >= n + 1 - 0} = {n + 1}
  BY <1>1
<1>3. Met(n, c, 0) = {h}
  BY <1>1, <1>2 DEF Met
<1>4. ASSUME NEW i \in Nat
      PROVE  Met(n, c, i + 1) = Met(n, c, i) \cup {prev[m] : m \in Met(n, c, i) \ {NULL}}
  <2>1. ASSUME NEW m \in Met(n, c, i + 1)
        PROVE  m \in Met(n, c, i) \/ \E p \in Met(n, c, i) \ {NULL} : m = prev[p]
    <3>1. PICK j \in 0..(n + 1) : j >= n + 1 - (i + 1) /\ m = c[j]
      BY DEF Met
    <3>2. CASE j >= n + 1 - i
      BY <3>1, <3>2 DEF Met
    <3>3. CASE ~(j >= n + 1 - i)
      <4>1. j + 1 \in 0..(n + 1) /\ j + 1 >= n + 1 - i /\ j \in 0..n
        BY <1>1, <3>1, <3>3
      <4>2. c[j + 1] \in Met(n, c, i) \ {NULL} /\ m = prev[c[j + 1]]
        BY <1>1, <3>1, <4>1 DEF Met
      <4> QED BY <4>2
    <3> QED BY <3>2, <3>3
  <2>2. ASSUME NEW p \in Met(n, c, i)
        PROVE  p \in Met(n, c, i + 1) /\ prev[p] \in Met(n, c, i + 1)
    <3>1. PICK j \in 0..(n + 1) : j >= n + 1 - i /\ p = c[j]
      BY DEF Met
    <3>2. j >= n + 1 - (i + 1)
      BY <1>1, <3>1
    <3>3. CASE j # 0
      <4>1. j - 1 \in 0..n /\ j - 1 \in 0..(n + 1) /\ j - 1 >= n + 1 - (i + 1)
            /\ (j - 1) + 1 = j
        BY <1>1, <3>1, <3>3
      <4>2. prev[c[(j - 1) + 1]] = c[j - 1]
        BY <1>1, <4>1
      <4> QED BY <3>1, <3>2, <4>1, <4>2 DEF Met
    <3>4. CASE j = 0
      <4>1. n \in 0..n /\ n \in 0..(n + 1) /\ n >= n + 1 - (i + 1)
        BY <1>1
      <4>2. prev[c[j]] = c[n]
        BY <1>1, <3>4, <4>1
      <4> QED BY <3>1, <3>2, <4>1, <4>2 DEF Met
    <3> QED BY <3>3, <3>4
  <2> QED BY <2>1, <2>2
<1> QED BY <1>3, <1>4

(* Members() of a list finds the elements of its chain.                     *)
LEMMA MembersAre ==
  ASSUME NEW h, NEW S, NEW n, NEW c, Setting(h, S), Chain(h, S, n, c),
         NEW N \in Nat, n <= N
  PROVE  Members(h, N) = On(n, c)
<1> DEFINE body(w) == [i \in Nat |->
                IF i = 0 THEN {h}
                ELSE LET before == w[i-1]
                     IN  before \cup {prev[m] : m \in before \ {NULL}}]
           walk == CHOOSE w : w = body(w)
           W == [i \in Nat |-> Met(n, c, i)]
<1>1. Members(h, N) = walk[N] \ {h, NULL}
  BY DEF Members
<1>2. W = body(W)
  <2>1. ASSUME NEW i \in Nat
        PROVE  W[i] = body(W)[i]
    <3>1. CASE i = 0
      BY <3>1, MetSteps
    <3>2. CASE i # 0
      <4>1. i - 1 \in Nat /\ (i - 1) + 1 = i
        BY <3>2
      <4>2. W[i - 1] = Met(n, c, i - 1) /\ W[i] = Met(n, c, (i - 1) + 1)
        BY <4>1
      <4>3. W[i] = W[i - 1] \cup {prev[m] : m \in W[i - 1] \ {NULL}}
        BY <4>1, <4>2, MetSteps
      <4> QED BY <3>2, <4>3
    <3> QED BY <3>1, <3>2
  <2>2. body(W) = [i \in Nat |-> body(W)[i]] /\ W = [i \in Nat |-> W[i]]
    OBVIOUS
  <2> HIDE DEF W, body
  <2> QED BY <2>1, <2>2
<1>3. walk = body(walk)
  <2> HIDE DEF body, W
  <2> QED BY <1>2
<1>4. ASSUME NEW i \in Nat
      PROVE  /\ walk[0] = {h}
             /\ walk[i + 1] = walk[i] \cup {prev[m] : m \in walk[i] \ {NULL}}
  <2> HIDE DEF walk
  <2>1. body(walk)[0] = {h}
        /\ body(walk)[i + 1] = walk[(i + 1) - 1]
             \cup {prev[m] : m \in walk[(i + 1) - 1] \ {NULL}}
    <3>1. i + 1 \in Nat /\ i + 1 # 0
      OBVIOUS
    <3> QED BY <3>1
  <2>2. (i + 1) - 1 = i
    OBVIOUS
  <2> HIDE DEF body
  <2> QED BY <1>3, <2>1, <2>2
<1> HIDE DEF walk, body, W
<1>a. /\ walk[0] = Met(n, c, 0)
      /\ \A i \in Nat : walk[i] = Met(n, c, i) => walk[i + 1] = Met(n, c, i + 1)
  <2>1. walk[0] = Met(n, c, 0)
    <3>1. Met(n, c, 0) = {h} /\ 0 \in Nat
      BY MetSteps
    <3> QED BY <1>4, <3>1
  <2>2. ASSUME NEW i \in Nat, walk[i] = Met(n, c, i)
        PROVE  walk[i + 1] = Met(n, c, i + 1)
    <3>1. walk[i + 1] = walk[i] \cup {prev[m] : m \in walk[i] \ {NULL}}
      BY <1>4
    <3>2. Met(n, c, i + 1) = Met(n, c, i) \cup {prev[m] : m \in Met(n, c, i) \ {NULL}}
      BY MetSteps
    <3> QED BY <2>2, <3>1, <3>2
  <2> QED BY <2>1, <2>2
<1>5. walk[N] = Met(n, c, N)
  <2> DEFINE Bad == {i \in Nat : walk[i] # Met(n, c, i)}
  <2> SUFFICES ASSUME Bad # {}
               PROVE  FALSE
    OBVIOUS
  <2>1. PICK i \in Bad : \A j \in Bad : i <= j
    <3>1. Bad \in SUBSET Nat
      OBVIOUS
    <3> HIDE DEF Bad
    <3> QED BY <3>1, LeastElement
  <2>2. i # 0
    BY <1>a, <2>1
  <2>3. i - 1 \in Nat /\ (i - 1) + 1 = i /\ i - 1 \notin Bad
    BY <2>1, <2>2
  <2>4. walk[i - 1] = Met(n, c, i - 1)
    BY <2>3
  <2>5. walk[(i - 1) + 1] = Met(n, c, (i - 1) + 1)
    BY <1>a, <2>3, <2>4
  <2> QED BY <2>3, <2>5
<1>6. Met(n, c, N) \ {h, NULL} = On(n, c)
  <2>1. /\ n \in Nat /\ c[0] = h /\ c[n + 1] = h
        /\ \A j \in 0..(n + 1) : c[j] # NULL
        /\ \A j \in 1..n : c[j] # h
        /\ \A j \in 0..(n + 1) : j = 0 \/ j = n + 1 \/ j \in 1..n
        /\ \A j \in 1..n : j \in 0..(n + 1) /\ j >= n + 1 - N
    <3>1. n \in Nat /\ c[0] = h /\ c[n + 1] = h
      BY DEF Chain
    <3>2. \A j \in 1..n : c[j] \in S
      BY DEF Chain
    <3>3. h \notin S /\ \A j \in 0..(n + 1) : c[j] # NULL
      BY ChainNodes
    <3> QED BY <3>1, <3>2, <3>3
  <2> QED BY <2>1 DEF Met, On
<1> QED BY <1>1, <1>5, <1>6

(* A list holds no more than all the elements.                              *)
LEMMA ChainIsShort ==
  ASSUME NEW h, NEW S, NEW n, NEW c, Setting(h, S), Chain(h, S, n, c),
         NEW N \in Nat, NEW rank, \A e \in Elems : rank[e] \in 1..N,
         \A e, f \in Elems : rank[e] = rank[f] => e = f
  PROVE  n <= N
<1> DEFINE f == [i \in 1..n |-> rank[c[i]]]
<1>1. n \in Nat /\ \A i \in 1..n : c[i] \in Elems
  BY DEF Chain, Setting
<1>2. \A i, j \in 1..n : c[i] = c[j] => i = j
  BY DEF Chain
<1>3. f \in Injection(1..n, 1..N)
  BY <1>1, <1>2 DEF Injection, IsInjective
<1>4. Cardinality(1..n) = n /\ Cardinality(1..N) = N /\ IsFiniteSet(1..N)
  BY <1>1, FS_Interval
<1> HIDE DEF f
<1> QED BY <1>3, <1>4, FS_Injection

(* A whole list is a circle, and is ordered by key.                         *)
LEMMA WholeIsIntact ==
  ASSUME NEW h, NEW S, NEW n, NEW c, Setting(h, S), Chain(h, S, n, c), Whole(n, c),
         NEW N \in Nat, n <= N
  PROVE  /\ Circular(h, N)
         /\ \A e \in Members(h, N) :
              e \in S /\ (next[e] # h => strcmp(key[e], key[next[e]]) >= 0)
<1>1. Members(h, N) = On(n, c)
  BY MembersAre
<1>2. /\ n \in Nat /\ c[0] = h /\ c[n + 1] = h
      /\ \A i \in 1..n : c[i] \in S
      /\ \A i \in 0..n : prev[c[i + 1]] = c[i]
      /\ \A i \in 1..(n - 1) : strcmp(key[c[i]], key[c[i + 1]]) >= 0
      /\ \A i \in 0..n : next[c[i]] = c[i + 1]
  BY DEF Chain, Whole
<1>3. \A i \in 0..(n + 1) : c[i] # NULL
  BY ChainNodes
<1>4. ASSUME NEW m \in On(n, c) \cup {h}
      PROVE  /\ next[m] # NULL /\ prev[next[m]] = m
             /\ prev[m] # NULL /\ next[prev[m]] = m
  <2>1. PICK i \in 0..n : m = c[i]
    <3>1. 0 \in 0..n /\ \A j \in 1..n : j \in 0..n
      BY <1>2
    <3> QED BY <1>2, <3>1 DEF On
  <2>2. PICK j \in 1..(n + 1) : m = c[j]
    <3>1. n + 1 \in 1..(n + 1) /\ \A k \in 1..n : k \in 1..(n + 1)
      BY <1>2
    <3> QED BY <1>2, <3>1 DEF On
  <2>3. next[m] # NULL /\ prev[next[m]] = m
    <3>1. i + 1 \in 0..(n + 1)
      BY <1>2
    <3> QED BY <1>2, <1>3, <2>1, <3>1
  <2>4. prev[m] # NULL /\ next[prev[m]] = m
    <3>1. j - 1 \in 0..n /\ (j - 1) + 1 = j /\ j - 1 \in 0..(n + 1)
      BY <1>2
    <3>2. prev[c[(j - 1) + 1]] = c[j - 1] /\ next[c[j - 1]] = c[(j - 1) + 1]
      BY <1>2, <3>1
    <3> QED BY <1>3, <2>2, <3>1, <3>2
  <2> QED BY <2>3, <2>4
<1>5. ASSUME NEW e \in On(n, c)
      PROVE  e \in S /\ (next[e] # h => strcmp(key[e], key[next[e]]) >= 0)
  <2>1. PICK i \in 1..n : e = c[i]
    BY DEF On
  <2>2. i \in 0..n /\ (i = n \/ i \in 1..(n - 1))
    BY <1>2
  <2> QED BY <1>2, <2>1, <2>2
<1> QED BY <1>1, <1>4, <1>5 DEF Circular

-----------------------------------------------------------------------------
(* The atomic lists.                                                       *)

(* What was inserted is on no list before its insert, and deletes come     *)
(* after inserts.                                                          *)
OrderInv == /\ \A e \in members : e[2] < inserted[e[1]]
            /\ \A t \in Workers : deleted[t] > 0 => inserted[t] = niteratns

IInv == TypeOK /\ OrderInv /\ Balanced

LEMMA FiniteElements ==
  ASSUME nthreads \in Nat, niteratns \in Nat
  PROVE  IsFiniteSet(Elements)
<1>1. IsFiniteSet(Workers) /\ IsFiniteSet(Turns)
  BY FS_Interval DEF Workers, Turns
<1> QED BY <1>1, FS_Product DEF Elements

(* Every set the balance counts is finite.                                 *)
LEMMA FiniteCounts ==
  ASSUME nthreads \in Nat, niteratns \in Nat, TypeOK, NEW k \in Keys
  PROVE  /\ IsFiniteSet({e \in members : keyOf[e] = k})
         /\ IsFiniteSet(Inserts(k)) /\ IsFiniteSet(Deletes(k))
         /\ Cardinality({e \in members : keyOf[e] = k}) \in Nat
         /\ Cardinality(Inserts(k)) \in Nat
         /\ Cardinality(Deletes(k)) \in Nat
<1>1. /\ {e \in members : keyOf[e] = k} \in SUBSET Elements
      /\ Inserts(k) \in SUBSET Elements
      /\ Deletes(k) \in SUBSET Elements
  BY DEF TypeOK, Inserts, Deletes
<1> QED BY <1>1, FiniteElements, FS_Subset, FS_CardinalityType

(* An insert adds one element of its key to both sides of the balance.     *)
LEMMA InsertBalances ==
  ASSUME nthreads \in Nat, niteratns \in Nat, IInv, NEW t \in Workers, Insert(t)
  PROVE  IInv'
<1> DEFINE x == <<t, inserted[t]>>
<1>1. x \in Elements /\ x[1] = t /\ x[2] = inserted[t]
  BY DEF Insert, IInv, TypeOK, Elements, Turns
<1>2. TypeOK' /\ OrderInv'
  <2>1. TypeOK'
    BY <1>1 DEF IInv, TypeOK, Insert
  <2>2. \A e \in members' : e[2] < inserted'[e[1]]
    <3> TAKE e \in members'
    <3>1. e \in Elements /\ e[1] \in Workers
      BY <2>1 DEF TypeOK, Elements
    <3>2. CASE e = x
      BY <3>2, <1>1 DEF IInv, TypeOK, Insert
    <3>3. CASE e # x
      <4>1. e[2] < inserted[e[1]]
        BY <3>3 DEF IInv, OrderInv, Insert
      <4>2. e[2] \in Nat
        BY <3>1 DEF Elements, Turns
      <4> QED BY <4>1, <4>2, <3>1 DEF IInv, TypeOK, Insert
    <3> QED BY <3>2, <3>3
  <2>3. \A u \in Workers : deleted'[u] > 0 => inserted'[u] = niteratns
    BY DEF IInv, TypeOK, OrderInv, Insert
  <2> QED BY <2>1, <2>2, <2>3 DEF OrderInv
<1>3. x \notin members
  BY <1>1 DEF IInv, TypeOK, OrderInv
<1>4. ASSUME NEW k \in Keys
      PROVE  Cardinality({e \in members' : keyOf'[e] = k}) + Cardinality(Deletes(k)')
               = Cardinality(Inserts(k)')
  <2>1. Deletes(k)' = Deletes(k)
    BY DEF Deletes, Insert
  <2>2. Cardinality({e \in members : keyOf[e] = k}) + Cardinality(Deletes(k))
          = Cardinality(Inserts(k))
    BY DEF IInv, Balanced
  <2>3. CASE keyOf[x] = k
    <3>1. {e \in members' : keyOf'[e] = k} = {e \in members : keyOf[e] = k} \cup {x}
      BY <2>3 DEF Insert
    <3>2. Inserts(k)' = Inserts(k) \cup {x} /\ x \notin Inserts(k)
      <4>1. \A e \in Elements : e[2] < inserted'[e[1]] <=> e[2] < inserted[e[1]] \/ e = x
        <5> TAKE e \in Elements
        <5>1. e = <<e[1], e[2]>> /\ e[1] \in Workers /\ e[2] \in Nat
          BY DEF Elements, Turns
        <5> QED BY <5>1, <1>1 DEF Insert, IInv, TypeOK
      <4> QED BY <4>1, <1>1, <2>3 DEF Inserts, Insert, IInv, TypeOK
    <3>3. x \notin {e \in members : keyOf[e] = k}
      BY <1>3
    <3> DEFINE S == {e \in members : keyOf[e] = k}
    <3>4. Cardinality(S \cup {x}) = Cardinality(S) + 1
      BY <3>3, FiniteCounts, FS_AddElement DEF IInv
    <3>5. Cardinality(Inserts(k) \cup {x}) = Cardinality(Inserts(k)) + 1
      BY <3>2, FiniteCounts, FS_AddElement DEF IInv
    <3>6. /\ Cardinality(S) \in Nat /\ Cardinality(Deletes(k)) \in Nat
          /\ Cardinality(Inserts(k)) \in Nat
      BY FiniteCounts DEF IInv
    <3>7. /\ Cardinality({e \in members' : keyOf'[e] = k}) = Cardinality(S) + 1
          /\ Cardinality(Inserts(k)') = Cardinality(Inserts(k)) + 1
      BY <3>1, <3>2, <3>4, <3>5
    <3>8. Cardinality(S) + Cardinality(Deletes(k)) = Cardinality(Inserts(k))
      BY <2>2
    <3> HIDE DEF S
    <3> QED BY <2>1, <3>6, <3>7, <3>8
  <2>4. CASE keyOf[x] # k
    <3>1. {e \in members' : keyOf'[e] = k} = {e \in members : keyOf[e] = k}
      BY <2>4 DEF Insert
    <3>2. Inserts(k)' = Inserts(k)
      <4>1. \A e \in Elements : keyOf[e] = k =>
               (e[2] < inserted'[e[1]] <=> e[2] < inserted[e[1]])
        <5> TAKE e \in Elements
        <5>1. e = <<e[1], e[2]>> /\ e[1] \in Workers /\ e[2] \in Nat
          BY DEF Elements, Turns
        <5> QED BY <5>1, <1>1, <2>4 DEF Insert, IInv, TypeOK
      <4> QED BY <4>1 DEF Inserts, Insert
    <3> QED BY <2>1, <2>2, <3>1, <3>2
  <2> QED BY <2>3, <2>4
<1> QED BY <1>2, <1>4 DEF IInv, Balanced

(* A delete takes one element of its key off both sides.                   *)
LEMMA DeleteBalances ==
  ASSUME nthreads \in Nat, niteratns \in Nat, IInv, NEW t \in Workers, Delete(t)
  PROVE  IInv'
<1> DEFINE x == <<t, deleted[t]>>
<1>1. x \in Elements /\ x[1] = t /\ x[2] = deleted[t]
  BY DEF Delete, IInv, TypeOK, Elements, Turns
<1>2. PICK d \in members : keyOf[d] = keyOf[x] /\ members' = members \ {d}
  BY DEF Delete
<1>3. TypeOK' /\ OrderInv'
  BY <1>2 DEF IInv, TypeOK, OrderInv, Delete
<1>4. ASSUME NEW k \in Keys
      PROVE  Cardinality({e \in members' : keyOf'[e] = k}) + Cardinality(Deletes(k)')
               = Cardinality(Inserts(k)')
  <2>1. Inserts(k)' = Inserts(k)
    BY DEF Inserts, Delete
  <2>2. Cardinality({e \in members : keyOf[e] = k}) + Cardinality(Deletes(k))
          = Cardinality(Inserts(k))
    BY DEF IInv, Balanced
  <2>3. \A e \in Elements : e[2] < deleted'[e[1]] <=> e[2] < deleted[e[1]] \/ e = x
    <3> TAKE e \in Elements
    <3>1. e = <<e[1], e[2]>> /\ e[1] \in Workers /\ e[2] \in Nat
      BY DEF Elements, Turns
    <3> QED BY <3>1, <1>1 DEF Delete, IInv, TypeOK
  <2>4. CASE keyOf[x] = k
    <3>1. {e \in members' : keyOf'[e] = k} = {e \in members : keyOf[e] = k} \ {d}
      BY <1>2 DEF Delete
    <3>2. d \in {e \in members : keyOf[e] = k}
      BY <1>2, <2>4
    <3>3. Deletes(k)' = Deletes(k) \cup {x} /\ x \notin Deletes(k)
      BY <2>3, <1>1, <2>4 DEF Deletes, Delete, IInv, TypeOK
    <3> DEFINE S == {e \in members : keyOf[e] = k}
    <3>4. Cardinality(S \ {d}) = Cardinality(S) - 1
      BY <3>2, FiniteCounts, FS_RemoveElement DEF IInv
    <3>5. Cardinality(Deletes(k) \cup {x}) = Cardinality(Deletes(k)) + 1
      BY <3>3, FiniteCounts, FS_AddElement DEF IInv
    <3>6. /\ Cardinality(S) \in Nat /\ Cardinality(Deletes(k)) \in Nat
          /\ Cardinality(Inserts(k)) \in Nat
      BY FiniteCounts DEF IInv
    <3>7. /\ Cardinality({e \in members' : keyOf'[e] = k}) = Cardinality(S) - 1
          /\ Cardinality(Deletes(k)') = Cardinality(Deletes(k)) + 1
      BY <3>1, <3>3, <3>4, <3>5
    <3>8. Cardinality(S) + Cardinality(Deletes(k)) = Cardinality(Inserts(k))
      BY <2>2
    <3> HIDE DEF S
    <3> QED BY <2>1, <3>6, <3>7, <3>8
  <2>5. CASE keyOf[x] # k
    <3>1. {e \in members' : keyOf'[e] = k} = {e \in members : keyOf[e] = k}
      BY <1>2, <2>5 DEF Delete
    <3>2. Deletes(k)' = Deletes(k)
      BY <2>3, <2>5 DEF Deletes, Delete
    <3> QED BY <2>1, <2>2, <3>1, <3>2
  <2> QED BY <2>4, <2>5
<1> QED BY <1>3, <1>4 DEF IInv, Balanced

LEMMA InitIInv ==
  ASSUME nthreads \in Nat, niteratns \in Nat
  PROVE  Init => IInv
<1> SUFFICES ASSUME Init PROVE IInv
  OBVIOUS
<1>1. TypeOK /\ OrderInv
  BY DEF Init, TypeOK, OrderInv, Workers
<1>2. ASSUME NEW k \in Keys
      PROVE  /\ {e \in members : keyOf[e] = k} = {}
             /\ Deletes(k) = {} /\ Inserts(k) = {}
  BY DEF Init, Deletes, Inserts, Elements, Turns
<1> QED BY <1>1, <1>2, FS_EmptySet DEF IInv, Balanced

LEMMA StepIInv ==
  ASSUME nthreads \in Nat, niteratns \in Nat, IInv, [Next]_vars
  PROVE  IInv'
<1>1. CASE Next
  BY <1>1, InsertBalances, DeleteBalances DEF Next
<1>2. CASE UNCHANGED vars
  BY <1>2 DEF vars, IInv, TypeOK, OrderInv, Balanced, Inserts, Deletes
<1> QED BY <1>1, <1>2

LEMMA Inductive ==
  ASSUME nthreads \in Nat, niteratns \in Nat
  PROVE  Spec => []IInv
<1>1. IInv /\ [Next]_vars => IInv'
  BY StepIInv
<1> QED BY <1>1, InitIInv, PTL DEF Spec

(* For every key, what is on the lists is what was inserted and not yet    *)
(* deleted.                                                                *)
THEOREM Conservation ==
  ASSUME nthreads \in Nat, niteratns \in Nat
  PROVE  Spec => []Balanced
<1>1. IInv => Balanced
  BY DEF IInv
<1> QED BY <1>1, Inductive, PTL

LEMMA Finds ==
  ASSUME nthreads \in Nat, niteratns \in Nat, IInv
  PROVE  AlwaysFound
<1> SUFFICES ASSUME NEW t \in Workers, inserted[t] = niteratns,
                    deleted[t] < niteratns
             PROVE  \E e \in members : keyOf[e] = keyOf[<<t, deleted[t]>>]
  BY DEF AlwaysFound
<1> DEFINE x == <<t, deleted[t]>>
           k == keyOf[x]
           S == {e \in members : keyOf[e] = k}
<1>1. x \in Elements /\ x[1] = t /\ x[2] = deleted[t] /\ k \in Keys
  BY DEF IInv, TypeOK, Elements, Turns
<1>2. x \in Inserts(k) /\ x \notin Deletes(k)
  BY <1>1 DEF Inserts, Deletes, IInv, TypeOK
<1>3. Deletes(k) \in SUBSET Inserts(k)
  <2> SUFFICES ASSUME NEW e \in Elements, e[2] < deleted[e[1]]
               PROVE  e[2] < inserted[e[1]]
    BY DEF Deletes, Inserts
  <2>1. e[1] \in Workers /\ e[2] \in Nat /\ e[2] < niteratns
    BY DEF Elements, Turns
  <2> QED BY <2>1 DEF IInv, TypeOK, OrderInv
<1>4. Cardinality(Deletes(k)) # Cardinality(Inserts(k))
  BY <1>1, <1>2, <1>3, FiniteCounts, FS_Subset DEF IInv
<1>5. Cardinality(S) + Cardinality(Deletes(k)) = Cardinality(Inserts(k))
  BY <1>1 DEF IInv, Balanced
<1>6. S # {}
  <2> HIDE DEF k
  <2> QED BY <1>1, <1>4, <1>5, FiniteCounts, FS_EmptySet DEF IInv
<1> QED BY <1>6

(* The lookup of a worker that still has an element to delete succeeds.    *)
THEOREM LookupSucceeds ==
  ASSUME nthreads \in Nat, niteratns \in Nat
  PROVE  Spec => []AlwaysFound
<1>1. IInv => AlwaysFound
  BY Finds
<1> QED BY <1>1, Inductive, PTL

LEMMA Empties ==
  ASSUME nthreads \in Nat, niteratns \in Nat, IInv
  PROVE  EmptyAtEnd
<1> SUFFICES ASSUME \A t \in Workers : deleted[t] = niteratns, NEW x \in members
             PROVE  FALSE
  BY DEF EmptyAtEnd
<1> DEFINE k == keyOf[x]
           S == {e \in members : keyOf[e] = k}
<1>1. x \in Elements /\ k \in Keys /\ x \in S
  BY DEF IInv, TypeOK
<1>2. Inserts(k) = Deletes(k)
  <2>1. \A e \in Elements : e[2] < inserted[e[1]] <=> e[2] < deleted[e[1]]
    BY DEF IInv, TypeOK, OrderInv, Elements, Turns
  <2> QED BY <2>1 DEF Inserts, Deletes
<1>3. Cardinality(S) + Cardinality(Deletes(k)) = Cardinality(Inserts(k))
  BY <1>1 DEF IInv, Balanced
<1>4. S = {}
  <2>1. IsFiniteSet(S) /\ Cardinality(S) \in Nat /\ Cardinality(Deletes(k)) \in Nat
    BY <1>1, FiniteCounts DEF IInv
  <2>2. Cardinality(S) = 0
    BY <1>2, <1>3, <2>1
  <2> QED BY <2>1, <2>2, FS_EmptySet
<1> QED BY <1>1, <1>4

(* When every delete is done no element is left.                           *)
THEOREM EndsEmpty ==
  ASSUME nthreads \in Nat, niteratns \in Nat
  PROVE  Spec => []EmptyAtEnd
<1>1. IInv => EmptyAtEnd
  BY Empties
<1> QED BY <1>1, Inductive, PTL
=============================================================================
