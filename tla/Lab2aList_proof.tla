--------------------------- MODULE Lab2aList_proof ---------------------------
(***************************************************************************)
(* What holds of lab2a's list for any number of threads and iterations.     *)
(*                                                                          *)
(* Whatever the mode, the links and the registers of every thread are in    *)
(* order as far as races allow (Inv).  With the lock, one worker at a time  *)
(* is inside the list's functions (Exclusion), the list is a ring but for   *)
(* what that worker is doing to it (ListState), inserts and deletes take    *)
(* effect at one step, and main finds the list empty.                       *)
(***************************************************************************)
EXTENDS Lab2aList, TLAPS

(* The variables of AtomicList, as the refinement mapping gives them.       *)
aKey == [x \in Owned |-> key[Mine(x[1], x[2])]]
aMembers == IF Synchronised THEN {Owner(e) : e \in Members} ELSE {}
aInserted == [t \in Workers |-> IF Synchronised THEN InsertsDone(t) ELSE 0]
aDeleted == [t \in Workers |-> IF Synchronised THEN DeletesDone(t) ELSE 0]
avars == <<aKey, aMembers, aInserted, aDeleted>>

(* Lists_proof says what one step of a function does; here it is applied to *)
(* the threads of this program and its one list.                           *)
LP == INSTANCE Lists_proof WITH
  Procs <- Threads, Heads <- {head}, Keys <- {str},
  keyOf <- aKey, members <- aMembers, inserted <- aInserted, deleted <- aDeleted

USE ThreadsAssumption, IterationsAssumption

(* The functions of the two instances are the same.                         *)
LEMMA SameFunctions == ASSUME NEW t PROVE SL!ListStep(t) <=> LP!ListStep(t)
<1>1. SL!Faults(t) <=> LP!Faults(t)
  BY DEF SL!Faults, LP!Faults, SL!Operand, LP!Operand, SL!Labels, LP!Labels
<1>2. SL!Labels = LP!Labels
  BY DEF SL!Labels, LP!Labels
<1>3. SL!InsertFirst(t) <=> LP!InsertFirst(t)
  BY DEF SL!InsertFirst, LP!InsertFirst, SL!Load, LP!Load
<1>4. SL!InsertScan(t) <=> LP!InsertScan(t)
  BY DEF SL!InsertScan, LP!InsertScan, SL!Load, LP!Load, SL!strcmp, LP!strcmp
<1>5. SL!InsertLink(t) <=> LP!InsertLink(t)
  BY DEF SL!InsertLink, LP!InsertLink, SL!Return, LP!Return, SL!Idle, LP!Idle
<1>6. SL!LookupFirst(t) <=> LP!LookupFirst(t)
  BY DEF SL!LookupFirst, LP!LookupFirst, SL!Load, LP!Load
<1>7. SL!LookupScan(t) <=> LP!LookupScan(t)
  BY DEF SL!LookupScan, LP!LookupScan, SL!Load, LP!Load, SL!strcmp, LP!strcmp, SL!Return,
         LP!Return, SL!Idle, LP!Idle
<1>8. SL!DeleteLoad(t) <=> LP!DeleteLoad(t)
  BY DEF SL!DeleteLoad, LP!DeleteLoad, SL!Load, LP!Load
<1>9. SL!DeleteCheck(t) <=> LP!DeleteCheck(t)
  BY DEF SL!DeleteCheck, LP!DeleteCheck, SL!Return, LP!Return, SL!Idle, LP!Idle
<1>10. SL!DeleteLink(t) <=> LP!DeleteLink(t)
  BY DEF SL!DeleteLink, LP!DeleteLink, SL!Return, LP!Return, SL!Idle, LP!Idle
<1>11. SL!LengthHead(t) <=> LP!LengthHead(t)
  BY DEF SL!LengthHead, LP!LengthHead, SL!Return, LP!Return, SL!Idle, LP!Idle, SL!Test,
         LP!Test, SL!Corrupted, LP!Corrupted, SL!Load, LP!Load
<1>12. SL!LengthElement(t) <=> LP!LengthElement(t)
  BY DEF SL!LengthElement, LP!LengthElement, SL!Return, LP!Return, SL!Idle, LP!Idle,
         SL!Test, LP!Test, SL!Corrupted, LP!Corrupted, SL!Load, LP!Load
<1> QED
  BY <1>1, <1>2, <1>3, <1>4, <1>5, <1>6, <1>7, <1>8, <1>9, <1>10, <1>11, <1>12
     DEF SL!ListStep, LP!ListStep

LEMMA SameCalls ==
  ASSUME NEW t, NEW list, NEW x
  PROVE  /\ SL!CallInsert(t, list, x) <=> LP!CallInsert(t, list, x)
         /\ SL!CallLookup(t, list, x) <=> LP!CallLookup(t, list, x)
         /\ SL!CallDelete(t, x) <=> LP!CallDelete(t, x)
         /\ SL!CallLength(t, list) <=> LP!CallLength(t, list)
         /\ SL!Faults(t) <=> LP!Faults(t)
         /\ SL!Idle = LP!Idle
<1>1. SL!Faults(t) <=> LP!Faults(t)
  BY DEF SL!Faults, LP!Faults, SL!Operand, LP!Operand, SL!Labels, LP!Labels
<1> QED
  BY <1>1 DEF SL!CallInsert, LP!CallInsert, SL!CallLookup, LP!CallLookup,
              SL!CallDelete, LP!CallDelete, SL!CallLength, LP!CallLength, SL!Idle, LP!Idle

-----------------------------------------------------------------------------
(* Where the threads are, with the lock or without.                         *)

(* The places where a call of the list's functions may be.                  *)
InCall == SL!Labels \cup {"ret"}
Inside(t) == pc[t] \in InCall

LEMMA LabelsOfCalls ==
  /\ InCall = LP!InsertLabels \cup LP!LookupLabels \cup LP!DeleteLabels \cup LP!LengthLabels
               \cup {"ret"}
  /\ SL!Labels = LP!InsertLabels \cup LP!LookupLabels \cup LP!DeleteLabels \cup LP!LengthLabels
  /\ {"main", "unborn", "lock", "returned"} \cap InCall = {}
  /\ "ret" \in InCall /\ "ret" \notin SL!Labels
BY DEF InCall, SL!Labels, LP!InsertLabels, LP!LookupLabels, LP!DeleteLabels, LP!LengthLabels

LEMMA ThreadsAre ==
  /\ Main \in Threads /\ Main \notin Workers /\ Workers \subseteq Threads
  /\ nthreads \in Nat /\ niteratns \in Nat
  /\ \A t \in Threads : t # Main => t \in Workers
BY ThreadsAssumption, IterationsAssumption DEF Threads, Workers, Main

Turns == [phase : {"insert", "length", "lookup", "delete", "returned"}, i : Nat]

Types == /\ loop \in [Workers -> Turns]
         /\ created \in 0..nthreads /\ joined \in 0..nthreads
         /\ key = [e \in Elems |-> str]

(* A worker at work is at a turn of one of its loops, and in the function   *)
(* that loop calls.                                                         *)
AtTurn(t) ==
  /\ loop[t].phase \in {"insert", "lookup", "delete"} => loop[t].i \in 0..(niteratns - 1)
  /\ loop[t].phase \in {"insert", "length", "lookup", "delete"}

InItsFunction(t) ==
  /\ pc[t] \in LP!InsertLabels => loop[t].phase = "insert"
  /\ pc[t] \in LP!LengthLabels => loop[t].phase = "length"
  /\ pc[t] \in LP!LookupLabels => loop[t].phase = "lookup"
  /\ pc[t] \in LP!DeleteLabels => loop[t].phase = "delete"
  /\ pc[t] = "lock" => loop[t].phase # "delete"

(* What a worker's place says of its loops.                                 *)
Consistent(t) ==
  \/ pc[t] = "unborn" /\ loop[t] = [phase |-> "insert", i |-> 0]
  \/ pc[t] = "returned" /\ loop[t].phase = "returned"
  \/ pc[t] \in {"lock"} \cup InCall /\ AtTurn(t) /\ InItsFunction(t)

(* main creates the workers in order, joins them in order when all are      *)
(* created, and takes the length of the list when all are joined.           *)
MainOrder == /\ \A t \in Workers : /\ t > created => pc[t] = "unborn"
                                   /\ t <= joined => pc[t] = "returned"
             /\ joined > 0 => created = nthreads
             /\ pc[Main] \in {"main", "ret"} \cup LP!LengthLabels
             /\ pc[Main] # "main" => joined = nthreads

Inv == /\ Types /\ LP!Tied /\ \A t \in Threads : LP!Known(t)
       /\ \A t \in Workers : Consistent(t)
       /\ MainOrder

(* With the lock, a worker inside the functions holds it, alone.            *)
Exclusion ==
  Synchronised =>
    \A t \in Workers : Inside(t) => lock = 1 /\ \A u \in Workers : Inside(u) => u = t

LEMMA InitInv == Init => Inv /\ Exclusion
<1> SUFFICES ASSUME Init
             PROVE  Inv /\ Exclusion
  OBVIOUS
<1>1. \A t \in Threads : pc[t] \in {"main", "unborn"} /\ ~Inside(t)
  BY LabelsOfCalls DEF Init, Inside
<1>2. Types
  BY ThreadsAre DEF Init, Types, Turns
<1>3. LP!Tied
  <2>1. NULL \notin LP!Nodes
    BY DEF LP!Nodes, Elems, NULL, head, Element
  <2>2. LP!Registers
    BY DEF Init, LP!Registers, SL!Idle
  <2>3. LP!LinksLead
    BY <2>1 DEF Init, LP!LinksLead, LP!Nodes
  <2> QED BY <2>1, <2>2, <2>3 DEF LP!Tied
<1>4. \A t \in Threads : LP!Known(t)
  BY <1>1 DEF Init, SL!Idle, LP!Known, LP!Lead, LP!InsertLabels, LP!LookupLabels,
              LP!DeleteLabels, LP!LengthLabels
<1>5. \A t \in Workers : Consistent(t)
  BY ThreadsAre DEF Init, Consistent
<1>6. MainOrder
  <2>1. \A t \in Workers : t > 0 /\ pc[t] = "unborn"
    BY ThreadsAre DEF Init, Workers
  <2> QED BY <2>1, ThreadsAre DEF Init, MainOrder, Workers
<1> QED BY <1>1, <1>2, <1>3, <1>4, <1>5, <1>6, ThreadsAre DEF Inv, Exclusion

-----------------------------------------------------------------------------
(* What each step is, in the terms of Lists_proof.                     *)

Still(u) == pc'[u] = pc[u] /\ reg'[u] = reg[u] /\ (u \in Workers => loop'[u] = loop[u])
OnlyMoves(t) == \A u \in Threads \ {t} : Still(u)

LEMMA MineIsElement ==
  ASSUME NEW t \in Workers, NEW i \in 0..(niteratns - 1)
  PROVE  Mine(t, i) \in Elems
<1>1. nthreads \in Nat /\ niteratns \in Nat /\ t \in 1..nthreads
  BY ThreadsAssumption, IterationsAssumption DEF Workers
<1>2. (t - 1) * niteratns + niteratns <= nthreads * niteratns
  BY <1>1
<1>3. (t - 1) * niteratns + i \in 0..(nelements - 1)
  BY <1>1, <1>2 DEF nelements
<1> QED BY <1>3 DEF Mine, Elems

(* The start of a turn: lock_general() and the call it protects.            *)
LEMMA LockIs ==
  ASSUME Inv, NEW t \in Workers, LockGeneral(t)
  PROVE  /\ UNCHANGED <<opt_sync, next, prev, key, loop, created, joined, exit>>
         /\ OnlyMoves(t) /\ LP!Registers' /\ LP!Known(t)'
         /\ Synchronised => lock = 0 /\ lock' = 1
         /\ ~Inside(t) /\ Inside(t)' /\ pc'[t] # "ret" /\ pc[t] = "lock" /\ AtTurn(t)
         /\ \/ /\ loop[t].phase = "insert" /\ LP!CallInsert(t, head, Mine(t, loop[t].i))
               /\ pc'[t] = "ins_first"
            \/ /\ loop[t].phase = "length" /\ LP!CallLength(t, head)
               /\ pc'[t] = "len_head1"
            \/ /\ loop[t].phase = "lookup" /\ LP!CallLookup(t, head, str)
               /\ pc'[t] = "look_first"
<1> PICK x : x = Mine(t, loop[t].i)
  OBVIOUS
<1>1. /\ UNCHANGED <<opt_sync, next, prev, key, loop, created, joined, exit>> /\ pc[t] = "lock"
      /\ Synchronised => lock = 0 /\ lock' = 1
  BY DEF LockGeneral, At, Synchronised
<1>2. t \in Threads /\ ~Inside(t)
  BY <1>1, LabelsOfCalls, ThreadsAre DEF Inside
<1>3. AtTurn(t) /\ loop[t].phase # "delete"
  BY <1>1, LabelsOfCalls DEF Inv, Consistent, InItsFunction
<1>4. loop[t].phase \in {"insert", "lookup"} => x \in Elems /\ x # NULL /\ key[x] = str
  <2>1. loop[t].phase \in {"insert", "lookup"} => x \in Elems
    BY <1>3, MineIsElement DEF AtTurn
  <2> QED BY <2>1 DEF Elems, Element, NULL, Inv, Types
<1>5. \/ loop[t].phase = "insert" /\ LP!CallInsert(t, head, x)
      \/ loop[t].phase = "length" /\ LP!CallLength(t, head)
      \/ loop[t].phase = "lookup" /\ LP!CallLookup(t, head, str)
  <2>1. CASE loop[t].phase = "insert"
    <3>1. SL!CallInsert(t, head, x)
      BY <2>1 DEF LockGeneral
    <3> QED BY <2>1, <3>1, SameCalls
  <2>2. CASE loop[t].phase = "length"
    <3>1. SL!CallLength(t, head)
      BY <2>2 DEF LockGeneral
    <3> QED BY <2>2, <3>1, SameCalls
  <2>3. CASE loop[t].phase = "lookup"
    <3>1. SL!CallLookup(t, head, str)
      BY <1>4, <2>3 DEF LockGeneral
    <3> QED BY <2>3, <3>1, SameCalls
  <2> QED BY <1>3, <2>1, <2>2, <2>3 DEF AtTurn
<1>6. LP!Registers' /\ LP!OthersKeep(t) /\ LP!Known(t)'
  <2>1. LP!Tied /\ head \in {head} /\ x \in Elems => x \in LP!Nodes
    BY DEF LP!Nodes
  <2>2. NULL \in LP!Nodes \cup {NULL} /\ LP!Tied
    BY DEF Inv
  <2>3. CASE LP!CallInsert(t, head, x) /\ loop[t].phase = "insert"
    BY <1>2, <1>4, <2>1, <2>2, <2>3, LP!CallsKnown
  <2>4. CASE LP!CallLength(t, head) \/ LP!CallLookup(t, head, str)
    BY <1>2, <2>2, <2>4, LP!CallsKnown
  <2> QED BY <1>5, <2>3, <2>4
<1>7. OnlyMoves(t)
  BY <1>1, <1>6 DEF OnlyMoves, Still, LP!OthersKeep
<1>8. \/ loop[t].phase = "insert" /\ LP!CallInsert(t, head, x) /\ pc'[t] = "ins_first"
      \/ loop[t].phase = "length" /\ LP!CallLength(t, head) /\ pc'[t] = "len_head1"
      \/ loop[t].phase = "lookup" /\ LP!CallLookup(t, head, str) /\ pc'[t] = "look_first"
  BY <1>2, <1>5, LP!Calls DEF Inv, LP!Tied
<1>9. Inside(t)' /\ pc'[t] # "ret"
  BY <1>8 DEF Inside, InCall, SL!Labels
<1> QED BY <1>1, <1>2, <1>3, <1>6, <1>7, <1>8, <1>9

(* An access to the list within a call.                                     *)
LEMMA CallIs ==
  ASSUME Inv, NEW t \in Threads, Call(t)
  PROVE  /\ UNCHANGED <<opt_sync, key, lock, loop, created, joined, exit>>
         /\ LP!ListStep(t) /\ OnlyMoves(t) /\ LP!Tied' /\ \A u \in Threads : LP!Known(u)'
         /\ Inside(t) /\ Inside(t)' /\ pc[t] # "ret"
         /\ \/ pc[t] \in LP!InsertLabels /\ pc'[t] \in LP!InsertLabels \cup {"ret"}
            \/ pc[t] \in LP!LookupLabels /\ pc'[t] \in LP!LookupLabels \cup {"ret"}
            \/ pc[t] \in LP!DeleteLabels /\ pc'[t] \in LP!DeleteLabels \cup {"ret"}
            \/ pc[t] \in LP!LengthLabels /\ pc'[t] \in LP!LengthLabels \cup {"ret"}
<1>1. /\ UNCHANGED <<opt_sync, key, lock, loop, created, joined, exit>> /\ LP!ListStep(t)
      /\ pc[t] \in SL!Labels
  BY SameFunctions DEF Call, SL!ListStep
<1>2. LP!Tied' /\ LP!OthersKeep(t) /\ \A u \in Threads : LP!Known(u)'
  BY <1>1, LP!StepKeepsLead DEF Inv
<1>3. \/ pc[t] \in LP!InsertLabels /\ pc'[t] \in LP!InsertLabels \cup {"ret"}
      \/ pc[t] \in LP!LookupLabels /\ pc'[t] \in LP!LookupLabels \cup {"ret"}
      \/ pc[t] \in LP!DeleteLabels /\ pc'[t] \in LP!DeleteLabels \cup {"ret"}
      \/ pc[t] \in LP!LengthLabels /\ pc'[t] \in LP!LengthLabels \cup {"ret"}
  BY <1>1, LP!StaysInFunction DEF Inv, LP!Tied
<1>4. Inside(t) /\ Inside(t)' /\ pc[t] # "ret"
  BY <1>1, <1>3, LabelsOfCalls DEF Inside
<1>5. OnlyMoves(t)
  BY <1>1, <1>2 DEF OnlyMoves, Still, LP!OthersKeep
<1> QED BY <1>1, <1>2, <1>3, <1>4, <1>5

(* What a lookup has returned goes to delete.                               *)
LEMMA DeleteIs ==
  ASSUME Inv, NEW t \in Workers, DeleteFound(t)
  PROVE  /\ UNCHANGED <<opt_sync, next, prev, key, lock, created, joined, exit>>
         /\ OnlyMoves(t) /\ LP!Registers' /\ LP!Known(t)' /\ LP!CallDelete(t, reg[t].ptr)
         /\ Inside(t) /\ Inside(t)' /\ pc[t] = "ret" /\ pc'[t] = "del_prev"
         /\ loop[t].phase = "lookup" /\ AtTurn(t)
         /\ loop' = [loop EXCEPT ![t] = [phase |-> "delete", i |-> loop[t].i]]
<1>1. /\ UNCHANGED <<opt_sync, next, prev, key, lock, created, joined, exit>>
      /\ pc[t] = "ret" /\ loop[t].phase = "lookup" /\ LP!CallDelete(t, reg[t].ptr)
      /\ loop' = [loop EXCEPT ![t].phase = "delete"]
  BY SameCalls DEF DeleteFound, At
<1>2. t \in Threads /\ Inside(t) /\ AtTurn(t)
  BY <1>1, LabelsOfCalls, ThreadsAre DEF Inside, Inv, Consistent
<1>3. loop' = [loop EXCEPT ![t] = [phase |-> "delete", i |-> loop[t].i]]
  <2>1. loop[t] \in Turns
    BY DEF Inv, Types
  <2>2. [loop[t] EXCEPT !.phase = "delete"] = [phase |-> "delete", i |-> loop[t].i]
    BY <2>1 DEF Turns
  <2> QED BY <1>1, <2>2
<1>4. LP!Tied /\ reg[t].ptr \in LP!Nodes \cup {NULL}
  BY <1>2 DEF Inv, LP!Known, LP!Lead
<1>5. /\ LP!Registers' /\ LP!OthersKeep(t) /\ pc'[t] = "del_prev"
      /\ reg'[t].list = NULL /\ reg'[t].element = reg[t].ptr
      /\ reg'[t].ptr = NULL /\ reg'[t].prev = NULL /\ reg'[t].next = NULL
  BY <1>1, <1>2, <1>4, LP!Calls DEF LP!Tied
<1>6. LP!Known(t)'
  BY <1>4, <1>5 DEF LP!Known, LP!Lead, LP!Nodes, LP!InsertLabels, LP!LookupLabels,
                    LP!DeleteLabels, LP!LengthLabels
<1>7. OnlyMoves(t)
  BY <1>3, <1>5 DEF OnlyMoves, Still, LP!OthersKeep, Inv, Types
<1>8. Inside(t)'
  BY <1>5 DEF Inside, InCall, SL!Labels
<1> QED BY <1>1, <1>2, <1>3, <1>5, <1>6, <1>7, <1>8

(* A turn that begins: how many inserts and deletes are behind.             *)
LEMMA TurnsAre ==
  ASSUME NEW n \in 0..niteratns, NEW place
  PROVE  /\ place = AfterInsert(n) =>
              /\ place \in Turns /\ place.phase \in {"insert", "length"}
              /\ place.phase = "insert" => place.i = n /\ n \in 0..(niteratns - 1)
              /\ place.phase = "length" => n = niteratns
         /\ place = AfterDelete(n) =>
              /\ place \in Turns /\ place.phase \in {"lookup", "returned"}
              /\ place.phase = "lookup" => place.i = n /\ n \in 0..(niteratns - 1)
              /\ place.phase = "returned" => n = niteratns
<1>1. niteratns \in Nat /\ n \in Nat /\ n <= niteratns
  BY IterationsAssumption
<1>2. ASSUME n < niteratns
      PROVE  n \in 0..(niteratns - 1)
  BY <1>1, <1>2
<1>3. CASE n < niteratns
  BY <1>1, <1>2, <1>3 DEF AfterInsert, AfterDelete, Turns
<1>4. CASE n = niteratns
  BY <1>1, <1>4 DEF AfterInsert, AfterDelete, Turns
<1> QED BY <1>1, <1>3, <1>4

(* The way out of a call: unlock_general() and the next turn.               *)
LEMMA UnlockIs ==
  ASSUME Inv, NEW t \in Workers, UnlockGeneral(t)
  PROVE  /\ UNCHANGED <<opt_sync, next, prev, key, created, joined, exit>> /\ Release
         /\ OnlyMoves(t) /\ LP!Registers' /\ reg'[t] = SL!Idle
         /\ Inside(t) /\ ~Inside(t)' /\ pc[t] = "ret" /\ AtTurn(t)
         /\ loop' \in [Workers -> Turns]
         /\ \/ loop[t].phase = "insert" /\ loop'[t] = AfterInsert(loop[t].i + 1)
            \/ loop[t].phase = "length" /\ loop'[t] = AfterDelete(0)
            \/ loop[t].phase = "delete" /\ loop'[t] = AfterDelete(loop[t].i + 1)
         /\ pc'[t] = Label(loop'[t])
         /\ \E n \in 0..niteratns : loop'[t] = AfterInsert(n) \/ loop'[t] = AfterDelete(n)
<1>1. /\ UNCHANGED <<opt_sync, next, prev, key, created, joined, exit>> /\ Release
      /\ pc[t] = "ret" /\ reg' = [reg EXCEPT ![t] = SL!Idle]
  BY DEF UnlockGeneral, At
<1>2. t \in Threads /\ Inside(t) /\ AtTurn(t)
  BY <1>1, LabelsOfCalls, ThreadsAre DEF Inside, Inv, Consistent
<1>3. PICK place : /\ loop' = [loop EXCEPT ![t] = place]
                   /\ \/ loop[t].phase = "insert" /\ place = AfterInsert(loop[t].i + 1)
                      \/ loop[t].phase = "length" /\ place = AfterDelete(0)
                      \/ loop[t].phase = "delete" /\ place = AfterDelete(loop[t].i + 1)
  BY DEF UnlockGeneral
<1>4. 0 \in 0..niteratns /\ loop[t].phase \in {"insert", "delete"} => loop[t].i + 1 \in 0..niteratns
  BY <1>2, ThreadsAre DEF AtTurn
<1>5. /\ place \in Turns /\ place.phase \in {"insert", "length", "lookup", "returned"}
      /\ loop[t].phase = "insert" => place.phase \in {"insert", "length"}
  <2>1. 0 \in 0..niteratns
    BY ThreadsAre
  <2> QED BY <1>3, <1>4, <2>1, TurnsAre
<1>6. loop'[t] = place /\ loop' \in [Workers -> Turns]
  BY <1>3, <1>5 DEF Inv, Types
<1>7. pc' = [pc EXCEPT ![t] = Label(place)]
  BY <1>6 DEF UnlockGeneral
<1>8. pc'[t] = Label(place) /\ LP!Registers' /\ reg'[t] = SL!Idle
  BY <1>1, <1>2, <1>7 DEF Inv, LP!Tied, LP!Registers, SL!Idle
<1>9. ~Inside(t)'
  BY <1>8, LabelsOfCalls DEF Inside, Label
<1>10. OnlyMoves(t)
  BY <1>1, <1>2, <1>3, <1>7 DEF OnlyMoves, Still, Inv, Types, LP!Tied, LP!Registers
<1>11. \E n \in 0..niteratns : place = AfterInsert(n) \/ place = AfterDelete(n)
  <2>1. 0 \in 0..niteratns
    BY ThreadsAre
  <2> QED BY <1>3, <1>4, <2>1
<1> QED BY <1>1, <1>2, <1>3, <1>6, <1>8, <1>9, <1>10, <1>11

-----------------------------------------------------------------------------
(* Every step keeps the invariant, and with the lock the exclusion.         *)

(* Links and others as they were, and the mover knows what it must.         *)
LEMMA KnownKept ==
  ASSUME Inv, NEW t \in Threads, UNCHANGED <<next, prev>>, OnlyMoves(t), LP!Registers', LP!Known(t)'
  PROVE  LP!Tied' /\ \A u \in Threads : LP!Known(u)'
<1>1. LP!Tied'
  BY DEF Inv, LP!Tied, LP!LinksLead, LP!Nodes
<1>2. ASSUME NEW u \in Threads, u # t
      PROVE  LP!Known(u)'
  BY <1>2 DEF Inv, OnlyMoves, Still, LP!Known, LP!Lead, LP!Nodes, LP!InsertLabels,
              LP!LookupLabels, LP!DeleteLabels, LP!LengthLabels
<1> QED BY <1>1, <1>2

(* Outside of the functions nothing need be known.                          *)
LEMMA KnownOutside ==
  ASSUME Inv, NEW t \in Threads, UNCHANGED <<next, prev>>,
         reg'[t] = reg[t] \/ reg'[t] = SL!Idle, pc'[t] \notin SL!Labels
  PROVE  LP!Known(t)'
<1>1. pc'[t] \notin LP!InsertLabels \cup LP!LookupLabels \cup LP!DeleteLabels \cup LP!LengthLabels
  BY LabelsOfCalls
<1>2. LP!Lead(reg[t])
  BY DEF Inv, LP!Known
<1>3. LP!Lead(reg'[t])
  BY <1>2 DEF LP!Lead, SL!Idle
<1> QED BY <1>1, <1>3 DEF LP!Known, LP!Lead, LP!DeleteLabels, LP!Nodes

(* A worker's step keeps what is known of the other workers and of main.    *)
LEMMA WorkerKeepsInv ==
  ASSUME Inv, NEW t \in Workers, OnlyMoves(t), key' = key, UNCHANGED <<created, joined>>,
         LP!Tied', \A u \in Threads : LP!Known(u)', loop' \in [Workers -> Turns], Consistent(t)',
         pc[t] \notin {"unborn", "returned"}
  PROVE  Inv'
<1>1. Types'
  BY DEF Inv, Types, Elems, nelements
<1>2. ASSUME NEW u \in Workers
      PROVE  Consistent(u)' /\ (u # t => pc'[u] = pc[u])
  <2>1. CASE u = t
    BY <2>1
  <2>2. CASE u # t
    BY <2>2, ThreadsAre DEF OnlyMoves, Still, Inv, Consistent, AtTurn, InItsFunction
  <2> QED BY <2>1, <2>2
<1>3. pc'[Main] = pc[Main]
  BY ThreadsAre DEF OnlyMoves, Still
<1>4. MainOrder'
  BY <1>2, <1>3 DEF Inv, MainOrder
<1> QED BY <1>1, <1>2, <1>4 DEF Inv

LEMMA InCallConsistent ==
  ASSUME NEW t, Inside(t)', AtTurn(t)', InItsFunction(t)'
  PROVE  Consistent(t)'
BY DEF Consistent, Inside

(* The threads, the list and main's counters stay as they are.              *)
LEMMA NothingKeepsInv ==
  ASSUME Inv, UNCHANGED <<listVars, loop, created, joined>>
  PROVE  Inv'
<1>1. UNCHANGED <<next, prev, key, pc, reg, loop, created, joined>>
  BY DEF listVars
<1>2. Types' /\ LP!Tied'
  BY <1>1 DEF Inv, Types, LP!Tied, LP!Registers, LP!LinksLead, LP!Nodes, Elems, nelements
<1>3. \A t \in Threads : LP!Known(t)'
  BY <1>1 DEF Inv, LP!Known, LP!Lead, LP!InsertLabels, LP!LookupLabels, LP!DeleteLabels,
              LP!LengthLabels, LP!Nodes
<1>4. (\A t \in Workers : Consistent(t)') /\ MainOrder'
  BY <1>1 DEF Inv, Consistent, AtTurn, InItsFunction, MainOrder
<1> QED BY <1>2, <1>3, <1>4 DEF Inv

LEMMA StepOfWorker ==
  ASSUME Inv, NEW t \in Workers, WorkerStep(t)
  PROVE  Inv'
<1>0. t \in Threads
  BY ThreadsAre
<1>1. CASE LockGeneral(t)
  <2>1. /\ UNCHANGED <<next, prev, key, loop, created, joined>> /\ OnlyMoves(t) /\ LP!Registers'
        /\ LP!Known(t)' /\ Inside(t)' /\ pc[t] = "lock" /\ AtTurn(t)
    BY <1>1, LockIs
  <2>2. LP!Tied' /\ \A u \in Threads : LP!Known(u)'
    BY <1>0, <2>1, KnownKept
  <2>3. AtTurn(t)' /\ InItsFunction(t)'
    <3>1. AtTurn(t)'
      BY <2>1 DEF AtTurn
    <3>2. \/ loop[t].phase = "insert" /\ pc'[t] = "ins_first"
          \/ loop[t].phase = "length" /\ pc'[t] = "len_head1"
          \/ loop[t].phase = "lookup" /\ pc'[t] = "look_first"
      BY <1>1, LockIs
    <3> QED BY <2>1, <3>1, <3>2 DEF InItsFunction, LP!InsertLabels, LP!LookupLabels,
                                    LP!DeleteLabels, LP!LengthLabels
  <2>4. Consistent(t)'
    BY <2>1, <2>3, InCallConsistent
  <2>5. loop' \in [Workers -> Turns]
    BY <2>1 DEF Inv, Types
  <2> QED BY <2>1, <2>2, <2>4, <2>5, WorkerKeepsInv
<1>2. CASE Call(t)
  <2>1. /\ UNCHANGED <<key, loop, created, joined>> /\ OnlyMoves(t) /\ Inside(t) /\ Inside(t)'
        /\ LP!Tied' /\ \A u \in Threads : LP!Known(u)'
    BY <1>0, <1>2, CallIs
  <2>2. AtTurn(t) /\ InItsFunction(t) /\ pc[t] \notin {"unborn", "returned"}
    BY <2>1, LabelsOfCalls DEF Inv, Consistent, Inside
  <2>3. AtTurn(t)'
    BY <2>1, <2>2 DEF AtTurn
  <2>4. InItsFunction(t)'
    <3>1. \/ pc[t] \in LP!InsertLabels /\ pc'[t] \in LP!InsertLabels \cup {"ret"}
          \/ pc[t] \in LP!LookupLabels /\ pc'[t] \in LP!LookupLabels \cup {"ret"}
          \/ pc[t] \in LP!DeleteLabels /\ pc'[t] \in LP!DeleteLabels \cup {"ret"}
          \/ pc[t] \in LP!LengthLabels /\ pc'[t] \in LP!LengthLabels \cup {"ret"}
      BY <1>0, <1>2, CallIs
    <3> QED BY <2>1, <2>2, <3>1 DEF InItsFunction, LP!InsertLabels, LP!LookupLabels,
                                    LP!DeleteLabels, LP!LengthLabels
  <2>5. Consistent(t)'
    BY <2>1, <2>3, <2>4, InCallConsistent
  <2>6. loop' \in [Workers -> Turns]
    BY <2>1 DEF Inv, Types
  <2> QED BY <2>1, <2>2, <2>5, <2>6, WorkerKeepsInv
<1>3. CASE DeleteFound(t)
  <2>1. /\ UNCHANGED <<next, prev, key, created, joined>> /\ OnlyMoves(t) /\ LP!Registers'
        /\ LP!Known(t)' /\ Inside(t)' /\ pc[t] = "ret" /\ pc'[t] = "del_prev" /\ AtTurn(t)
        /\ loop[t].phase = "lookup"
        /\ loop' = [loop EXCEPT ![t] = [phase |-> "delete", i |-> loop[t].i]]
    BY <1>3, DeleteIs
  <2>2. LP!Tied' /\ \A u \in Threads : LP!Known(u)'
    BY <1>0, <2>1, KnownKept
  <2>3. loop' \in [Workers -> Turns] /\ loop'[t] = [phase |-> "delete", i |-> loop[t].i]
    BY <2>1 DEF Inv, Types, Turns
  <2>4. AtTurn(t)' /\ InItsFunction(t)'
    BY <2>1, <2>3 DEF AtTurn, InItsFunction, LP!InsertLabels, LP!LookupLabels,
                      LP!DeleteLabels, LP!LengthLabels
  <2>5. Consistent(t)'
    BY <2>1, <2>4, InCallConsistent
  <2> QED BY <2>1, <2>2, <2>3, <2>5, WorkerKeepsInv
<1>4. CASE UnlockGeneral(t)
  <2>1. /\ UNCHANGED <<next, prev, key, created, joined>> /\ OnlyMoves(t) /\ LP!Registers'
        /\ reg'[t] = SL!Idle /\ ~Inside(t)' /\ pc[t] = "ret" /\ AtTurn(t)
        /\ loop' \in [Workers -> Turns]
    BY <1>4, UnlockIs
  <2>2. LP!Known(t)'
    BY <1>0, <2>1, KnownOutside DEF Inside, InCall
  <2>3. LP!Tied' /\ \A u \in Threads : LP!Known(u)'
    BY <1>0, <2>1, <2>2, KnownKept
  <2>4. Consistent(t)'
    <3>1. PICK n \in 0..niteratns : loop'[t] = AfterInsert(n) \/ loop'[t] = AfterDelete(n)
      BY <1>4, UnlockIs
    <3> PICK place : place = loop'[t]
      OBVIOUS
    <3>5. pc'[t] = Label(place)
      BY <1>4, UnlockIs
    <3>2. /\ place.phase \in {"insert", "length", "lookup", "returned"}
          /\ place.phase \in {"insert", "lookup"} => place.i \in 0..(niteratns - 1)
      BY <3>1, TurnsAre
    <3>3. CASE place.phase = "returned"
      BY <3>5, <3>3 DEF Consistent, Label
    <3>4. CASE place.phase # "returned"
      BY <3>5, <3>2, <3>4 DEF Consistent, Label, AtTurn, InItsFunction, LP!InsertLabels,
                              LP!LookupLabels, LP!DeleteLabels, LP!LengthLabels
    <3> QED BY <3>3, <3>4
  <2> QED BY <2>1, <2>3, <2>4, WorkerKeepsInv
<1>5. CASE ReportCorruption(t) \/ sigsegv_handler(t)
  <2>1. UNCHANGED <<listVars, loop, created, joined>>
    BY <1>5 DEF ReportCorruption, sigsegv_handler
  <2> QED BY <2>1, NothingKeepsInv
<1> QED BY <1>1, <1>2, <1>3, <1>4, <1>5 DEF WorkerStep

LEMMA StepOfMain ==
  ASSUME Inv, MainStep \/ HandleError
  PROVE  Inv' /\ opt_sync' = opt_sync /\ lock' = lock /\ key' = key
         /\ \A t \in Workers : Inside(t)' <=> Inside(t)
<1>0. /\ DOMAIN pc = Threads /\ DOMAIN reg = Threads /\ created \in 0..nthreads
      /\ joined \in 0..nthreads /\ \A t \in Workers : t \in 1..nthreads
  BY DEF Inv, Types, LP!Tied, LP!Registers, Workers
<1>1. CASE CreateThread
  <2>1. PICK t : t = created + 1
    OBVIOUS
  <2>2. /\ UNCHANGED <<opt_sync, next, prev, key, reg, lock, joined, exit>> /\ t \in Workers
        /\ created' = t /\ loop' = [loop EXCEPT ![t] = AfterInsert(0)]
        /\ pc' = [pc EXCEPT ![t] = "lock"] /\ pc[Main] = "main" /\ joined = 0
    BY <1>0, <1>1, <2>1, ThreadsAre DEF CreateThread, At, Workers, Inv, MainOrder
  <2>3. pc[t] = "unborn" /\ t \in Threads /\ pc'[t] = "lock"
    BY <1>0, <2>1, <2>2, ThreadsAre DEF Inv, MainOrder
  <2>4. /\ AfterInsert(0) \in Turns /\ AfterInsert(0).phase \in {"insert", "length"}
        /\ AfterInsert(0).phase = "insert" => AfterInsert(0).i \in 0..(niteratns - 1)
    <3>1. 0 \in 0..niteratns
      BY ThreadsAre
    <3> QED BY <3>1, TurnsAre
  <2>5. loop'[t] = AfterInsert(0) /\ loop' \in [Workers -> Turns] /\ OnlyMoves(t)
    BY <1>0, <2>2, <2>3, <2>4 DEF Inv, Types, OnlyMoves, Still
  <2>6. Types'
    BY <1>0, <2>1, <2>2, <2>5, ThreadsAre DEF Inv, Types, Workers, Elems, nelements
  <2>7. LP!Tied' /\ \A u \in Threads : LP!Known(u)'
    <3>1. LP!Registers'
      BY <1>0, <2>2 DEF Inv, LP!Tied, LP!Registers
    <3>2. LP!Known(t)'
      BY <2>2, <2>3, KnownOutside, LabelsOfCalls
    <3> QED BY <2>2, <2>3, <2>5, <3>1, <3>2, KnownKept
  <2>8. Consistent(t)'
    BY <2>3, <2>4, <2>5 DEF Consistent, AtTurn, InItsFunction, LP!InsertLabels, LP!LookupLabels,
                              LP!DeleteLabels, LP!LengthLabels
  <2>9. ASSUME NEW u \in Workers, u # t
        PROVE  Consistent(u)' /\ pc'[u] = pc[u]
    BY <2>5, <2>9, ThreadsAre DEF OnlyMoves, Still, Inv, Consistent, AtTurn, InItsFunction
  <2>10. MainOrder'
    BY <1>0, <2>1, <2>2, <2>3, <2>9, ThreadsAre DEF Inv, MainOrder
  <2>11. ~Inside(t) /\ ~Inside(t)'
    BY <2>3, LabelsOfCalls DEF Inside
  <2> QED BY <2>2, <2>6, <2>7, <2>8, <2>9, <2>10, <2>11 DEF Inv, Inside
<1>2. CASE JoinThread
  <2>1. /\ UNCHANGED <<opt_sync, next, prev, key, pc, reg, lock, loop, created>>
        /\ joined' = joined + 1 /\ joined < nthreads /\ created = nthreads
        /\ pc[joined + 1] = "returned" /\ pc[Main] = "main"
    BY <1>2 DEF JoinThread, At, listVars
  <2>2. Types' /\ LP!Tied'
    BY <1>0, <2>1, ThreadsAre DEF Inv, Types, LP!Tied, LP!Registers, LP!LinksLead, LP!Nodes,
                              Elems, nelements
  <2>3. \A t \in Threads : LP!Known(t)'
    BY <2>1 DEF Inv, LP!Known, LP!Lead, LP!InsertLabels, LP!LookupLabels, LP!DeleteLabels,
                LP!LengthLabels, LP!Nodes
  <2>4. \A t \in Workers : Consistent(t)'
    BY <2>1 DEF Inv, Consistent, AtTurn, InItsFunction
  <2>5. MainOrder'
    <3>1. \A t \in Workers : t <= joined + 1 => t <= joined \/ t = joined + 1
      BY <1>0
    <3> QED BY <2>1, <3>1 DEF Inv, MainOrder
  <2> QED BY <2>1, <2>2, <2>3, <2>4, <2>5 DEF Inv, Inside
<1>3. ASSUME UNCHANGED <<opt_sync, lock, key, loop, created, joined>>, OnlyMoves(Main),
             LP!Tied', \A u \in Threads : LP!Known(u)', joined = nthreads,
             pc'[Main] \in {"main", "ret"} \cup LP!LengthLabels
      PROVE  Inv' /\ \A t \in Workers : Inside(t)' <=> Inside(t)
  <2>1. Types'
    BY <1>3 DEF Inv, Types, Elems, nelements
  <2>2. ASSUME NEW u \in Workers
        PROVE  Consistent(u)' /\ pc'[u] = pc[u]
    BY <1>3, <2>2, ThreadsAre DEF OnlyMoves, Still, Inv, Consistent, AtTurn, InItsFunction
  <2>3. MainOrder'
    BY <1>3, <2>2 DEF Inv, MainOrder
  <2> QED BY <1>3, <2>1, <2>2, <2>3 DEF Inv, Inside
<1>4. CASE MainLength
  <2>1. /\ UNCHANGED <<opt_sync, next, prev, key, lock, loop, created, joined>>
        /\ LP!CallLength(Main, head) /\ joined = nthreads
    BY <1>4, SameCalls DEF MainLength, At
  <2>2. pc'[Main] = "len_head1" /\ LP!OthersKeep(Main)
    BY <2>1, ThreadsAre, LP!Calls DEF Inv, LP!Tied
  <2>3. LP!Registers' /\ LP!Known(Main)'
    <3>1. LP!Tied /\ NULL \in LP!Nodes \cup {NULL} /\ head \in {head}
      BY DEF Inv
    <3> QED BY <2>1, <3>1, ThreadsAre, LP!CallsKnown
  <2>4. OnlyMoves(Main)
    BY <2>1, <2>2 DEF OnlyMoves, Still, LP!OthersKeep
  <2>5. LP!Tied' /\ \A u \in Threads : LP!Known(u)'
    BY <2>1, <2>3, <2>4, ThreadsAre, KnownKept
  <2> QED BY <1>3, <2>1, <2>2, <2>4, <2>5 DEF LP!LengthLabels
<1>5. CASE Call(Main)
  <2>1. /\ UNCHANGED <<opt_sync, key, lock, loop, created, joined>> /\ OnlyMoves(Main)
        /\ LP!Tied' /\ (\A u \in Threads : LP!Known(u)') /\ Inside(Main) /\ pc[Main] # "ret"
    BY <1>5, ThreadsAre, CallIs
  <2>2. joined = nthreads /\ pc[Main] \in LP!LengthLabels
    BY <2>1, LabelsOfCalls DEF Inv, MainOrder, Inside
  <2>3. pc'[Main] \in LP!LengthLabels \cup {"ret"}
    BY <1>5, <2>2, ThreadsAre, CallIs DEF LP!InsertLabels, LP!LookupLabels,
                              LP!DeleteLabels, LP!LengthLabels
  <2> QED BY <1>3, <2>1, <2>2, <2>3
<1>6. CASE Verdict \/ HandleError
  <2>1. UNCHANGED <<opt_sync, listVars, lock, loop, created, joined>>
    BY <1>6 DEF Verdict, HandleError
  <2> QED BY <2>1, NothingKeepsInv DEF listVars, Inside
<1> QED BY <1>1, <1>2, <1>4, <1>5, <1>6 DEF MainStep

LEMMA ModeIsFixed == [Next]_vars => opt_sync' = opt_sync /\ (Synchronised' <=> Synchronised)
BY DEF Next, WorkerStep, MainStep, LockGeneral, Call, DeleteFound, UnlockGeneral,
       ReportCorruption, sigsegv_handler, CreateThread, JoinThread, MainLength, Verdict,
       HandleError, Terminated, vars, Synchronised

LEMMA KeyIsFixed == [Next]_vars => key' = key
<1>1. ASSUME NEW t, Call(t) PROVE key' = key
  BY <1>1 DEF Call, SL!ListStep, SL!InsertFirst, SL!InsertScan, SL!InsertLink,
     SL!LookupFirst, SL!LookupScan, SL!DeleteLoad, SL!DeleteCheck, SL!DeleteLink, SL!LengthHead,
     SL!LengthElement, SL!Load, SL!Return, SL!Test, SL!Corrupted
<1> QED BY <1>1 DEF Next, WorkerStep, MainStep, LockGeneral, DeleteFound, UnlockGeneral,
       ReportCorruption, sigsegv_handler, CreateThread, JoinThread, MainLength, Verdict,
       HandleError, Terminated, vars, listVars

(* A worker's step, as far as the lock goes.                                *)
LEMMA ExclusionOfWorker ==
  ASSUME Inv, Exclusion, Synchronised, NEW t \in Workers, WorkerStep(t)
  PROVE  \A u \in Workers : Inside(u)' => lock' = 1 /\ \A v \in Workers : Inside(v)' => v = u
<1>0. \A u \in Workers : u \in Threads
  BY ThreadsAre
<1>1. ASSUME OnlyMoves(t), NEW u \in Workers, u # t
      PROVE  Inside(u)' <=> Inside(u)
  BY <1>0, <1>1 DEF OnlyMoves, Still, Inside
<1>2. CASE LockGeneral(t)
  <2>1. OnlyMoves(t) /\ lock = 0 /\ lock' = 1
    BY <1>2, LockIs
  <2>2. \A u \in Workers : ~Inside(u)
    BY <2>1 DEF Exclusion
  <2> QED BY <1>1, <2>1, <2>2
<1>3. CASE Call(t)
  <2>1. OnlyMoves(t) /\ Inside(t) /\ lock' = lock
    BY <1>0, <1>3, CallIs
  <2> QED BY <1>1, <2>1 DEF Exclusion
<1>4. CASE DeleteFound(t)
  <2>1. OnlyMoves(t) /\ Inside(t) /\ lock' = lock
    BY <1>4, DeleteIs
  <2> QED BY <1>1, <2>1 DEF Exclusion
<1>5. CASE UnlockGeneral(t)
  <2>1. OnlyMoves(t) /\ Inside(t) /\ ~Inside(t)'
    BY <1>5, UnlockIs
  <2> QED BY <1>1, <2>1 DEF Exclusion
<1>6. CASE ReportCorruption(t) \/ sigsegv_handler(t)
  BY <1>6 DEF ReportCorruption, sigsegv_handler, listVars, Inside, Exclusion
<1> QED BY <1>2, <1>3, <1>4, <1>5, <1>6 DEF WorkerStep

LEMMA StepInv == Inv /\ Exclusion /\ [Next]_vars => Inv' /\ Exclusion'
<1> SUFFICES ASSUME Inv, Exclusion, [Next]_vars
             PROVE  Inv' /\ Exclusion'
  OBVIOUS
<1>0. Synchronised' <=> Synchronised
  BY ModeIsFixed
<1>1. ASSUME NEW t \in Workers, WorkerStep(t)
      PROVE  Inv' /\ Exclusion'
  BY <1>0, <1>1, StepOfWorker, ExclusionOfWorker DEF Exclusion
<1>2. CASE MainStep \/ HandleError
  BY <1>0, <1>2, StepOfMain DEF Exclusion
<1>3. CASE UNCHANGED vars
  <2>1. UNCHANGED <<listVars, loop, created, joined>> /\ lock' = lock
    BY <1>3 DEF vars
  <2>2. Exclusion'
    BY <1>0, <2>1 DEF Exclusion, Inside, listVars
  <2> QED BY <2>1, <2>2, NothingKeepsInv
<1> QED BY <1>1, <1>2, <1>3 DEF Next, Terminated


-----------------------------------------------------------------------------
(* The elements and their owners, and the list they are on.                 *)

LEMMA OwnerOfMine ==
  ASSUME NEW t \in Workers, NEW i \in 0..(niteratns - 1)
  PROVE  Owner(Mine(t, i)) = <<t, i>> /\ <<t, i>> \in Owned
<1>1. niteratns \in Nat /\ t \in Nat /\ t - 1 \in Nat /\ t = (t - 1) + 1 /\ i \in Nat
      /\ i < niteratns
  BY IterationsAssumption, ThreadsAssumption DEF Workers
<1>2. \A n \in Nat, q \in Nat : i < n => (q * n + i) \div n = q /\ (q * n + i) % n = i
  BY <1>1
<1>3. /\ ((t - 1) * niteratns + i) \div niteratns = t - 1
      /\ ((t - 1) * niteratns + i) % niteratns = i
  BY <1>1, <1>2
<1> QED BY <1>1, <1>3 DEF Owner, Mine, Element, Owned

LEMMA MineOfOwner ==
  ASSUME NEW e \in Elems
  PROVE  Owner(e) \in Owned /\ Mine(Owner(e)[1], Owner(e)[2]) = e
<1>1. PICK k \in 0..(nelements - 1) : e = <<"element", k>>
  BY DEF Elems, Element
<1>2. /\ niteratns \in Nat /\ nthreads \in Nat /\ k \in Nat /\ k < nthreads * niteratns
      /\ niteratns > 0
  BY <1>1, ThreadsAssumption, IterationsAssumption DEF nelements
<1> DEFINE q == k \div niteratns
           r == k % niteratns
<1>3. q \in Nat /\ r \in 0..(niteratns - 1) /\ k = q * niteratns + r
  BY <1>2
<1>4. q < nthreads
  <2> SUFFICES ASSUME q >= nthreads
               PROVE  FALSE
    BY <1>2, <1>3
  <2>1. q * niteratns >= nthreads * niteratns
    BY <1>2, <1>3
  <2> HIDE DEF q, r
  <2> QED BY <1>2, <1>3, <2>1
<1>5. Owner(e) = <<q + 1, r>>
  BY <1>1 DEF Owner
<1> HIDE DEF q, r
<1>6. (q + 1) - 1 = q /\ q + 1 \in Workers
  BY <1>2, <1>3, <1>4 DEF Workers
<1>7. Mine(q + 1, r) = e
  BY <1>1, <1>3, <1>6 DEF Mine, Element
<1> QED BY <1>3, <1>5, <1>6, <1>7 DEF Owned

LEMMA OwnerInjective ==
  ASSUME NEW e \in Elems, NEW f \in Elems, Owner(e) = Owner(f)
  PROVE  e = f
BY MineOfOwner

LEMMA ElementsAreFew ==
  LET rank == [e \in Elems |-> e[2] + 1]
  IN  /\ nelements \in Nat /\ \A e \in Elems : rank[e] \in 1..nelements
      /\ \A e, f \in Elems : rank[e] = rank[f] => e = f
<1>1. nelements \in Nat
  BY ThreadsAssumption, IterationsAssumption DEF nelements
<1>2. \A e \in Elems : e[2] \in 0..(nelements - 1) /\ e = <<"element", e[2]>>
  BY DEF Elems, Element
<1>3. \A e, f \in Elems : e[2] + 1 = f[2] + 1 => e = f
  <2> SUFFICES ASSUME NEW e \in Elems, NEW f \in Elems, e[2] + 1 = f[2] + 1
               PROVE  e = f
    OBVIOUS
  <2>1. e[2] = f[2]
    BY <1>1, <1>2
  <2> QED BY <1>2, <2>1
<1> QED BY <1>1, <1>2, <1>3


(* The two instances agree on what the list is.                             *)
LEMMA SameLists ==
  /\ Members = LP!Members(head, nelements)
  /\ SL!Circular(head, nelements) <=> LP!Circular(head, nelements)
<1>1. Members = LP!Members(head, nelements)
  BY DEF Members, SL!Members, LP!Members
<1> QED BY <1>1 DEF Members, SL!Circular, LP!Circular

LEMMA ListIsSet ==
  ASSUME Inv
  PROVE  LP!Setting(head, Elems) /\ str \in Seq(Int) /\ \A e \in Elems : key[e] = str
<1>1. {head} \cap Elems = {}
  BY DEF Elems, head, Element
<1>2. str \in Seq(Int) /\ \A e \in Elems : key[e] = str
  BY DEF str, Inv, Types
<1> QED BY <1>1, <1>2 DEF LP!Setting, Inv

(* What the list's chain says of its Members.                               *)
LEMMA ChainMembers ==
  ASSUME Inv, NEW n, NEW c, LP!Chain(head, Elems, n, c)
  PROVE  /\ Members = LP!On(n, c) /\ Members \subseteq Elems
         /\ LP!Whole(n, c) => SL!Circular(head, nelements)
<1>1. LP!Setting(head, Elems)
  BY ListIsSet
<1>2. nelements \in Nat /\ n <= nelements
  BY <1>1, LP!ChainIsShort, ElementsAreFew
<1>3. Members = LP!On(n, c)
  BY <1>1, <1>2, LP!MembersAre, SameLists
<1>4. LP!On(n, c) \subseteq Elems
  BY DEF LP!On, LP!Chain
<1>5. LP!Whole(n, c) => LP!Circular(head, nelements)
  BY <1>1, <1>2, LP!WholeIsIntact
<1> QED BY <1>3, <1>4, <1>5, SameLists

(* What ChainMembers says, to be used of the state after a step.            *)
ChainFact == \A n, c : Inv /\ LP!Chain(head, Elems, n, c) =>
                         Members = LP!On(n, c) /\ Members \subseteq Elems

LEMMA ChainFactHolds == ChainFact
BY ChainMembers DEF ChainFact

LEMMA MembersAfter ==
  ASSUME NEW n, NEW c, Inv', LP!Chain(head, Elems, n, c)'
  PROVE  Members' = LP!On(n, c)
<1>1. ChainFact'
  BY ChainFactHolds, PTL
<1> QED BY <1>1 DEF ChainFact

-----------------------------------------------------------------------------
(* With the lock, the list is in order but for what the one thread inside   *)
(* has done so far, which the local invariants of Lists_proof say.     *)

(* The call a thread is inside of.                                          *)
Phase(t) == IF t = Main THEN "length" ELSE loop[t].phase
Mover(t) == Mine(t, loop[t].i)

Doing(t, n, c) ==
  /\ Phase(t) = "insert" => LP!InsertLocal(t, head, Elems, Mover(t), n, c)
  /\ Phase(t) = "length" => LP!LengthLocal(t, head, n, c)
  /\ Phase(t) = "lookup" => LP!LookupLocal(t, head, str, n, c)
  /\ Phase(t) = "delete" => \E y \in Elems : LP!DeleteLocal(t, y, n, c)

Holds(n, c) ==
  /\ LP!Chain(head, Elems, n, c)
  /\ \A t \in Threads : Inside(t) => Doing(t, n, c)
  /\ (\A t \in Threads : ~Inside(t)) => LP!Whole(n, c)

ListState == \E n, c : Holds(n, c)

LEMMA InsideIsAtWork ==
  ASSUME Inv, NEW t \in Threads, Inside(t)
  PROVE  /\ Phase(t) \in {"insert", "length", "lookup", "delete"}
         /\ t = Main => joined = nthreads /\ \A u \in Workers : pc[u] = "returned" /\ ~Inside(u)
         /\ t # Main => t \in Workers /\ Phase(t) = loop[t].phase /\ AtTurn(t) /\ InItsFunction(t)
<1>1. CASE t = Main
  <2>1. joined = nthreads
    BY <1>1, LabelsOfCalls DEF Inv, MainOrder, Inside
  <2>2. \A u \in Workers : pc[u] = "returned"
    BY <2>1, ThreadsAre DEF Inv, MainOrder, Workers
  <2> QED BY <1>1, <2>1, <2>2, LabelsOfCalls DEF Phase, Inside
<1>2. CASE t # Main
  <2>1. t \in Workers
    BY <1>2, ThreadsAre
  <2>2. AtTurn(t) /\ InItsFunction(t)
    BY <2>1, LabelsOfCalls DEF Inv, Consistent, Inside
  <2> QED BY <1>2, <2>1, <2>2 DEF Phase, AtTurn
<1> QED BY <1>1, <1>2

LEMMA AloneInside ==
  ASSUME Inv, Exclusion, Synchronised, NEW t \in Threads, NEW u \in Threads, Inside(t), Inside(u)
  PROVE  t = u
<1>1. CASE t = Main \/ u = Main
  BY <1>1, InsideIsAtWork, ThreadsAre
<1>2. CASE t # Main /\ u # Main
  BY <1>2, ThreadsAre DEF Exclusion
<1> QED BY <1>1, <1>2

(* Whoever does not move stays where it is.                                 *)
LEMMA StillStays ==
  ASSUME NEW u \in Threads, Still(u)
  PROVE  Inside(u)' = Inside(u) /\ Phase(u)' = Phase(u) /\ (u # Main => Mover(u)' = Mover(u))
BY ThreadsAre DEF Still, Inside, Phase, Mover

(* The thread that is alone inside leaves the list as it says.              *)
LEMMA ListHere ==
  ASSUME NEW t \in Threads, OnlyMoves(t), \A u \in Threads \ {t} : ~Inside(u),
         NEW n, NEW c, LP!Chain(head, Elems, n, c)', Inside(t)', Doing(t, n, c)'
  PROVE  ListState'
<1>1. ASSUME NEW u \in Threads \ {t} PROVE ~Inside(u)'
  BY StillStays DEF OnlyMoves
<1>2. Holds(n, c)'
  BY <1>1 DEF Holds
<1> QED BY <1>2 DEF ListState

(* A thread that moves outside, having been at most at the end of a call.   *)
LEMMA MovesOutside ==
  ASSUME Inv, Inv', NEW t \in Threads, OnlyMoves(t), next' = next, prev' = prev, key' = key,
         ListState, ~Inside(t)', Inside(t) => pc[t] = "ret"
  PROVE  ListState' /\ Members' = Members
<1>1. PICK n, c : Holds(n, c)
  BY DEF ListState
<1>2. LP!Setting(head, Elems) /\ LP!Chain(head, Elems, n, c)
  BY <1>1, ListIsSet DEF Holds
<1>3. LP!Chain(head, Elems, n, c)' /\ (LP!Whole(n, c) => LP!Whole(n, c)')
  BY <1>2, LP!Untouched
<1>4. ASSUME NEW u \in Threads \ {t}
      PROVE  Inside(u)' = Inside(u) /\ (Inside(u) /\ Doing(u, n, c) => Doing(u, n, c)')
  <2>1. Still(u) /\ pc'[u] = pc[u] /\ reg'[u] = reg[u]
    BY DEF OnlyMoves, Still
  <2>2. Inside(u)' = Inside(u) /\ Phase(u)' = Phase(u) /\ (u # Main => Mover(u)' = Mover(u))
    BY <2>1, StillStays
  <2>3. \A x, K : /\ LP!InsertLocal(u, head, Elems, x, n, c)
                       => LP!InsertLocal(u, head, Elems, x, n, c)'
                  /\ LP!LookupLocal(u, head, K, n, c) => LP!LookupLocal(u, head, K, n, c)'
                  /\ LP!DeleteLocal(u, x, n, c) => LP!DeleteLocal(u, x, n, c)'
                  /\ LP!LengthLocal(u, head, n, c) => LP!LengthLocal(u, head, n, c)'
    BY <1>2, <2>1, LP!LocalKept
  <2>4. PICK x : x = Mover(u)
    OBVIOUS
  <2>5. Phase(u) = "insert" => Mover(u)' = x
    BY <2>2, <2>4 DEF Phase
  <2>6. Doing(u, n, c) => Doing(u, n, c)'
    BY <2>2, <2>3, <2>4, <2>5 DEF Doing
  <2> QED BY <2>2, <2>6
<1>5. (\A u \in Threads : ~Inside(u)') => LP!Whole(n, c)
  <2>1. CASE Inside(t)
    <3>1. Doing(t, n, c) /\ Phase(t) \in {"insert", "length", "lookup", "delete"} /\ pc[t] = "ret"
      BY <1>1, <2>1, InsideIsAtWork DEF Holds
    <3>2. \A x, K : \/ LP!InsertLocal(t, head, Elems, x, n, c) \/ LP!LookupLocal(t, head, K, n, c)
                    \/ LP!DeleteLocal(t, x, n, c) \/ LP!LengthLocal(t, head, n, c)
                    => LP!Whole(n, c)
      BY <3>1, LP!ReturnsWhole
    <3> QED BY <3>1, <3>2 DEF Doing
  <2>2. CASE ~Inside(t)
    BY <1>1, <1>4, <2>2 DEF Holds
  <2> QED BY <2>1, <2>2
<1>6. Holds(n, c)'
  BY <1>1, <1>3, <1>4, <1>5 DEF Holds
<1>7. Members' = LP!On(n, c) /\ Members = LP!On(n, c)
  BY <1>2, <1>3, MembersAfter, ChainMembers
<1> QED BY <1>6, <1>7 DEF ListState

-----------------------------------------------------------------------------
(* The refinement mapping to AtomicList, and which of its steps a step here *)
(* is: an insert when the new element is linked in, a delete when the found *)
(* one is taken out, and nothing otherwise or without the lock.             *)

LEMMA KeyOfOwner ==
  ASSUME Inv, NEW x \in Owned
  PROVE  aKey[x] = str
<1>1. Mine(x[1], x[2]) \in Elems
  BY MineIsElement DEF Owned
<1> QED BY <1>1 DEF aKey, Inv, Types

SameDone(u) == InsertsDone(u)' = InsertsDone(u) /\ DeletesDone(u)' = DeletesDone(u)

LEMMA NothingHappens ==
  ASSUME key' = key, opt_sync' = opt_sync,
         Synchronised => Members' = Members /\ \A t \in Workers : SameDone(t)
  PROVE  UNCHANGED avars
<1>0. Synchronised' <=> Synchronised
  BY DEF Synchronised
<1>1. aMembers' = aMembers
  BY <1>0 DEF aMembers, Owner
<1>2. aInserted' = aInserted
  BY <1>0 DEF aInserted, SameDone
<1>3. aDeleted' = aDeleted
  BY <1>0 DEF aDeleted, SameDone
<1>4. aKey' = aKey
  BY DEF aKey
<1> QED BY <1>1, <1>2, <1>3, <1>4 DEF avars

LEMMA InsertHappens ==
  ASSUME key' = key, opt_sync' = opt_sync, Synchronised,
         NEW t \in Workers, NEW i \in 0..(niteratns - 1),
         Members' = Members \cup {Mine(t, i)}, InsertsDone(t) = i, InsertsDone(t)' = i + 1,
         \A u \in Workers \ {t} : InsertsDone(u)' = InsertsDone(u),
         \A u \in Workers : DeletesDone(u)' = DeletesDone(u)
  PROVE  LP!Insert(t)
<1>0. Synchronised'
  BY DEF Synchronised
<1>1. Owner(Mine(t, i)) = <<t, i>>
  BY OwnerOfMine
<1>2. aMembers' = aMembers \cup {<<t, aInserted[t]>>}
  <2>1. aMembers' = {Owner(e) : e \in Members'}
    BY <1>0 DEF aMembers, Owner
  <2>2. aInserted[t] = i
    BY DEF aInserted
  <2> QED BY <1>1, <2>1, <2>2 DEF aMembers
<1>3. aInserted' = [aInserted EXCEPT ![t] = aInserted[t] + 1] /\ aInserted[t] < niteratns
  <2> DEFINE old(u) == InsertsDone(u)
             new(u) == InsertsDone(u)'
  <2>1. aInserted = [u \in Workers |-> old(u)] /\ aInserted' = [u \in Workers |-> new(u)]
    BY <1>0 DEF aInserted
  <2>2. new(t) = old(t) + 1 /\ old(t) = i /\ \A u \in Workers \ {t} : new(u) = old(u)
    OBVIOUS
  <2>3. i < niteratns
    BY IterationsAssumption
  <2> HIDE DEF old, new
  <2> QED BY <2>1, <2>2, <2>3
<1>4. aDeleted' = aDeleted
  BY <1>0 DEF aDeleted
<1>5. aKey' = aKey
  BY DEF aKey
<1> QED BY <1>2, <1>3, <1>4, <1>5 DEF LP!Insert

LEMMA DeleteHappens ==
  ASSUME Inv, key' = key, opt_sync' = opt_sync, Synchronised,
         NEW t \in Workers, NEW i \in 0..(niteratns - 1), NEW y \in Members,
         Members \subseteq Elems, Members' = Members \ {y},
         DeletesDone(t) = i, DeletesDone(t)' = i + 1, InsertsDone(t) = niteratns,
         \A u \in Workers \ {t} : DeletesDone(u)' = DeletesDone(u),
         \A u \in Workers : InsertsDone(u)' = InsertsDone(u)
  PROVE  LP!Delete(t)
<1>0. Synchronised'
  BY DEF Synchronised
<1>1. Owner(y) \in aMembers /\ aKey[Owner(y)] = str
  BY MineOfOwner, KeyOfOwner DEF aMembers
<1>2. aKey[<<t, aDeleted[t]>>] = str
  <2>1. <<t, i>> \in Owned /\ aDeleted[t] = i
    BY OwnerOfMine DEF aDeleted
  <2> QED BY <2>1, KeyOfOwner
<1>3. aMembers' = aMembers \ {Owner(y)}
  <2>1. aMembers' = {Owner(e) : e \in Members'}
    BY <1>0 DEF aMembers, Owner
  <2>2. \A e \in Members : Owner(e) = Owner(y) => e = y
    BY OwnerInjective
  <2> QED BY <2>1, <2>2 DEF aMembers
<1>4. aDeleted' = [aDeleted EXCEPT ![t] = aDeleted[t] + 1] /\ aDeleted[t] < niteratns
      /\ aInserted[t] = niteratns
  <2> DEFINE old(u) == DeletesDone(u)
             new(u) == DeletesDone(u)'
  <2>1. aDeleted = [u \in Workers |-> old(u)] /\ aDeleted' = [u \in Workers |-> new(u)]
    BY <1>0 DEF aDeleted
  <2>2. new(t) = old(t) + 1 /\ old(t) = i /\ \A u \in Workers \ {t} : new(u) = old(u)
    OBVIOUS
  <2>3. i < niteratns
    BY IterationsAssumption
  <2>4. aInserted[t] = niteratns
    BY DEF aInserted
  <2> HIDE DEF old, new
  <2> QED BY <2>1, <2>2, <2>3, <2>4
<1>5. aInserted' = aInserted
  BY <1>0 DEF aInserted
<1>6. aKey' = aKey
  BY DEF aKey
<1> QED BY <1>1, <1>2, <1>3, <1>4, <1>5, <1>6 DEF LP!Delete

(* What a step of the atomic specification may be.                          *)
Happens == (\E t \in Workers : LP!Insert(t) \/ LP!Delete(t)) \/ UNCHANGED avars

LEMMA AtomicKept ==
  ASSUME LP!IInv, Happens
  PROVE  LP!IInv' /\ [LP!Next]_avars
<1>1. LP!Workers = Workers
  BY DEF LP!Workers, Workers
<1>2. [LP!Next]_avars /\ [LP!Next]_(LP!vars)
  BY <1>1 DEF Happens, LP!Next, avars, LP!vars
<1> QED BY <1>2, LP!StepIInv, ThreadsAssumption, IterationsAssumption

LEMMA SameSpecification ==
  /\ LP!Init => Atomic!Init
  /\ [LP!Next]_avars => [Atomic!Next]_(Atomic!vars)
<1>1. LP!Init => Atomic!Init
  BY DEF LP!Init, Atomic!Init, LP!Elements, Atomic!Elements, LP!Turns, Atomic!Turns,
         LP!Workers, Atomic!Workers, aKey, aMembers, aInserted, aDeleted
<1>2. avars' = avars => Atomic!vars' = Atomic!vars
  BY DEF avars, Atomic!vars, aKey, aMembers, aInserted, aDeleted
<1>3. LP!Next => Atomic!Next
  BY DEF LP!Next, Atomic!Next, LP!Insert, Atomic!Insert, LP!Delete, Atomic!Delete,
         LP!Workers, Atomic!Workers, aKey, aMembers, aInserted, aDeleted
<1> QED BY <1>1, <1>2, <1>3

-----------------------------------------------------------------------------
(* The list from call to call, with the lock.                               *)

(* What is known of a synchronised process.                                 *)
ListInv == ListState /\ LP!IInv

LEMMA DoneKept ==
  ASSUME NEW u \in Workers, Still(u)
  PROVE  SameDone(u)
BY DEF Still, InsertsDone, DeletesDone, SameDone

(* A thread that enters the list nobody is inside.                          *)
LEMMA EnterList ==
  ASSUME Inv, Inv', NEW t \in Threads, next' = next, prev' = prev, key' = key,
         t # Main => loop'[t] = loop[t], ListState, OnlyMoves(t),
         \A u \in Threads : ~Inside(u), Inside(t)',
         \/ Phase(t) = "insert" /\ LP!CallInsert(t, head, Mover(t)) /\ Mover(t) \in Elems \ Members
         \/ Phase(t) = "length" /\ LP!CallLength(t, head)
         \/ Phase(t) = "lookup" /\ LP!CallLookup(t, head, str)
  PROVE  ListState' /\ Members' = Members
<1>1. PICK n, c : Holds(n, c)
  BY DEF ListState
<1>2. PICK x : x = Mover(t)
  OBVIOUS
<1>3. /\ LP!Setting(head, Elems) /\ LP!Chain(head, Elems, n, c) /\ LP!Whole(n, c)
      /\ Members = LP!On(n, c)
  BY <1>1, ListIsSet, ChainMembers DEF Holds
<1>4. /\ LP!Chain(head, Elems, n, c)'
      /\ LP!CallInsert(t, head, x) /\ x \in Elems \ LP!On(n, c) =>
           LP!InsertLocal(t, head, Elems, x, n, c)'
      /\ LP!CallLookup(t, head, str) => LP!LookupLocal(t, head, str, n, c)'
      /\ LP!CallLength(t, head) => LP!LengthLocal(t, head, n, c)'
  BY <1>3, LP!CallsFindWhole
<1>5. Phase(t)' = Phase(t) /\ (t # Main => Mover(t)' = x)
  BY <1>2 DEF Phase, Mover
<1>6. Doing(t, n, c)'
  <2>1. CASE Phase(t) = "insert"
    <3>1. LP!InsertLocal(t, head, Elems, x, n, c)' /\ t # Main
      BY <1>2, <1>3, <1>4, <2>1 DEF Phase
    <3>2. Phase(t)' = "insert" /\ Mover(t)' = x
      BY <1>5, <2>1, <3>1
    <3> QED BY <3>1, <3>2 DEF Doing
  <2>2. CASE Phase(t) = "length"
    <3>1. LP!LengthLocal(t, head, n, c)' /\ Phase(t)' = "length"
      BY <1>4, <1>5, <2>2
    <3> QED BY <3>1 DEF Doing
  <2>3. CASE Phase(t) = "lookup"
    <3>1. LP!LookupLocal(t, head, str, n, c)' /\ Phase(t)' = "lookup"
      BY <1>4, <1>5, <2>3
    <3> QED BY <3>1 DEF Doing
  <2> QED BY <2>1, <2>2, <2>3
<1>7. ListState'
  BY <1>4, <1>6, ListHere
<1> QED BY <1>3, <1>4, <1>7, MembersAfter

(* One step of the thread that is alone inside.                             *)
LEMMA StepInList ==
  ASSUME Inv, Inv', NEW t \in Threads, LP!ListStep(t), pc[t] # "ret", Inside(t), Inside(t)',
         t # Main => loop'[t] = loop[t], key' = key, OnlyMoves(t),
         \A u \in Threads \ {t} : ~Inside(u), ListState
  PROVE  /\ ListState' /\ Members \subseteq Elems
         /\ \/ Phase(t) = "insert" /\ pc'[t] = "ret" /\ Members' = Members \cup {Mover(t)}
            \/ /\ Phase(t) = "delete" /\ pc'[t] = "ret"
               /\ \E y \in Members : Members' = Members \ {y}
            \/ /\ pc'[t] = "ret" => Phase(t) \in {"length", "lookup"}
               /\ Members' = Members
<1>1. PICK n, c : Holds(n, c)
  BY DEF ListState
<1>2. PICK x : x = Mover(t)
  OBVIOUS
<1>3. /\ LP!Setting(head, Elems) /\ LP!Chain(head, Elems, n, c) /\ Doing(t, n, c)
      /\ Members = LP!On(n, c) /\ Members \subseteq Elems
      /\ Phase(t) \in {"insert", "length", "lookup", "delete"}
  BY <1>1, ListIsSet, ChainMembers, InsideIsAtWork DEF Holds
<1>4. Phase(t)' = Phase(t) /\ (t # Main => Mover(t)' = x)
  BY <1>2 DEF Phase, Mover
<1>5. ASSUME NEW m, NEW d, LP!Chain(head, Elems, m, d)', Doing(t, m, d)'
      PROVE  ListState' /\ Members' = LP!On(m, d)
  BY <1>5, ListHere, MembersAfter
<1>6. CASE Phase(t) = "insert"
  <2>1. LP!InsertLocal(t, head, Elems, x, n, c) /\ t # Main
    BY <1>2, <1>3, <1>6 DEF Doing, Phase
  <2>2. \E m, d :
          /\ LP!Chain(head, Elems, m, d)' /\ LP!InsertLocal(t, head, Elems, x, m, d)'
          /\ LP!On(m, d) = IF pc'[t] = "ret" THEN LP!On(n, c) \cup {x} ELSE LP!On(n, c)
    BY <1>3, <2>1, LP!InsertStep
  <2>3. PICK m, d :
          /\ LP!Chain(head, Elems, m, d)' /\ LP!InsertLocal(t, head, Elems, x, m, d)'
          /\ LP!On(m, d) = IF pc'[t] = "ret" THEN LP!On(n, c) \cup {x} ELSE LP!On(n, c)
    BY <2>2
  <2>4. Phase(t)' = "insert" /\ Mover(t)' = x
    BY <1>4, <1>6, <2>1
  <2>5. Doing(t, m, d)'
    BY <2>3, <2>4 DEF Doing
  <2>6. ListState' /\ Members' = LP!On(m, d)
    BY <1>5, <2>3, <2>5
  <2> QED BY <1>2, <1>3, <1>6, <2>3, <2>6
<1>7. CASE Phase(t) = "length"
  <2>1. LP!LengthLocal(t, head, n, c)
    BY <1>3, <1>7 DEF Doing
  <2>2. LP!Chain(head, Elems, n, c)' /\ LP!LengthLocal(t, head, n, c)'
    BY <1>3, <2>1, LP!LengthStep
  <2>3. Phase(t)' = "length"
    BY <1>4, <1>7
  <2>4. Doing(t, n, c)'
    BY <2>2, <2>3 DEF Doing
  <2> QED BY <1>3, <1>5, <1>7, <2>2, <2>4
<1>8. CASE Phase(t) = "lookup"
  <2>1. LP!LookupLocal(t, head, str, n, c)
    BY <1>3, <1>8 DEF Doing
  <2>2. LP!Chain(head, Elems, n, c)' /\ LP!LookupLocal(t, head, str, n, c)'
    BY <1>3, <2>1, LP!LookupStep
  <2>3. Phase(t)' = "lookup"
    BY <1>4, <1>8
  <2>4. Doing(t, n, c)'
    BY <2>2, <2>3 DEF Doing
  <2> QED BY <1>3, <1>5, <1>8, <2>2, <2>4
<1>9. CASE Phase(t) = "delete"
  <2>1. PICK y \in Elems : LP!DeleteLocal(t, y, n, c)
    BY <1>3, <1>9 DEF Doing
  <2>2. \E m, d :
          /\ LP!Chain(head, Elems, m, d)' /\ LP!DeleteLocal(t, y, m, d)'
          /\ LP!On(m, d) = IF pc'[t] = "ret" THEN LP!On(n, c) \ {y} ELSE LP!On(n, c)
    BY <1>3, <2>1, LP!DeleteStep
  <2>3. PICK m, d :
          /\ LP!Chain(head, Elems, m, d)' /\ LP!DeleteLocal(t, y, m, d)'
          /\ LP!On(m, d) = IF pc'[t] = "ret" THEN LP!On(n, c) \ {y} ELSE LP!On(n, c)
    BY <2>2
  <2>4. y \in LP!On(n, c)
    BY <2>1 DEF LP!DeleteLocal, LP!On
  <2>5. Phase(t)' = "delete"
    BY <1>4, <1>9
  <2>6. Doing(t, m, d)'
    BY <2>3, <2>5 DEF Doing
  <2>7. ListState' /\ Members' = LP!On(m, d)
    BY <1>5, <2>3, <2>6
  <2> QED BY <1>3, <1>9, <2>3, <2>4, <2>7
<1> QED BY <1>3, <1>6, <1>7, <1>8, <1>9

(* lock_general(): the lock is free, so nobody is inside, and what a worker *)
(* inserts it has not inserted before.                                      *)
LEMMA LockKeepsList ==
  ASSUME Inv, Inv', Exclusion, Synchronised, ListInv, NEW t \in Workers, LockGeneral(t)
  PROVE  ListState' /\ Happens
<1>0. t \in Threads /\ t # Main
  BY ThreadsAre
<1>1. /\ UNCHANGED <<opt_sync, next, prev, key, loop>> /\ OnlyMoves(t) /\ lock = 0
      /\ Inside(t)' /\ pc'[t] # "ret" /\ pc[t] = "lock" /\ AtTurn(t)
  BY LockIs
<1>2. \/ /\ loop[t].phase = "insert" /\ LP!CallInsert(t, head, Mover(t))
      \/ /\ loop[t].phase = "length" /\ LP!CallLength(t, head)
      \/ /\ loop[t].phase = "lookup" /\ LP!CallLookup(t, head, str)
  BY LockIs DEF Mover
<1>3. \A u \in Threads : ~Inside(u)
  <2>1. \A u \in Workers : ~Inside(u)
    BY <1>1 DEF Exclusion
  <2>2. ~Inside(Main)
    BY <1>1, ThreadsAre, InsideIsAtWork
  <2> QED BY <2>1, <2>2, ThreadsAre
<1>4. loop[t].phase = "insert" => Mover(t) \in Elems \ Members
  <2> SUFFICES ASSUME loop[t].phase = "insert"
               PROVE  Mover(t) \in Elems \ Members
    OBVIOUS
  <2>1. PICK i : i = loop[t].i
    OBVIOUS
  <2>2. i \in 0..(niteratns - 1) /\ niteratns \in Nat
    BY <1>1, <2>1, ThreadsAre DEF AtTurn
  <2>3. Mine(t, i) \in Elems /\ Owner(Mine(t, i)) = <<t, i>>
    BY <2>2, MineIsElement, OwnerOfMine
  <2>4. ASSUME Mine(t, i) \in Members PROVE FALSE
    <3>1. Owner(Mine(t, i)) \in aMembers
      BY <2>4 DEF aMembers
    <3>2. aInserted[t] = i
      <4>1. InsertsDone(t) = i + 0
        BY <1>1, <2>1 DEF InsertsDone
      <4> QED BY <2>2, <4>1 DEF aInserted
    <3>3. \A e \in aMembers : e[2] < aInserted[e[1]]
      BY DEF ListInv, LP!IInv, LP!OrderInv
    <3> QED BY <2>2, <2>3, <3>1, <3>2, <3>3
  <2> QED BY <2>1, <2>3, <2>4 DEF Mover
<1>5. Phase(t) = loop[t].phase
  BY <1>0 DEF Phase
<1>6. ListState' /\ Members' = Members
  <2>1. ListState /\ loop'[t] = loop[t]
    BY <1>1 DEF ListInv
  <2> QED BY <1>0, <1>1, <1>2, <1>3, <1>4, <1>5, <2>1, EnterList
<1>7. \A u \in Workers : SameDone(u)
  <2>1. SameDone(t)
    BY <1>1 DEF InsertsDone, DeletesDone, SameDone
  <2> QED BY <1>1, <2>1, DoneKept, ThreadsAre DEF OnlyMoves
<1> QED BY <1>1, <1>6, <1>7, NothingHappens DEF Happens

(* One access to the list, by a worker or by main.                          *)
LEMMA CallKeepsList ==
  ASSUME Inv, Inv', Exclusion, Synchronised, ListInv, NEW t \in Threads, Call(t)
  PROVE  ListState' /\ Happens
<1>1. /\ UNCHANGED <<opt_sync, key, loop>> /\ LP!ListStep(t) /\ OnlyMoves(t)
      /\ Inside(t) /\ Inside(t)' /\ pc[t] # "ret"
  BY CallIs
<1>2. \A u \in Threads \ {t} : ~Inside(u)
  BY <1>1, AloneInside
<1>3. PICK x, i : x = Mover(t) /\ i = loop[t].i
  OBVIOUS
<1>4. /\ ListState' /\ Members \subseteq Elems
      /\ \/ Phase(t) = "insert" /\ pc'[t] = "ret" /\ Members' = Members \cup {x}
         \/ /\ Phase(t) = "delete" /\ pc'[t] = "ret"
            /\ \E y \in Members : Members' = Members \ {y}
         \/ /\ pc'[t] = "ret" => Phase(t) \in {"length", "lookup"}
            /\ Members' = Members
  <2>1. ListState /\ loop'[t] = loop[t]
    BY <1>1 DEF ListInv
  <2> QED BY <1>1, <1>2, <1>3, <2>1, StepInList
<1>5. \A u \in Workers \ {t} : SameDone(u)
  BY <1>1, DoneKept, ThreadsAre DEF OnlyMoves
<1>6. Happens
  <2>1. CASE t = Main
    <3>1. Members' = Members /\ t \notin Workers
      BY <1>4, <2>1, ThreadsAre DEF Phase
    <3> QED BY <1>1, <1>5, <3>1, NothingHappens DEF Happens
  <2>2. CASE t # Main
    <3>1. /\ t \in Workers /\ Phase(t) = loop[t].phase /\ AtTurn(t) /\ loop'[t] = loop[t]
          /\ x = Mine(t, i)
      BY <1>1, <1>3, <2>2, InsideIsAtWork DEF Mover
    <3>2. CASE Phase(t) = "insert" /\ pc'[t] = "ret" /\ Members' = Members \cup {x}
      <4>1. i \in 0..(niteratns - 1) /\ i + 0 = i
        BY <1>3, <3>1, <3>2, ThreadsAre DEF AtTurn
      <4>2. /\ InsertsDone(t) = i + 0 /\ InsertsDone(t)' = i + 1
            /\ DeletesDone(t)' = DeletesDone(t)
        BY <1>1, <1>3, <3>1, <3>2 DEF InsertsDone, DeletesDone
      <4>3. InsertsDone(t) = i /\ Members' = Members \cup {Mine(t, i)}
        BY <3>1, <3>2, <4>1, <4>2
      <4>4. /\ \A u \in Workers \ {t} : InsertsDone(u)' = InsertsDone(u)
            /\ \A u \in Workers : DeletesDone(u)' = DeletesDone(u)
        BY <1>5, <4>2 DEF SameDone
      <4>5. LP!Insert(t)
        BY <1>1, <3>1, <4>1, <4>2, <4>3, <4>4, InsertHappens
      <4> QED BY <3>1, <4>5 DEF Happens
    <3>3. CASE /\ Phase(t) = "delete" /\ pc'[t] = "ret"
               /\ \E y \in Members : Members' = Members \ {y}
      <4>1. i \in 0..(niteratns - 1) /\ i + 0 = i
        BY <1>3, <3>1, <3>3, ThreadsAre DEF AtTurn
      <4>2. /\ DeletesDone(t) = i + 0 /\ DeletesDone(t)' = i + 1
            /\ InsertsDone(t) = niteratns /\ InsertsDone(t)' = InsertsDone(t)
        BY <1>1, <1>3, <3>1, <3>3 DEF InsertsDone, DeletesDone
      <4>3. DeletesDone(t) = i
        BY <4>1, <4>2
      <4>4. PICK y \in Members : Members' = Members \ {y}
        BY <3>3
      <4>5. /\ \A u \in Workers \ {t} : DeletesDone(u)' = DeletesDone(u)
            /\ \A u \in Workers : InsertsDone(u)' = InsertsDone(u)
        BY <1>5, <4>2 DEF SameDone
      <4>6. LP!Delete(t)
        BY <1>1, <1>4, <3>1, <4>1, <4>2, <4>3, <4>4, <4>5, DeleteHappens
      <4> QED BY <3>1, <4>6 DEF Happens
    <3>4. CASE (pc'[t] = "ret" => Phase(t) \in {"length", "lookup"}) /\ Members' = Members
      <4>1. SameDone(t)
        BY <1>1, <3>1, <3>4 DEF InsertsDone, DeletesDone, SameDone
      <4>2. \A u \in Workers : SameDone(u)
        BY <1>5, <4>1
      <4> QED BY <1>1, <3>4, <4>2, NothingHappens DEF Happens
    <3> QED BY <1>4, <3>2, <3>3, <3>4
  <2> QED BY <2>1, <2>2
<1> QED BY <1>4, <1>6

(* A worker's lookup has found an element, whoever it belonged to.          *)
LEMMA LookupHasFound ==
  ASSUME Inv, Synchronised, ListInv, NEW t \in Workers, pc[t] = "ret", loop[t].phase = "lookup",
         NEW n, NEW c, Holds(n, c)
  PROVE  LP!Whole(n, c) /\ reg[t].ptr \in LP!On(n, c)
<1>1. t \in Threads /\ t # Main /\ Inside(t) /\ Phase(t) = "lookup"
  BY LabelsOfCalls, ThreadsAre DEF Inside, Phase
<1>2. LP!Whole(n, c) /\ LP!Found(reg[t].ptr, str, n, c)
  <2>1. LP!LookupLocal(t, head, str, n, c)
    BY <1>1 DEF Holds, Doing
  <2> QED BY <2>1, <1>1, LP!ReturnsWhole
<1>3. Members = LP!On(n, c)
  BY ChainMembers DEF Holds
<1>4. Members # {}
  <2>1. PICK i : i = loop[t].i
    OBVIOUS
  <2>2. i \in 0..(niteratns - 1) /\ i < niteratns /\ t \in LP!Workers
    <3>1. i \in 0..(niteratns - 1)
      BY <1>1, <2>1, InsideIsAtWork DEF AtTurn
    <3> QED BY <3>1, ThreadsAre DEF LP!Workers, Workers
  <2>3. aInserted[t] = niteratns /\ aDeleted[t] = i
    BY <2>1 DEF aInserted, aDeleted, InsertsDone, DeletesDone
  <2>4. LP!AlwaysFound
    BY LP!Finds, ThreadsAssumption, IterationsAssumption DEF ListInv
  <2>5. \E e \in aMembers : TRUE
    BY <2>2, <2>3, <2>4 DEF LP!AlwaysFound
  <2> QED BY <2>5 DEF aMembers
<1>5. \E j \in 1..n : TRUE
  BY <1>3, <1>4 DEF LP!On
<1>6. \A j \in 1..n : LP!strcmp(key[c[j]], str) = 0
  <2> TAKE j \in 1..n
  <2>1. c[j] \in Elems
    BY DEF Holds, LP!Chain
  <2>2. key[c[j]] = str /\ str \in Seq(Int)
    BY <2>1, ListIsSet
  <2> QED BY <2>2, LP!StrcmpEqual
<1> QED BY <1>2, <1>5, <1>6 DEF LP!Found, LP!On

(* What was found goes to delete.                                           *)
LEMMA DeleteKeepsList ==
  ASSUME Inv, Inv', Exclusion, Synchronised, ListInv, NEW t \in Workers, DeleteFound(t)
  PROVE  ListState' /\ Happens
<1>0. t \in Threads /\ t # Main
  BY ThreadsAre
<1>1. PICK p : p = reg[t].ptr
  OBVIOUS
<1>2. /\ UNCHANGED <<opt_sync, next, prev, key>> /\ OnlyMoves(t) /\ LP!CallDelete(t, p)
      /\ Inside(t) /\ Inside(t)' /\ pc[t] = "ret" /\ pc'[t] = "del_prev"
      /\ loop[t].phase = "lookup" /\ AtTurn(t)
      /\ loop' = [loop EXCEPT ![t] = [phase |-> "delete", i |-> loop[t].i]]
  BY <1>1, DeleteIs
<1>3. \A u \in Threads \ {t} : ~Inside(u)
  BY <1>0, <1>2, AloneInside
<1>4. PICK n, c : Holds(n, c)
  BY DEF ListInv, ListState
<1>5. LP!Whole(n, c) /\ p \in LP!On(n, c)
  BY <1>1, <1>2, <1>4, LookupHasFound
<1>6. /\ LP!Setting(head, Elems) /\ LP!Chain(head, Elems, n, c) /\ Members = LP!On(n, c)
      /\ p \in Elems
  BY <1>4, <1>5, ListIsSet, ChainMembers DEF Holds
<1>7. LP!Chain(head, Elems, n, c)' /\ LP!DeleteLocal(t, p, n, c)'
  BY <1>0, <1>2, <1>5, <1>6, LP!CallsFindWhole
<1>8. loop'[t] = [phase |-> "delete", i |-> loop[t].i] /\ Phase(t)' = "delete"
  BY <1>0, <1>2 DEF Inv, Types, Phase
<1>9. Doing(t, n, c)'
  BY <1>6, <1>7, <1>8 DEF Doing
<1>10. ListState' /\ Members' = Members
  BY <1>0, <1>2, <1>3, <1>6, <1>7, <1>9, ListHere, MembersAfter
<1>11. SameDone(t)
  <2>1. PICK i : i = loop[t].i
    OBVIOUS
  <2>2. i + 0 = i
    BY <1>2, <2>1, ThreadsAre DEF AtTurn
  <2>3. DeletesDone(t) = i /\ DeletesDone(t)' = i + 0 /\ InsertsDone(t)' = InsertsDone(t)
    BY <1>2, <1>8, <2>1 DEF InsertsDone, DeletesDone
  <2> QED BY <2>2, <2>3 DEF SameDone
<1>12. \A u \in Workers : SameDone(u)
  BY <1>2, <1>11, DoneKept, ThreadsAre DEF OnlyMoves
<1> QED BY <1>2, <1>10, <1>12, NothingHappens DEF Happens

-----------------------------------------------------------------------------
(* The return from a call, and what calls return.                           *)

(* How many inserts and deletes are behind a worker at the start of a turn. *)
LEMMA TurnCounts ==
  ASSUME NEW t, NEW place, loop'[t] = place, pc'[t] = Label(place), NEW n \in 0..niteratns
  PROVE  /\ place = AfterInsert(n) => InsertsDone(t)' = n /\ DeletesDone(t)' = 0
         /\ place = AfterDelete(n) => InsertsDone(t)' = niteratns /\ DeletesDone(t)' = n
<1>1. niteratns \in Nat /\ n \in Nat /\ n + 0 = n /\ (~(n < niteratns) => n = niteratns)
  BY IterationsAssumption
<1>2. pc'[t] # "ret"
  BY DEF Label
<1>3. InsertsDone(t)' = IF place.phase = "insert" THEN place.i + 0 ELSE niteratns
  BY <1>2 DEF InsertsDone
<1>4. DeletesDone(t)' = CASE place.phase = "lookup"   -> place.i
                          [] place.phase = "delete"   -> place.i + 0
                          [] place.phase = "returned" -> niteratns
                          [] OTHER                    -> 0
  BY <1>2 DEF DeletesDone
<1>5. CASE n < niteratns
  <2>1. /\ AfterInsert(n) = [phase |-> "insert", i |-> n]
        /\ AfterDelete(n) = [phase |-> "lookup", i |-> n]
    BY <1>5 DEF AfterInsert, AfterDelete
  <2> QED BY <1>1, <1>3, <1>4, <2>1
<1>6. CASE ~(n < niteratns)
  <2>1. /\ AfterInsert(n) = [phase |-> "length", i |-> 0]
        /\ AfterDelete(n) = [phase |-> "returned", i |-> 0]
    BY <1>6 DEF AfterInsert, AfterDelete
  <2> QED BY <1>1, <1>3, <1>4, <1>6, <2>1
<1> QED BY <1>5, <1>6

(* unlock_general() and the way to the next turn.                           *)
LEMMA UnlockKeepsList ==
  ASSUME Inv, Inv', Synchronised, ListInv, NEW t \in Workers, UnlockGeneral(t)
  PROVE  ListState' /\ Happens
<1>0. t \in Threads /\ ListState
  BY ThreadsAre DEF ListInv
<1>1. /\ UNCHANGED <<opt_sync, next, prev, key>> /\ OnlyMoves(t)
      /\ Inside(t) /\ ~Inside(t)' /\ pc[t] = "ret" /\ AtTurn(t)
  BY UnlockIs
<1>2. PICK i : i = loop[t].i
  OBVIOUS
<1>3. PICK place : place = loop'[t]
  OBVIOUS
<1>4. /\ pc'[t] = Label(place)
      /\ \/ loop[t].phase = "insert" /\ place = AfterInsert(i + 1)
         \/ loop[t].phase = "length" /\ place = AfterDelete(0)
         \/ loop[t].phase = "delete" /\ place = AfterDelete(i + 1)
  BY <1>2, <1>3, UnlockIs
<1>5. /\ loop[t].phase \in {"insert", "delete"} => i + 1 \in 0..niteratns
      /\ 0 \in 0..niteratns
  BY <1>1, <1>2, ThreadsAre DEF AtTurn
<1>6. SameDone(t)
  <2>1. CASE loop[t].phase = "insert" /\ place = AfterInsert(i + 1)
    <3>1. InsertsDone(t) = i + 1 /\ DeletesDone(t) = 0
      BY <1>1, <1>2, <2>1 DEF InsertsDone, DeletesDone
    <3>2. InsertsDone(t)' = i + 1 /\ DeletesDone(t)' = 0
      BY <1>3, <1>4, <1>5, <2>1, TurnCounts
    <3> QED BY <3>1, <3>2 DEF SameDone
  <2>2. CASE loop[t].phase = "length" /\ place = AfterDelete(0)
    <3>1. InsertsDone(t) = niteratns /\ DeletesDone(t) = 0
      BY <2>2 DEF InsertsDone, DeletesDone
    <3>2. InsertsDone(t)' = niteratns /\ DeletesDone(t)' = 0
      BY <1>3, <1>4, <1>5, <2>2, TurnCounts
    <3> QED BY <3>1, <3>2 DEF SameDone
  <2>3. CASE loop[t].phase = "delete" /\ place = AfterDelete(i + 1)
    <3>1. InsertsDone(t) = niteratns /\ DeletesDone(t) = i + 1
      BY <1>1, <1>2, <2>3 DEF InsertsDone, DeletesDone
    <3>2. InsertsDone(t)' = niteratns /\ DeletesDone(t)' = i + 1
      BY <1>3, <1>4, <1>5, <2>3, TurnCounts
    <3> QED BY <3>1, <3>2 DEF SameDone
  <2> QED BY <1>4, <2>1, <2>2, <2>3
<1>7. \A u \in Workers : SameDone(u)
  BY <1>1, <1>6, DoneKept, ThreadsAre DEF OnlyMoves
<1>8. ListState' /\ Members' = Members
  BY <1>0, <1>1, MovesOutside
<1> QED BY <1>1, <1>7, <1>8, NothingHappens DEF Happens

(* A call that has returned has found no corruption, and when the list is   *)
(* empty its length is 0.                                                   *)
LEMMA CallsReturnWell ==
  ASSUME Inv, ListState, NEW t \in Threads, pc[t] = "ret"
  PROVE  /\ Phase(t) = "delete" => reg[t].ret = 0
         /\ Phase(t) = "length" => reg[t].ret \in Nat /\ (Members = {} => reg[t].ret = 0)
<1>1. PICK n, c : Holds(n, c)
  BY DEF ListState
<1>2. Doing(t, n, c) /\ n \in Nat /\ Members = LP!On(n, c)
  BY <1>1, LabelsOfCalls, ChainMembers DEF Holds, LP!Chain, Inside
<1>3. Phase(t) = "length" => reg[t].ret = n
  <2> SUFFICES ASSUME Phase(t) = "length" PROVE reg[t].ret = n
    OBVIOUS
  <2>1. LP!LengthLocal(t, head, n, c)
    BY <1>2 DEF Doing
  <2> QED BY <2>1, LP!ReturnsWhole
<1>4. Phase(t) = "delete" => reg[t].ret = 0
  <2> SUFFICES ASSUME Phase(t) = "delete" PROVE reg[t].ret = 0
    OBVIOUS
  <2>1. PICK y \in Elems : LP!DeleteLocal(t, y, n, c)
    BY <1>2 DEF Doing
  <2> QED BY <2>1, LP!ReturnsWhole
<1>5. LP!On(n, c) = {} => n = 0
  <2> SUFFICES ASSUME n # 0 PROVE LP!On(n, c) # {}
    OBVIOUS
  <2>1. 1 \in 1..n
    BY <1>2
  <2> QED BY <2>1 DEF LP!On
<1> QED BY <1>2, <1>3, <1>4, <1>5

(* With the lock no thread follows a NULL pointer.                          *)
LEMMA CallsAreSafe ==
  ASSUME Inv, ListState, NEW t \in Threads
  PROVE  ~SL!Faults(t)
<1> SUFFICES ASSUME LP!Faults(t)
             PROVE  FALSE
  BY SameCalls
<1>1. Inside(t)
  BY DEF LP!Faults, LP!Labels, Inside, InCall, SL!Labels
<1>2. PICK n, c : Holds(n, c)
  BY DEF ListState
<1>3. PICK x : x = Mover(t)
  OBVIOUS
<1>4. /\ LP!Setting(head, Elems) /\ LP!Chain(head, Elems, n, c) /\ Doing(t, n, c)
      /\ Phase(t) \in {"insert", "length", "lookup", "delete"}
  BY <1>1, <1>2, ListIsSet, InsideIsAtWork DEF Holds
<1>5. PICK y : \/ LP!InsertLocal(t, head, Elems, y, n, c)
               \/ LP!LookupLocal(t, head, str, n, c)
               \/ LP!DeleteLocal(t, y, n, c)
               \/ LP!LengthLocal(t, head, n, c)
  BY <1>3, <1>4 DEF Doing
<1> QED BY <1>4, <1>5, LP!LocalSafe

-----------------------------------------------------------------------------
(* All steps.                                                               *)

LEMMA NobodyMoves ==
  ASSUME Inv, ListState, UNCHANGED <<opt_sync, next, prev, key, pc, reg, loop>>
  PROVE  ListState' /\ Happens
<1>1. Members' = Members
  BY DEF Members, SL!Members
<1>2. \A u \in Workers : SameDone(u)
  BY DEF InsertsDone, DeletesDone, SameDone
<1>3. PICK n, c : Holds(n, c)
  BY DEF ListState
<1>4. LP!Setting(head, Elems) /\ LP!Chain(head, Elems, n, c)
  BY <1>3, ListIsSet DEF Holds
<1>5. LP!Chain(head, Elems, n, c)' /\ (LP!Whole(n, c) => LP!Whole(n, c)')
  BY <1>4, LP!Untouched
<1>6. \A u \in Threads : Inside(u)' = Inside(u)
  BY DEF Inside
<1>7. ASSUME NEW u \in Threads, Doing(u, n, c)
      PROVE  Doing(u, n, c)'
  <2>1. Phase(u)' = Phase(u) /\ Mover(u)' = Mover(u)
    BY DEF Phase, Mover
  <2>2. \A x, K : /\ LP!InsertLocal(u, head, Elems, x, n, c)
                       => LP!InsertLocal(u, head, Elems, x, n, c)'
                  /\ LP!LookupLocal(u, head, K, n, c) => LP!LookupLocal(u, head, K, n, c)'
                  /\ LP!DeleteLocal(u, x, n, c) => LP!DeleteLocal(u, x, n, c)'
                  /\ LP!LengthLocal(u, head, n, c) => LP!LengthLocal(u, head, n, c)'
    BY <1>4, LP!LocalKept
  <2> QED BY <1>7, <2>1, <2>2 DEF Doing
<1>8. Holds(n, c)'
  BY <1>3, <1>5, <1>6, <1>7 DEF Holds
<1>9. ListState'
  BY <1>8 DEF ListState
<1> QED BY <1>1, <1>2, <1>9, NothingHappens DEF Happens

LEMMA WorkerKeepsList ==
  ASSUME Inv, Inv', Exclusion, Synchronised, ListInv, NEW t \in Workers, WorkerStep(t)
  PROVE  ListState' /\ Happens
<1>1. CASE LockGeneral(t)
  BY <1>1, LockKeepsList
<1>2. CASE Call(t)
  BY <1>2, CallKeepsList, ThreadsAre
<1>3. CASE DeleteFound(t)
  BY <1>3, DeleteKeepsList
<1>4. CASE UnlockGeneral(t)
  BY <1>4, UnlockKeepsList
<1>5. CASE ReportCorruption(t) \/ sigsegv_handler(t)
  BY <1>5, NobodyMoves DEF ReportCorruption, sigsegv_handler, listVars, ListInv
<1> QED BY <1>1, <1>2, <1>3, <1>4, <1>5 DEF WorkerStep

(* A worker that starts has nothing behind it.                              *)
LEMMA CreateKeepsList ==
  ASSUME Inv, Inv', Synchronised, ListInv, CreateThread
  PROVE  ListState' /\ Happens
<1>0. DOMAIN pc = Threads /\ created \in 0..nthreads
  BY DEF Inv, Types, LP!Tied, LP!Registers
<1>1. PICK t : t = created + 1
  OBVIOUS
<1>2. /\ UNCHANGED <<opt_sync, next, prev, key, reg>> /\ t \in Workers
      /\ loop' = [loop EXCEPT ![t] = AfterInsert(0)]
      /\ pc' = [pc EXCEPT ![t] = "lock"]
  BY <1>0, <1>1, ThreadsAre DEF CreateThread, Workers
<1>3. pc[t] = "unborn" /\ t \in Threads /\ loop[t] = [phase |-> "insert", i |-> 0]
  BY <1>0, <1>1, <1>2, ThreadsAre, LabelsOfCalls DEF Inv, MainOrder, Consistent
<1>4. loop'[t] = AfterInsert(0) /\ pc'[t] = "lock" /\ OnlyMoves(t)
  BY <1>0, <1>2, <1>3 DEF Inv, Types, OnlyMoves, Still
<1>5. InsertsDone(t) = 0 /\ DeletesDone(t) = 0
  BY <1>3 DEF InsertsDone, DeletesDone
<1>6. InsertsDone(t)' = 0 /\ DeletesDone(t)' = 0
  <2>1. PICK place : place = AfterInsert(0)
    OBVIOUS
  <2>2. 0 \in 0..niteratns
    BY ThreadsAre
  <2>3. place.phase \in {"insert", "length"}
    BY <2>1, <2>2, TurnsAre
  <2>4. loop'[t] = place /\ pc'[t] = Label(place)
    BY <1>4, <2>1, <2>3 DEF Label
  <2> QED BY <2>1, <2>2, <2>4, TurnCounts
<1>7. SameDone(t)
  BY <1>5, <1>6 DEF SameDone
<1>8. \A u \in Workers : SameDone(u)
  BY <1>4, <1>7, DoneKept, ThreadsAre DEF OnlyMoves
<1>9. ~Inside(t) /\ ~Inside(t)'
  BY <1>3, <1>4, LabelsOfCalls DEF Inside
<1>10. ListState' /\ Members' = Members
  <2>1. ListState
    BY DEF ListInv
  <2> QED BY <1>2, <1>3, <1>4, <1>9, <2>1, MovesOutside
<1> QED BY <1>2, <1>8, <1>10, NothingHappens DEF Happens

(* main enters the list when the workers have left it.                      *)
LEMMA MainLengthKeepsList ==
  ASSUME Inv, Inv', Synchronised, ListInv, MainLength
  PROVE  ListState' /\ Happens
<1>1. /\ UNCHANGED <<opt_sync, next, prev, key, loop>> /\ joined = nthreads /\ pc[Main] = "main"
      /\ LP!CallLength(Main, head) /\ Phase(Main) = "length"
  BY SameCalls DEF MainLength, At, Phase
<1>2. pc'[Main] = "len_head1" /\ LP!OthersKeep(Main)
  BY <1>1, ThreadsAre, LP!Calls DEF Inv, LP!Tied
<1>3. OnlyMoves(Main)
  BY <1>1, <1>2 DEF OnlyMoves, Still, LP!OthersKeep
<1>4. Inside(Main)' /\ ~Inside(Main)
  BY <1>1, <1>2, LabelsOfCalls DEF Inside, InCall, SL!Labels
<1>5. \A u \in Threads : ~Inside(u)
  BY <1>1, <1>4, ThreadsAre, LabelsOfCalls DEF Inv, MainOrder, Inside, Workers
<1>6. ListState' /\ Members' = Members
  <2>1. ListState
    BY DEF ListInv
  <2> QED BY <1>1, <1>3, <1>4, <1>5, <2>1, ThreadsAre, EnterList
<1>7. \A u \in Workers : SameDone(u)
  BY <1>3, DoneKept, ThreadsAre DEF OnlyMoves
<1> QED BY <1>1, <1>6, <1>7, NothingHappens DEF Happens

LEMMA StepKeepsList ==
  ASSUME Inv, Inv', Exclusion, Synchronised, ListInv, [Next]_vars
  PROVE  ListInv' /\ [LP!Next]_avars
<1>1. ListState' /\ Happens
  <2>1. ASSUME NEW t \in Workers, WorkerStep(t)
        PROVE  ListState' /\ Happens
    BY <2>1, WorkerKeepsList
  <2>2. CASE CreateThread
    BY <2>2, CreateKeepsList
  <2>3. CASE MainLength
    BY <2>3, MainLengthKeepsList
  <2>4. CASE Call(Main)
    BY <2>4, CallKeepsList, ThreadsAre
  <2>5. CASE JoinThread \/ Verdict \/ HandleError \/ UNCHANGED vars
    BY <2>5, NobodyMoves DEF JoinThread, Verdict, HandleError, vars, listVars, ListInv
  <2> QED BY <2>1, <2>2, <2>3, <2>4, <2>5 DEF Next, MainStep, Terminated
<1>2. LP!IInv' /\ [LP!Next]_avars
  BY <1>1, AtomicKept DEF ListInv
<1> QED BY <1>1, <1>2 DEF ListInv

LEMMA InitList == Init => ListState /\ LP!Init /\ LP!IInv
<1> SUFFICES ASSUME Init
             PROVE  ListState /\ LP!Init /\ LP!IInv
  OBVIOUS
<1>1. Inv
  BY InitInv
<1>2. \A t \in Threads : ~Inside(t)
  BY LabelsOfCalls DEF Init, Inside
<1>3. ListState /\ Members = {}
  <2>1. head \in LP!Nodes
    BY DEF LP!Nodes
  <2>2. next[head] = head /\ prev[head] = head
    BY DEF Init
  <2>3. PICK c : LP!Chain(head, Elems, 0, c) /\ LP!Whole(0, c) /\ LP!On(0, c) = {}
    BY <2>1, <2>2, LP!EmptyList
  <2>4. Holds(0, c)
    BY <1>2, <2>3 DEF Holds
  <2>5. Members = {}
    BY <1>1, <2>3, ChainMembers
  <2> QED BY <2>4, <2>5 DEF ListState
<1>4. LP!Init
  <2>1. aMembers = {}
    BY <1>3 DEF aMembers
  <2>2. ASSUME NEW t \in Workers
        PROVE  InsertsDone(t) = 0 /\ DeletesDone(t) = 0
    <3>1. loop[t] = [phase |-> "insert", i |-> 0] /\ pc[t] = "unborn"
      BY ThreadsAre DEF Init
    <3> QED BY <3>1 DEF InsertsDone, DeletesDone
  <2>3. aKey \in [LP!Elements -> {str}]
    <3>1. LP!Elements = Owned
      BY DEF LP!Elements, LP!Workers, LP!Turns, Owned, Workers
    <3>2. aKey = [x \in Owned |-> aKey[x]] /\ \A x \in Owned : aKey[x] = str
      BY <1>1, KeyOfOwner DEF aKey
    <3> QED BY <3>1, <3>2
  <2>4. aInserted = [t \in LP!Workers |-> 0] /\ aDeleted = [t \in LP!Workers |-> 0]
    BY <2>2 DEF aInserted, aDeleted, LP!Workers, Workers
  <2> QED BY <2>1, <2>3, <2>4 DEF LP!Init
<1> QED BY <1>3, <1>4, LP!InitIInv, ThreadsAssumption, IterationsAssumption

-----------------------------------------------------------------------------
(* The invariant of every run, and the list.                                *)

SyncInv == Synchronised => ListInv

LEMMA Invariance == Spec => [](Inv /\ Exclusion /\ SyncInv)
<1>1. Init => Inv /\ Exclusion /\ SyncInv
  BY InitInv, InitList DEF SyncInv, ListInv
<1>2. Inv /\ Exclusion /\ SyncInv /\ [Next]_vars => (Inv /\ Exclusion /\ SyncInv)'
  <2> SUFFICES ASSUME Inv, Exclusion, SyncInv, [Next]_vars
               PROVE  Inv' /\ Exclusion' /\ SyncInv'
    OBVIOUS
  <2>1. Inv' /\ Exclusion' /\ (Synchronised' <=> Synchronised)
    BY StepInv, ModeIsFixed
  <2> QED BY <2>1, StepKeepsList DEF SyncInv
<1> QED BY <1>1, <1>2, PTL DEF Spec

(* The list of a lock nobody holds: only main, reading, can be inside it.   *)
LEMMA FreeListIntact ==
  ASSUME Inv, Exclusion, SyncInv
  PROVE  ListIntact
<1> SUFFICES ASSUME Synchronised, lock = 0
             PROVE  SL!Circular(head, nelements)
  BY DEF ListIntact
<1>1. PICK n, c : Holds(n, c)
  BY DEF SyncInv, ListInv, ListState
<1>2. \A t \in Workers : ~Inside(t)
  BY DEF Exclusion
<1>3. Main \in Threads /\ Phase(Main) = "length" /\ \A t \in Threads : t # Main => ~Inside(t)
  BY <1>2, ThreadsAre DEF Phase
<1>4. LP!Whole(n, c)
  <2>1. CASE Inside(Main)
    <3>1. LP!LengthLocal(Main, head, n, c)
      BY <1>1, <1>3, <2>1 DEF Holds, Doing
    <3> QED BY <3>1 DEF LP!LengthLocal
  <2>2. CASE ~Inside(Main)
    BY <1>1, <1>3, <2>2 DEF Holds
  <2> QED BY <2>1, <2>2
<1> QED BY <1>1, <1>4, ChainMembers DEF Holds

(* With a mutex or a spin lock, whenever the lock is free the list is a     *)
(* circle through next and through prev.                                    *)
THEOREM ListStaysIntact == Spec => []ListIntact
<1>1. Inv /\ Exclusion /\ SyncInv => ListIntact
  BY FreeListIntact
<1> QED BY <1>1, Invariance, PTL

-----------------------------------------------------------------------------
(* Refinement.                                                              *)

(* A process with a lock implements the specification in which every insert, *)
(* and every lookup with the delete of what it found, is one atomic step;   *)
(* one without maps to a specification in which nothing happens.            *)
THEOREM Refinement == Spec => OperationsAreAtomic
<1>1. Init => Atomic!Init
  BY InitList, SameSpecification
<1>2. Inv /\ Exclusion /\ SyncInv /\ [Next]_vars => [Atomic!Next]_(Atomic!vars)
  <2> SUFFICES ASSUME Inv, Exclusion, SyncInv, [Next]_vars
               PROVE  [LP!Next]_avars
    BY SameSpecification
  <2>1. CASE Synchronised
    BY <2>1, StepInv, StepKeepsList DEF SyncInv
  <2>2. CASE ~Synchronised
    <3>1. key' = key /\ opt_sync' = opt_sync
      BY ModeIsFixed, KeyIsFixed
    <3>2. UNCHANGED avars
      BY <2>2, <3>1, NothingHappens
    <3> QED BY <3>2
  <2> QED BY <2>1, <2>2
<1> QED BY <1>1, <1>2, Invariance, PTL DEF Spec, OperationsAreAtomic, Atomic!Spec

-----------------------------------------------------------------------------
(* Alarms: exit codes 1 and 2 when the list was never corrupted.            *)

(* main finds the list empty.                                               *)
LEMMA MainFindsZero ==
  ASSUME Inv, Synchronised, ListInv, pc[Main] = "ret"
  PROVE  reg[Main].ret = 0
<1>1. Main \in Threads /\ Inside(Main) /\ Phase(Main) = "length"
  BY ThreadsAre, LabelsOfCalls DEF Inside, Phase
<1>2. \A t \in Workers : DeletesDone(t) = niteratns
  <2> TAKE t \in Workers
  <2>1. pc[t] = "returned"
    BY <1>1, InsideIsAtWork
  <2>2. loop[t].phase = "returned"
    BY <2>1, LabelsOfCalls DEF Inv, Consistent
  <2> QED BY <2>2 DEF DeletesDone
<1>3. aMembers = {}
  <2>1. \A t \in LP!Workers : aDeleted[t] = niteratns
    BY <1>2 DEF aDeleted, LP!Workers, Workers
  <2>2. LP!EmptyAtEnd
    BY LP!Empties, ThreadsAssumption, IterationsAssumption DEF ListInv
  <2> QED BY <2>1, <2>2 DEF LP!EmptyAtEnd
<1>4. Members = {}
  BY <1>3 DEF aMembers
<1> QED BY <1>1, <1>4, CallsReturnWell DEF ListInv

Quiet ==
  /\ exit = 1 => pc[Main] = "main" /\ (created < nthreads \/ joined = nthreads)
  /\ exit # 2

LEMMA StepQuiet ==
  ASSUME Inv, Synchronised, ListInv, Quiet, [Next]_vars
  PROVE  Quiet'
<1>0. ListState
  BY DEF ListInv
<1>1. ASSUME NEW t \in Workers, WorkerStep(t)
      PROVE  Quiet'
  <2>1. t \in Threads /\ t # Main
    BY ThreadsAre
  <2>2. ~SL!Faults(t)
    BY <1>0, <2>1, CallsAreSafe
  <2>3. ~ReportCorruption(t)
    <3>1. pc[t] = "ret" => /\ loop[t].phase = "delete" => reg[t].ret = 0
                           /\ loop[t].phase = "length" => reg[t].ret \in Nat
      BY <1>0, <2>1, CallsReturnWell DEF Phase
    <3>2. -1 \notin Nat
      OBVIOUS
    <3> QED BY <3>1, <3>2 DEF ReportCorruption, At, Failed
  <2>4. exit = Running /\ exit' = exit
    BY <1>1, <2>2, <2>3 DEF WorkerStep, LockGeneral, Call, DeleteFound, UnlockGeneral,
                                 sigsegv_handler, At
  <2> QED BY <2>4 DEF Running, Quiet
<1>2. CASE CreateThread \/ JoinThread \/ MainLength \/ Call(Main)
  <2>1. exit = Running /\ exit' = exit
    BY <1>2 DEF CreateThread, JoinThread, MainLength, Call, At
  <2> QED BY <2>1 DEF Running, Quiet
<1>3. CASE UNCHANGED vars
  BY <1>3 DEF vars, listVars, Quiet
<1>4. CASE Verdict
  <2>1. reg[Main].ret = 0
    BY <1>4, MainFindsZero DEF Verdict, At
  <2>2. exit' \in {SIGFPE, 0}
    BY <1>4, <2>1 DEF Verdict
  <2> QED BY <2>2 DEF SIGFPE, Quiet
<1>5. CASE HandleError
  BY <1>5 DEF HandleError, At, listVars, Quiet
<1> QED BY <1>1, <1>2, <1>3, <1>4, <1>5 DEF Next, MainStep, Terminated

(* With a lock no worker reports a corrupted list, none follows a NULL      *)
(* pointer and main finds no element left over: the process fails only when *)
(* main cannot create a thread or read the clock.                           *)
THEOREM NoAlarmIsFalse == Spec => []NoFalseAlarm
<1> DEFINE QuietIfLocked == Synchronised => Quiet
<1>1. Init => QuietIfLocked
  BY DEF Init, Quiet, Running
<1>2. Inv /\ Exclusion /\ SyncInv /\ QuietIfLocked /\ [Next]_vars => QuietIfLocked'
  <2> SUFFICES ASSUME Inv, Exclusion, SyncInv, QuietIfLocked, [Next]_vars, Synchronised'
               PROVE  Quiet'
    OBVIOUS
  <2>1. Synchronised
    BY ModeIsFixed
  <2> QED BY <2>1, StepQuiet DEF SyncInv
<1>3. QuietIfLocked => NoFalseAlarm
  BY DEF Quiet, NoFalseAlarm
<1> HIDE DEF QuietIfLocked
<1> QED BY <1>1, <1>2, <1>3, Invariance, PTL DEF Spec
=============================================================================
