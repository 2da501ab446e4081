--------------------------- MODULE Lab2bList_proof ---------------------------
(***************************************************************************)
(* What holds of lab2b for any number of threads, iterations and lists.     *)
(*                                                                         *)
(* With locks or without, and whatever stands in the uninitialised j: main  *)
(* frees nothing that a worker still uses (Inv), no link is cleared and a   *)
(* length follows no NULL (RInv), and exit code 0 means empty lists         *)
(* (MainSaw).                                                              *)
(*                                                                         *)
(* With locks: no two workers are inside a function of the same list        *)
(* (LInv), every list nobody is inside is a sorted ring, inserts and        *)
(* deletes take effect at one step (SyncInv), and, where j is not negative, *)
(* the process exits neither 1 nor 2 unless main could not create a thread  *)
(* or read the clock (Quiet).                                              *)
(***************************************************************************)
EXTENDS Lab2bList, TLAPS

(* The places where a call of the list's functions may be.                  *)
InCall == SL!Labels \cup {"ret"}

(* Once main has joined a worker it has returned; main leaves its loops for *)
(* the lists, and then for cleanup(), only when all are joined - or for     *)
(* cleanup() at once, with status 1, before all are created.               *)
Shape == /\ DOMAIN pc = Threads
         /\ created \in 0..nthreads /\ joined \in 0..nthreads
Joined == /\ joined > 0 => created = nthreads
          /\ \A t \in 1..joined : pc[t] = "returned"
MainOrder == /\ pc[Main] # "main" => joined = nthreads \/ created < nthreads
             /\ pc[Main] # "main" /\ status # 1 => joined = nthreads
             /\ pc[Main] \in InCall => joined = nthreads
             /\ freed => pc[Main] = "exit"

Inv == Shape /\ Joined /\ MainOrder

LEMMA Places ==
  /\ "main" \notin InCall /\ "exit" \notin InCall /\ "returned" \notin InCall
  /\ "cleanup" \notin InCall
BY DEF InCall, SL!Labels

-----------------------------------------------------------------------------
(* A step of a function of SortedList moves its caller only, and stays in   *)
(* the call.                                                               *)

Moves(t, labels) == \E label \in labels : pc' = [pc EXCEPT ![t] = label]

LEMMA InsertMoves ==
  ASSUME NEW t, SL!InsertFirst(t) \/ SL!InsertScan(t) \/ SL!InsertLink(t)
  PROVE  Moves(t, InCall)
BY DEF Moves, InCall, SL!Labels, SL!InsertFirst, SL!InsertScan, SL!InsertLink, SL!Load,
       SL!Return

LEMMA LookupMoves ==
  ASSUME NEW t, SL!LookupFirst(t) \/ SL!LookupScan(t)
  PROVE  Moves(t, InCall)
BY DEF Moves, InCall, SL!Labels, SL!LookupFirst, SL!LookupScan, SL!Load, SL!Return

LEMMA DeleteMoves ==
  ASSUME NEW t, SL!DeleteLoad(t) \/ SL!DeleteCheck(t) \/ SL!DeleteLink(t)
  PROVE  Moves(t, InCall)
BY DEF Moves, InCall, SL!Labels, SL!DeleteLoad, SL!DeleteCheck, SL!DeleteLink, SL!Load,
       SL!Return

LEMMA LengthMoves ==
  ASSUME NEW t, SL!LengthHead(t) \/ SL!LengthElement(t)
  PROVE  Moves(t, InCall)
BY DEF Moves, InCall, SL!Labels, SL!LengthHead, SL!LengthElement, SL!Load, SL!Return,
       SL!Test, SL!Corrupted

LEMMA ListStepMoves ==
  ASSUME NEW t, SL!ListStep(t)
  PROVE  pc[t] \in SL!Labels /\ Moves(t, InCall)
BY InsertMoves, LookupMoves, DeleteMoves, LengthMoves DEF SL!ListStep

-----------------------------------------------------------------------------
LEMMA InitInv == Init => Inv
BY ThreadsAssumption, Places
   DEF Init, Inv, Shape, Joined, MainOrder, Threads, Workers, Main

(* A worker at work may go anywhere: nobody relies on it.                   *)
LEMMA WorkerKeepsInv ==
  ASSUME Inv, NEW t \in Workers, WorkerStep(t)
  PROVE  Inv'
<1>1. /\ UNCHANGED mainVars
      /\ \/ pc' = pc
         \/ /\ pc[t] # "returned"
            /\ \E label : pc' = [pc EXCEPT ![t] = label]
  <2>1. CASE LockGeneral(t)
    BY <2>1 DEF LockGeneral, At, SL!CallInsert, SL!CallLength, SL!CallLookup
  <2>2. CASE OutOfBounds(t)
    BY <2>2 DEF OutOfBounds, At, mainVars
  <2>3. CASE Call(t)
    BY <2>3, ListStepMoves, Places DEF Call, Moves, InCall
  <2>4. CASE DeleteFound(t)
    BY <2>4 DEF DeleteFound, At, SL!CallDelete
  <2>5. CASE UnlockGeneral(t)
    BY <2>5 DEF UnlockGeneral, At
  <2>6. CASE ReportCorruption(t)
    BY <2>6 DEF ReportCorruption, listVars
  <2>7. CASE sigsegv_handler(t)
    BY <2>7 DEF sigsegv_handler, listVars
  <2>8. QED
    BY <2>1, <2>2, <2>3, <2>4, <2>5, <2>6, <2>7 DEF WorkerStep
<1>2. t # Main /\ t \in Threads /\ Main \in Threads
  BY ThreadsAssumption DEF Workers, Threads, Main
<1>3. Shape'
  BY <1>1 DEF Inv, Shape, mainVars
<1>4. Joined'
  <2>1. joined' = joined /\ created' = created
    BY <1>1 DEF mainVars
  <2>2. ASSUME NEW u \in 1..joined
        PROVE  pc'[u] = "returned"
    <3>1. pc[u] = "returned" /\ u \in Threads
      BY ThreadsAssumption DEF Inv, Joined, Shape, Threads, Workers
    <3>2. QED BY <1>1, <3>1 DEF Inv, Shape
  <2>3. QED BY <2>1, <2>2 DEF Inv, Joined
<1>5. MainOrder'
  <2>1. pc'[Main] = pc[Main]
    BY <1>1, <1>2 DEF Inv, Shape
  <2>2. QED BY <1>1, <2>1 DEF Inv, MainOrder, mainVars
<1>6. QED BY <1>3, <1>4, <1>5 DEF Inv

LEMMA MainKeepsInv ==
  ASSUME Inv, MainStep \/ HandleError
  PROVE  Inv'
<1>1. Main \in Threads /\ Main \notin 1..nthreads /\ nthreads \in Nat
  BY ThreadsAssumption DEF Threads, Workers, Main
<1>2. CASE CreateThread
  <2>1. PICK label : pc' = [pc EXCEPT ![created + 1] = label]
    BY <1>2 DEF CreateThread
  <2>2. /\ created' = created + 1 /\ joined' = joined /\ freed' = freed
        /\ status' = status /\ created < nthreads /\ joined = 0 /\ pc[Main] = "main"
    BY <1>1, <1>2 DEF CreateThread, At, Inv, Shape, Joined
  <2>3. pc'[Main] = pc[Main] /\ DOMAIN pc' = Threads
    BY <1>1, <2>1, <2>2 DEF Inv, Shape, Main
  <2>4. QED BY <1>1, <2>2, <2>3 DEF Inv, Shape, Joined, MainOrder
<1>3. CASE JoinThread
  <2>1. /\ joined' = joined + 1 /\ joined < nthreads /\ created = nthreads
        /\ pc[joined + 1] = "returned" /\ pc[Main] = "main"
        /\ pc' = pc /\ created' = created /\ freed' = freed /\ status' = status
    BY <1>3 DEF JoinThread, At, listVars
  <2>2. 1..joined' = 1..joined \cup {joined + 1}
    BY <2>1 DEF Inv, Shape
  <2>3. QED BY <1>1, <2>1, <2>2 DEF Inv, Shape, Joined, MainOrder
<1>4. ASSUME NEW label, pc' = [pc EXCEPT ![Main] = label],
             created' = created, joined' = joined,
             status' = 1 \/ joined = nthreads,
             joined = nthreads \/ created < nthreads,
             label \in InCall => joined = nthreads,
             freed' => label = "exit"
      PROVE  Inv'
  <2>1. pc'[Main] = label /\ DOMAIN pc' = Threads
    BY <1>1, <1>4 DEF Inv, Shape
  <2>2. \A t \in 1..joined : pc'[t] = pc[t]
    BY <1>1, <1>4 DEF Inv, Shape
  <2>3. QED BY <1>4, <2>1, <2>2 DEF Inv, Shape, Joined, MainOrder
<1>5. freed => pc[Main] = "exit"
  BY DEF Inv, MainOrder
<1>6. /\ pc[Main] # "main" => joined = nthreads \/ created < nthreads
      /\ pc[Main] # "main" => status = 1 \/ joined = nthreads
      /\ pc[Main] \in InCall => joined = nthreads
  BY DEF Inv, MainOrder
<1>7. CASE MainLength
  BY <1>4, <1>5, <1>7 DEF MainLength, At, SL!CallLength, mainVars
<1>8. CASE Call(Main)
  BY <1>4, <1>5, <1>6, <1>8, ListStepMoves, Places DEF Call, Moves, InCall, mainVars
<1>9. CASE MainLengthReturns
  <2>1. pc[Main] = "ret" /\ UNCHANGED <<created, joined, freed>>
        /\ status' \in {status, 2}
    BY <1>9 DEF MainLengthReturns, At
  <2>2. QED BY <1>4, <1>5, <1>6, <1>9, <2>1, Places DEF MainLengthReturns, InCall
<1>10. CASE Report
  BY <1>4, <1>5, <1>10, Places DEF Report, At, mainVars, Inv, Shape, Joined, MainOrder
<1>11. CASE cleanup
  BY <1>4, <1>6, <1>11, Places DEF cleanup, At
<1>12. CASE Exit
  BY <1>12 DEF Exit, listVars, mainVars, Inv, Shape, Joined, MainOrder
<1>13. CASE HandleError
  BY <1>4, <1>5, <1>13, Places DEF HandleError, At
<1>14. QED
  BY <1>2, <1>3, <1>7, <1>8, <1>9, <1>10, <1>11, <1>12, <1>13 DEF MainStep

LEMMA StepInv == Inv /\ [Next]_vars => Inv'
<1> SUFFICES ASSUME Inv, [Next]_vars
             PROVE  Inv'
  OBVIOUS
<1>1. CASE \E t \in Workers : WorkerStep(t)
  BY <1>1, WorkerKeepsInv
<1>2. CASE (\E t \in Workers : freed /\ sigsegv_handler(t)) \/ UNCHANGED vars
  <2>1. UNCHANGED <<pc, created, joined, freed, status>>
    BY <1>2 DEF sigsegv_handler, listVars, mainVars, vars
  <2>2. QED BY <2>1 DEF Inv, Shape, Joined, MainOrder
<1>3. CASE MainStep \/ HandleError
  BY <1>3, MainKeepsInv
<1>4. QED BY <1>1, <1>2, <1>3 DEF Next, Terminated

(* cleanup() runs only when every worker has returned, unless main could    *)
(* not create them all: the locks, keys and elements of the workers are not *)
(* used after they are freed (FreedWhenAlone).                             *)
THEOREM Alone == Spec => []FreedWhenAlone
<1>1. Inv => FreedWhenAlone
  BY ThreadsAssumption DEF Inv, Joined, MainOrder, FreedWhenAlone, Workers
<1>2. QED BY <1>1, InitInv, StepInv, PTL DEF Spec

-----------------------------------------------------------------------------
(* Mutual exclusion.  A worker inside a call has taken the lock of the list *)
(* its turn is about; the turn does not change before the lock is released. *)

Inside(t) == pc[t] \in InCall

LocksShape == /\ DOMAIN pc = Threads /\ DOMAIN loop = Threads
              /\ DOMAIN locks = Lists
              /\ \A t \in Threads : {"phase", "i"} \subseteq DOMAIN loop[t]

HoldsItsLock ==
  opt_sync # "U" =>
    \A t \in Workers : Inside(t) => list_num(t) \in Lists /\ locks[list_num(t)] = 1

(* With locks two workers are never inside calls for the same list.         *)
OneWorkerPerList ==
  opt_sync # "U" =>
    \A t, u \in Workers :
      t # u /\ Inside(t) /\ Inside(u) => list_num(t) # list_num(u)

LInv == LocksShape /\ HoldsItsLock /\ OneWorkerPerList

LEMMA PlacesOfLoops ==
  /\ \A n : \A place \in AfterInsert(n) \cup {AfterLength(n), AfterDelete(n)} :
       {"phase", "i"} \subseteq DOMAIN place
  /\ \A place : Label(place) \notin InCall
  /\ "unborn" \notin InCall /\ "lock" \notin InCall /\ "corrupted" \notin InCall
  /\ "main" \notin InCall /\ "ret" \in InCall
BY DEF AfterInsert, AfterLength, AfterDelete, Label, InCall, SL!Labels

LEMMA InitLInv == Init => LInv
<1> SUFFICES ASSUME Init
             PROVE  LInv
  OBVIOUS
<1>1. LocksShape
  BY DEF Init, LocksShape
<1>2. \A t \in Workers : ~Inside(t)
  BY PlacesOfLoops, ThreadsAssumption DEF Init, Inside, Threads, Workers, Main
<1>3. QED BY <1>1, <1>2 DEF LInv, HoldsItsLock, OneWorkerPerList

(* Only the thread that moves changes its place and its turn.               *)
LEMMA OthersKeepTurn ==
  ASSUME NEW t, NEW place, NEW label, key' = key,
         loop' = loop \/ loop' = [loop EXCEPT ![t] = place],
         pc' = pc \/ pc' = [pc EXCEPT ![t] = label],
         NEW u \in Workers, u # t, LocksShape
  PROVE  Inside(u)' = Inside(u) /\ list_num(u)' = list_num(u)
BY DEF LocksShape, Inside, list_num, ListOf, Threads

(* A step that leaves its thread outside of every call, and frees at most   *)
(* the lock of the call it was in.                                         *)
LEMMA StepOutside ==
  ASSUME LInv, NEW t \in Threads, NEW place, NEW label, label \notin InCall,
         key' = key, opt_sync' = opt_sync,
         loop' = loop \/ loop' = [loop EXCEPT ![t] = place],
         {"phase", "i"} \subseteq DOMAIN place \/ loop' = loop,
         pc' = [pc EXCEPT ![t] = label],
         \/ locks' = locks
         \/ t \in Workers /\ Inside(t) /\ Release(list_num(t))
  PROVE  LInv'
<1>1. LocksShape'
  BY DEF LInv, LocksShape, Release, Lists, sublist_num
<1>2. ~Inside(t)'
  BY DEF LInv, LocksShape, Inside
<1>3. \A u \in Workers : u # t => Inside(u)' = Inside(u) /\ list_num(u)' = list_num(u)
  BY OthersKeepTurn DEF LInv
<1>4. HoldsItsLock'
  <2> SUFFICES ASSUME opt_sync # "U", NEW u \in Workers, Inside(u)'
               PROVE  list_num(u)' \in Lists /\ locks'[list_num(u)'] = 1
    BY DEF HoldsItsLock
  <2>1. u # t /\ Inside(u) /\ list_num(u)' = list_num(u)
    BY <1>2, <1>3
  <2>2. list_num(u) \in Lists /\ locks[list_num(u)] = 1
    BY <2>1 DEF LInv, HoldsItsLock
  <2>3. t \in Workers /\ Inside(t) => list_num(u) # list_num(t)
    BY <2>1 DEF LInv, OneWorkerPerList
  <2>4. QED BY <2>1, <2>2, <2>3 DEF Release, LInv, LocksShape
<1>5. OneWorkerPerList'
  <2> SUFFICES ASSUME opt_sync # "U", NEW u \in Workers, NEW v \in Workers, u # v,
                      Inside(u)', Inside(v)'
               PROVE  list_num(u)' # list_num(v)'
    BY DEF OneWorkerPerList
  <2>1. u # t /\ v # t
    BY <1>2
  <2>2. QED BY <1>3, <2>1 DEF LInv, OneWorkerPerList
<1>6. QED BY <1>1, <1>4, <1>5 DEF LInv

(* A step within a call, or of main: no worker comes in, goes out, or turns *)
(* to another list, and no lock changes.                                   *)
LEMMA StepInside ==
  ASSUME LInv, LocksShape', opt_sync' = opt_sync, locks' = locks,
         \A u \in Workers : Inside(u)' => Inside(u) /\ list_num(u)' = list_num(u)
  PROVE  LInv'
<1>1. HoldsItsLock'
  BY DEF LInv, HoldsItsLock
<1>2. OneWorkerPerList'
  BY DEF LInv, OneWorkerPerList
<1>3. QED BY <1>1, <1>2 DEF LInv

LEMMA LockKeepsLInv ==
  ASSUME LInv, NEW t \in Workers, LockGeneral(t)
  PROVE  LInv'
<1>1. /\ key' = key /\ opt_sync' = opt_sync /\ loop' = loop
      /\ list_num(t) \in Lists /\ t \in Threads
      /\ opt_sync # "U" => /\ locks[list_num(t)] = 0
                           /\ locks' = [locks EXCEPT ![list_num(t)] = 1]
      /\ opt_sync = "U" => locks' = locks
  BY DEF LockGeneral, Threads
<1>2. PICK label : pc' = [pc EXCEPT ![t] = label]
  BY DEF LockGeneral, SL!CallInsert, SL!CallLength, SL!CallLookup
<1>3. LocksShape'
  BY <1>1, <1>2 DEF LInv, LocksShape, Lists, sublist_num
<1>4. \A u \in Workers : u # t => Inside(u)' = Inside(u)
  BY <1>1, <1>2, OthersKeepTurn DEF LInv
<1>5. \A u \in Workers : list_num(u)' = list_num(u)
  BY <1>1 DEF list_num, ListOf
<1>6. opt_sync # "U" =>
        \A u \in Workers : u # t /\ Inside(u) => /\ list_num(u) # list_num(t)
                                                 /\ list_num(u) \in Lists
                                                 /\ locks[list_num(u)] = 1
  BY <1>1 DEF LInv, HoldsItsLock
<1>7. HoldsItsLock'
  BY <1>1, <1>4, <1>5, <1>6 DEF HoldsItsLock, LInv, LocksShape
<1>8. OneWorkerPerList'
  BY <1>1, <1>4, <1>5, <1>6 DEF OneWorkerPerList, LInv
<1>9. QED BY <1>3, <1>7, <1>8 DEF LInv

LEMMA CallKeepsLInv ==
  ASSUME LInv, NEW t \in Threads, Call(t)
  PROVE  LInv'
<1>1. PICK label : pc' = [pc EXCEPT ![t] = label]
  BY ListStepMoves DEF Call, Moves
<1>2. /\ key' = key /\ opt_sync' = opt_sync /\ loop' = loop /\ locks' = locks
      /\ Inside(t)
  BY ListStepMoves DEF Call, SL!ListStep, Inside, InCall
<1>3. LocksShape'
  BY <1>1, <1>2 DEF LInv, LocksShape, Lists, sublist_num
<1>4. \A u \in Workers : u # t => Inside(u)' = Inside(u)
  BY <1>1, <1>2, OthersKeepTurn DEF LInv
<1>5. \A u \in Workers : list_num(u)' = list_num(u)
  BY <1>2 DEF list_num, ListOf
<1>6. QED BY <1>2, <1>3, <1>4, <1>5, StepInside

LEMMA DeleteKeepsLInv ==
  ASSUME LInv, NEW t \in Workers, DeleteFound(t)
  PROVE  LInv'
<1>1. /\ key' = key /\ opt_sync' = opt_sync /\ locks' = locks /\ t \in Threads
      /\ pc[t] = "ret" /\ loop[t].phase = "lookup"
      /\ loop' = [loop EXCEPT ![t].phase = "delete"]
      /\ pc' = [pc EXCEPT ![t] = "del_prev"]
  BY DEF DeleteFound, At, SL!CallDelete, Threads
<1>2. LocksShape'
  BY <1>1 DEF LInv, LocksShape, Lists, sublist_num
<1>3. Inside(t) /\ list_num(t)' = list_num(t)
  BY <1>1, PlacesOfLoops DEF Inside, list_num, ListOf, LInv, LocksShape
<1>4. \A u \in Workers : u # t => Inside(u)' = Inside(u) /\ list_num(u)' = list_num(u)
  BY <1>1 DEF Inside, list_num, ListOf, LInv, LocksShape, Threads
<1>5. QED BY <1>1, <1>2, <1>3, <1>4, StepInside

LEMMA WorkerKeepsLInv ==
  ASSUME LInv, NEW t \in Workers, WorkerStep(t)
  PROVE  LInv'
<1>1. t \in Threads
  BY DEF Threads
<1>2. CASE OutOfBounds(t)
  <2>1. CASE UNCHANGED <<pc, loop>>
    BY <1>2, <2>1 DEF OutOfBounds, LInv, LocksShape, HoldsItsLock, OneWorkerPerList,
                      Inside, list_num, ListOf, Lists, sublist_num
  <2>2. CASE /\ loop' = [loop EXCEPT ![t] = AfterLength(loop[t].i + 1)]
             /\ pc' = [pc EXCEPT ![t] = Label(loop'[t])]
    <3> DEFINE place == AfterLength(loop[t].i + 1)
    <3>1. {"phase", "i"} \subseteq DOMAIN place /\ Label(loop'[t]) \notin InCall
      BY PlacesOfLoops
    <3>2. key' = key /\ opt_sync' = opt_sync /\ locks' = locks
      BY <1>2 DEF OutOfBounds
    <3> HIDE DEF place
    <3>3. QED BY <1>1, <2>2, <3>1, <3>2, StepOutside DEF place
  <2>3. QED BY <1>2, <2>1, <2>2 DEF OutOfBounds
<1>3. CASE UnlockGeneral(t)
  <2>1. /\ key' = key /\ opt_sync' = opt_sync /\ Release(list_num(t)) /\ Inside(t)
    BY <1>3, PlacesOfLoops DEF UnlockGeneral, At, Inside
  <2>2. CASE pc' = [pc EXCEPT ![t] = "corrupted"] /\ loop' = loop
    BY <1>1, <2>1, <2>2, PlacesOfLoops, StepOutside
  <2>3. ASSUME NEW place, {"phase", "i"} \subseteq DOMAIN place,
               loop' = [loop EXCEPT ![t] = place],
               pc' = [pc EXCEPT ![t] = Label(loop'[t])]
        PROVE  LInv'
    BY <1>1, <2>1, <2>3, PlacesOfLoops, StepOutside
  <2>4. QED BY <1>3, <2>2, <2>3, PlacesOfLoops DEF UnlockGeneral
<1>4. CASE ReportCorruption(t) \/ sigsegv_handler(t)
  BY <1>4 DEF ReportCorruption, sigsegv_handler, listVars, LInv, LocksShape, HoldsItsLock,
              OneWorkerPerList, Inside, list_num, ListOf, Lists, sublist_num
<1>5. QED
  BY <1>1, <1>2, <1>3, <1>4, LockKeepsLInv, CallKeepsLInv, DeleteKeepsLInv DEF WorkerStep

LEMMA MainKeepsLInv ==
  ASSUME Inv, LInv, MainStep \/ HandleError
  PROVE  LInv'
<1>1. Main \in Threads /\ Main \notin Workers
  BY ThreadsAssumption DEF Threads, Workers, Main
<1>2. CASE CreateThread
  <2>1. PICK place \in AfterInsert(0) :
          /\ loop' = [loop EXCEPT ![created'] = place]
          /\ pc' = [pc EXCEPT ![created'] = Label(place)]
    BY <1>2 DEF CreateThread
  <2>2. key' = key /\ opt_sync' = opt_sync /\ locks' = locks
    BY <1>2 DEF CreateThread
  <2>3. created' \in Threads
    BY <1>2, ThreadsAssumption DEF CreateThread, Inv, Shape, Threads, Workers
  <2>4. {"phase", "i"} \subseteq DOMAIN place /\ Label(place) \notin InCall
    BY PlacesOfLoops
  <2>5. QED BY <2>1, <2>2, <2>3, <2>4, StepOutside
<1>3. CASE Call(Main)
  BY <1>1, <1>3, CallKeepsLInv
<1>4. CASE (MainStep /\ ~CreateThread /\ ~Call(Main)) \/ HandleError
  <2>1. /\ key' = key /\ opt_sync' = opt_sync /\ locks' = locks
        /\ loop' = loop \/ loop' = [loop EXCEPT ![Main].i = @ + 1]
        /\ pc' = pc \/ \E label : pc' = [pc EXCEPT ![Main] = label]
    BY <1>4 DEF MainStep, JoinThread, MainLength, MainLengthReturns, Report, cleanup, Exit,
                HandleError, SL!CallLength, listVars
  <2>2. LocksShape'
    BY <1>1, <2>1 DEF LInv, LocksShape, Lists, sublist_num
  <2>3. \A u \in Workers : u \in Threads /\ loop'[u] = loop[u] /\ pc'[u] = pc[u]
    BY <1>1, <2>1 DEF LInv, LocksShape, Threads
  <2>4. \A u \in Workers : Inside(u)' = Inside(u) /\ list_num(u)' = list_num(u)
    BY <2>1, <2>3 DEF Inside, list_num, ListOf
  <2>5. QED BY <2>1, <2>2, <2>4, StepInside
<1>5. QED BY <1>2, <1>3, <1>4

LEMMA StepLInv == Inv /\ LInv /\ [Next]_vars => LInv'
<1> SUFFICES ASSUME Inv, LInv, [Next]_vars
             PROVE  LInv'
  OBVIOUS
<1>1. CASE \E t \in Workers : WorkerStep(t)
  BY <1>1, WorkerKeepsLInv
<1>2. CASE (\E t \in Workers : freed /\ sigsegv_handler(t)) \/ UNCHANGED vars
  BY <1>2 DEF sigsegv_handler, listVars, vars, LInv, LocksShape, HoldsItsLock,
              OneWorkerPerList, Inside, list_num, ListOf, Lists, sublist_num
<1>3. CASE MainStep \/ HandleError
  BY <1>3, MainKeepsLInv
<1>4. QED BY <1>1, <1>2, <1>3 DEF Next, Terminated

(* lock_general() and unlock_general() keep two workers from walking or     *)
(* changing the same list at the same time, whichever lists their keys and  *)
(* the uninitialised j select (OneWorkerPerList).                          *)
THEOREM ExclusionPerList == Spec => []OneWorkerPerList
<1>1. LInv => OneWorkerPerList
  BY DEF LInv
<1>2. QED BY <1>1, InitInv, StepInv, InitLInv, StepLInv, PTL DEF Spec

-----------------------------------------------------------------------------
(* What holds without locks.  Lists_proof says what one step of a function  *)
(* does; here it is applied to the threads of this program.                *)

(* The variables of AtomicList, as the refinement mapping gives them.       *)
AllKeys == UNION {hash_str(l) : l \in Lists}

aKey == [x \in Owned |-> key[Mine(x[1], x[2])]]
aMembers == {Owner(e) : e \in UNION {Members(l) : l \in Lists}}
aInserted == [t \in Workers |-> InsertsDone(t)]
aDeleted == [t \in Workers |-> DeletesDone(t)]
avars == <<aKey, aMembers, aInserted, aDeleted>>

LP == INSTANCE Lists_proof WITH
  Procs <- Threads, Keys <- AllKeys,
  keyOf <- aKey, members <- aMembers, inserted <- aInserted, deleted <- aDeleted

USE ThreadsAssumption, IterationsAssumption

(* The functions of the two instances are the same.                         *)
LEMMA SameFunctions == ASSUME NEW t PROVE SL!ListStep(t) <=> LP!ListStep(t)
<1>1. SL!Faults(t) <=> LP!Faults(t)
  BY DEF SL!Faults, LP!Faults, SL!Operand, LP!Operand, SL!Labels, LP!Labels
<1>2. SL!Labels = LP!Labels
  BY DEF SL!Labels, LP!Labels
<1>3. SL!InsertFirst(t) <=> LP!InsertFirst(t)
  BY DEF SL!InsertFirst, LP!InsertFirst, SL!Load, LP!Load
<1>4. SL!InsertScan(t) <=> LP!InsertScan(t)
  BY DEF SL!InsertScan, LP!InsertScan, SL!Load, LP!Load, SL!strcmp, LP!strcmp
<1>5. SL!InsertLink(t) <=> LP!InsertLink(t)
  BY DEF SL!InsertLink, LP!InsertLink, SL!Return, LP!Return, SL!Idle, LP!Idle
<1>6. SL!LookupFirst(t) <=> LP!LookupFirst(t)
  BY DEF SL!LookupFirst, LP!LookupFirst, SL!Load, LP!Load
<1>7. SL!LookupScan(t) <=> LP!LookupScan(t)
  BY DEF SL!LookupScan, LP!LookupScan, SL!Load, LP!Load, SL!strcmp, LP!strcmp, SL!Return,
         LP!Return, SL!Idle, LP!Idle
<1>8. SL!DeleteLoad(t) <=> LP!DeleteLoad(t)
  BY DEF SL!DeleteLoad, LP!DeleteLoad, SL!Load, LP!Load
<1>9. SL!DeleteCheck(t) <=> LP!DeleteCheck(t)
  BY DEF SL!DeleteCheck, LP!DeleteCheck, SL!Return, LP!Return, SL!Idle, LP!Idle
<1>10. SL!DeleteLink(t) <=> LP!DeleteLink(t)
  BY DEF SL!DeleteLink, LP!DeleteLink, SL!Return, LP!Return, SL!Idle, LP!Idle
<1>11. SL!LengthHead(t) <=> LP!LengthHead(t)
  BY DEF SL!LengthHead, LP!LengthHead, SL!Return, LP!Return, SL!Idle, LP!Idle, SL!Test,
         LP!Test, SL!Corrupted, LP!Corrupted, SL!Load, LP!Load
<1>12. SL!LengthElement(t) <=> LP!LengthElement(t)
  BY DEF SL!LengthElement, LP!LengthElement, SL!Return, LP!Return, SL!Idle, LP!Idle,
         SL!Test, LP!Test, SL!Corrupted, LP!Corrupted, SL!Load, LP!Load
<1> QED
  BY <1>1, <1>2, <1>3, <1>4, <1>5, <1>6, <1>7, <1>8, <1>9, <1>10, <1>11, <1>12
     DEF SL!ListStep, LP!ListStep

LEMMA SameCalls ==
  ASSUME NEW t, NEW list, NEW x
  PROVE  /\ SL!CallInsert(t, list, x) <=> LP!CallInsert(t, list, x)
         /\ SL!CallLookup(t, list, x) <=> LP!CallLookup(t, list, x)
         /\ SL!CallDelete(t, x) <=> LP!CallDelete(t, x)
         /\ SL!CallLength(t, list) <=> LP!CallLength(t, list)
         /\ SL!Faults(t) <=> LP!Faults(t)
         /\ SL!Idle = LP!Idle
<1>1. SL!Faults(t) <=> LP!Faults(t)
  BY DEF SL!Faults, LP!Faults, SL!Operand, LP!Operand, SL!Labels, LP!Labels
<1> QED
  BY <1>1 DEF SL!CallInsert, LP!CallInsert, SL!CallLookup, LP!CallLookup, SL!CallDelete, LP!CallDelete,
       SL!CallLength, LP!CallLength, SL!Idle, LP!Idle

WorkerPlaces == {"unborn", "lock", "returned", "corrupted"} \cup InCall

(* A worker at work is at a turn of one of its loops, and in the function   *)
(* that loop calls.                                                        *)
AtTurn(t) ==
  /\ loop[t].phase \in {"insert", "lookup", "delete"} =>
       loop[t].i \in 0..(niteratns - 1)
  /\ loop[t].phase = "length" => loop[t].i \in Int /\ loop[t].i < sublist_num
  /\ loop[t].phase \in {"insert", "length", "lookup", "delete"}

InItsFunction(t) ==
  /\ pc[t] \in LP!InsertLabels => loop[t].phase = "insert"
  /\ pc[t] \in LP!LengthLabels => loop[t].phase = "length"
  /\ pc[t] \in LP!LookupLabels => loop[t].phase = "lookup"
  /\ pc[t] \in LP!DeleteLabels => loop[t].phase = "delete"
  /\ pc[t] = "lock" => loop[t].phase # "delete"

Turns == \A t \in Workers :
           /\ pc[t] \in WorkerPlaces
           /\ pc[t] \in {"lock", "corrupted"} \cup InCall => AtTurn(t) /\ InItsFunction(t)

MainAtLists == /\ pc[Main] \in {"main", "cleanup", "exit", "ret"} \cup LP!LengthLabels
               /\ loop[Main].i \in 0..sublist_num
               /\ pc[Main] \in InCall => loop[Main].i < sublist_num

RInv == LocksShape /\ LP!Tied /\ (\A t \in Threads : LP!Known(t)) /\ Turns /\ MainAtLists

LEMMA MineIsElement ==
  ASSUME NEW t \in Workers, NEW i \in 0..(niteratns - 1)
  PROVE  Mine(t, i) \in Elems
<1>1. nthreads \in Nat /\ niteratns \in Nat /\ t \in 1..nthreads
  BY ThreadsAssumption, IterationsAssumption DEF Workers
<1>2. (t - 1) * niteratns + niteratns <= nthreads * niteratns
  BY <1>1
<1>3. (t - 1) * niteratns + i \in 0..(nelements - 1)
  BY <1>1, <1>2 DEF nelements
<1> QED BY <1>3 DEF Mine, Elems

LEMMA LabelsOfCalls ==
  /\ InCall = LP!InsertLabels \cup LP!LookupLabels \cup LP!DeleteLabels \cup LP!LengthLabels
               \cup {"ret"}
  /\ SL!Labels = LP!InsertLabels \cup LP!LookupLabels \cup LP!DeleteLabels \cup LP!LengthLabels
  /\ {"main", "unborn", "lock", "returned", "corrupted", "cleanup", "exit"} \cap InCall = {}
  /\ "ret" \notin SL!Labels
BY DEF InCall, SL!Labels, LP!InsertLabels, LP!LookupLabels, LP!DeleteLabels, LP!LengthLabels

LEMMA InitRInv == Init => RInv
<1> SUFFICES ASSUME Init
             PROVE  RInv
  OBVIOUS
<1>1. LocksShape
  BY InitLInv DEF LInv
<1>2. LP!Tied
  <2>1. NULL \notin LP!Nodes
    BY DEF LP!Nodes, Heads, Elems, NULL, ListHead, Element
  <2>2. LP!Registers
    BY DEF Init, LP!Registers, SL!Idle
  <2>3. LP!LinksLead
    BY <2>1 DEF Init, LP!LinksLead, LP!Nodes
  <2> QED BY <2>1, <2>2, <2>3 DEF LP!Tied
<1>3. \A t \in Threads : pc[t] \in {"main", "unborn"}
  BY DEF Init
<1>4. \A t \in Threads : LP!Known(t)
  BY <1>3 DEF Init, SL!Idle, LP!Known, LP!Lead, LP!InsertLabels, LP!LookupLabels,
              LP!DeleteLabels, LP!LengthLabels
<1>5. Main \in Threads /\ \A t \in Workers : t \in Threads /\ t # Main
  BY ThreadsAssumption DEF Threads, Workers, Main
<1>6. Turns
  BY <1>5, LabelsOfCalls DEF Init, Turns, WorkerPlaces
<1>7. sublist_num \in Nat
  BY ListsAssumption, IterationsAssumption DEF sublist_num
<1>8. MainAtLists
  BY <1>5, <1>7, LabelsOfCalls DEF Init, MainAtLists
<1> QED BY <1>1, <1>2, <1>4, <1>6, <1>8 DEF RInv

(* What a step of thread t leaves to the others.                            *)
LEMMA OthersAtTurn ==
  ASSUME RInv, NEW t \in Threads, LocksShape', LP!Tied',
         \A u \in Threads \ {t} : pc'[u] = pc[u] /\ loop'[u] = loop[u],
         \A u \in Threads : LP!Known(u)',
         t \in Workers => /\ pc'[t] \in WorkerPlaces
                          /\ pc'[t] \in {"lock", "corrupted"} \cup InCall =>
                               AtTurn(t)' /\ InItsFunction(t)',
         t = Main => MainAtLists'
  PROVE  RInv'
<1>1. Main \in Threads /\ \A u \in Workers : u \in Threads /\ u # Main
  BY ThreadsAssumption DEF Threads, Workers, Main
<1>2. Turns'
  <2> SUFFICES ASSUME NEW u \in Workers
               PROVE  /\ pc'[u] \in WorkerPlaces
                      /\ pc'[u] \in {"lock", "corrupted"} \cup InCall =>
                            AtTurn(u)' /\ InItsFunction(u)'
    BY DEF Turns, WorkerPlaces, InCall, SL!Labels
  <2>1. CASE u = t
    BY <2>1
  <2>2. CASE u # t
    BY <1>1, <2>2 DEF RInv, Turns, AtTurn, InItsFunction, sublist_num
  <2> QED BY <2>1, <2>2
<1>3. MainAtLists'
  <2>1. CASE t = Main
    BY <2>1
  <2>2. CASE t # Main
    BY <1>1, <2>2 DEF RInv, MainAtLists, sublist_num
  <2> QED BY <2>1, <2>2
<1> QED BY <1>2, <1>3 DEF RInv

(* Links, registers and places do not change.                               *)
LEMMA SameLinksKeepRInv ==
  ASSUME RInv, UNCHANGED <<next, prev, pc, reg, loop, locks>>
  PROVE  RInv'
<1>1. LocksShape' /\ LP!Tied'
  BY DEF RInv, LocksShape, LP!Tied, LP!Registers, LP!LinksLead, Lists, sublist_num,
         LP!Nodes
<1>2. \A t \in Threads : LP!Known(t)'
  BY DEF RInv, LP!Known, LP!Lead, LP!InsertLabels, LP!LookupLabels, LP!DeleteLabels,
         LP!LengthLabels, LP!Nodes
<1>3. Turns' /\ MainAtLists'
  BY DEF RInv, Turns, AtTurn, InItsFunction, MainAtLists, sublist_num
<1> QED BY <1>1, <1>2, <1>3 DEF RInv

(* A place that is not in a function: nothing is known there.               *)
LEMMA KnownOutside ==
  ASSUME LP!Tied, LP!Registers', \A u \in Threads : LP!Known(u), NEW t \in Threads,
         UNCHANGED <<next, prev>>,
         \A u \in Threads \ {t} : pc'[u] = pc[u] /\ reg'[u] = reg[u],
         pc'[t] \notin SL!Labels, reg'[t] = reg[t] \/ reg'[t] = SL!Idle
  PROVE  LP!Tied' /\ \A u \in Threads : LP!Known(u)'
<1>1. LP!Tied'
  BY DEF LP!Tied, LP!LinksLead, LP!Nodes
<1>2. ASSUME NEW u \in Threads
      PROVE  LP!Known(u)'
  <2>1. CASE u = t
    <3>1. pc'[t] \notin LP!InsertLabels \cup LP!LookupLabels \cup LP!DeleteLabels
                        \cup LP!LengthLabels
      BY LabelsOfCalls
    <3>2. LP!Lead(reg[t])
      BY DEF LP!Known
    <3>3. LP!Lead(reg'[t])
      BY <3>2 DEF LP!Lead, SL!Idle
    <3> QED BY <2>1, <3>1, <3>3 DEF LP!Known, LP!Lead, LP!DeleteLabels, LP!Nodes
  <2>2. CASE u # t
    BY <2>2 DEF LP!Known, LP!Lead, LP!Nodes, LP!InsertLabels, LP!LookupLabels,
                LP!DeleteLabels, LP!LengthLabels
  <2> QED BY <2>1, <2>2
<1> QED BY <1>1, <1>2

LEMMA LockKeepsRInv ==
  ASSUME RInv, LInv, NEW t \in Workers, LockGeneral(t)
  PROVE  RInv'
<1> DEFINE l == list_num(t)
           x == Mine(t, loop[t].i)
<1>1. /\ t \in Threads /\ t # Main /\ l \in Lists /\ pc[t] = "lock"
      /\ next' = next /\ prev' = prev /\ loop' = loop /\ key' = key
  BY ThreadsAssumption DEF LockGeneral, At, Threads, Workers, Main
<1>2. AtTurn(t)
  BY <1>1 DEF RInv, Turns
<1>3. ListHead(l) \in Heads
  BY <1>1 DEF Heads
<1>4. LocksShape'
  BY LockKeepsLInv DEF LInv
<1>5. /\ LP!Registers' /\ LP!OthersKeep(t) /\ LP!Known(t)'
      /\ pc'[t] \in InCall /\ InItsFunction(t)'
  <2>1. CASE loop[t].phase = "insert" /\ LP!CallInsert(t, ListHead(l), x)
    <3>1. x \in Elems /\ x # NULL
      BY <1>2, <2>1, MineIsElement DEF AtTurn, Elems, Element, NULL
    <3>2. LP!Registers' /\ LP!OthersKeep(t) /\ LP!Known(t)'
      <4> HIDE DEF x, l
      <4> QED BY <1>1, <1>3, <2>1, <3>1, LP!CallsKnown DEF RInv, LP!Nodes
    <3>3. pc'[t] = "ins_first"
      BY <1>1, <2>1, LP!Calls DEF RInv, LP!Tied
    <3> QED BY <1>1, <2>1, <3>2, <3>3 DEF InItsFunction, InCall, SL!Labels, LP!InsertLabels,
            LP!LookupLabels, LP!DeleteLabels, LP!LengthLabels
  <2>2. CASE loop[t].phase = "length" /\ LP!CallLength(t, ListHead(l))
    <3>2. LP!Registers' /\ LP!OthersKeep(t) /\ LP!Known(t)'
      <4> HIDE DEF l
      <4> QED BY <1>1, <1>3, <2>2, LP!CallsKnown DEF RInv
    <3>3. pc'[t] = "len_head1"
      BY <1>1, <2>2, LP!Calls DEF RInv, LP!Tied
    <3> QED BY <1>1, <2>2, <3>2, <3>3 DEF InItsFunction, InCall, SL!Labels, LP!InsertLabels,
            LP!LookupLabels, LP!DeleteLabels, LP!LengthLabels
  <2>3. CASE loop[t].phase = "lookup" /\ LP!CallLookup(t, ListHead(l), key[x])
    <3>2. LP!Registers' /\ LP!OthersKeep(t) /\ LP!Known(t)'
      <4> HIDE DEF x, l
      <4> QED BY <1>1, <1>3, <2>3, LP!CallsKnown DEF RInv
    <3>3. pc'[t] = "look_first"
      BY <1>1, <2>3, LP!Calls DEF RInv, LP!Tied
    <3> QED BY <1>1, <2>3, <3>2, <3>3 DEF InItsFunction, InCall, SL!Labels, LP!InsertLabels,
            LP!LookupLabels, LP!DeleteLabels, LP!LengthLabels
  <2> QED BY <2>1, <2>2, <2>3, SameCalls DEF LockGeneral
<1>6. AtTurn(t)'
  BY <1>1, <1>2 DEF AtTurn, sublist_num
<1>7. LP!Tied'
  BY <1>1, <1>5 DEF RInv, LP!Tied, LP!LinksLead, LP!Nodes
<1>8. ASSUME NEW u \in Threads
      PROVE  LP!Known(u)'
  <2>1. CASE u = t
    BY <2>1, <1>5
  <2>2. CASE u # t
    BY <1>1, <1>5, <2>2 DEF RInv, LP!OthersKeep, LP!Known, LP!Lead, LP!Nodes,
         LP!InsertLabels, LP!LookupLabels, LP!DeleteLabels, LP!LengthLabels
  <2> QED BY <2>1, <2>2
<1> QED
  <2>1. \A u \in Threads \ {t} : pc'[u] = pc[u] /\ loop'[u] = loop[u]
    BY <1>1, <1>5 DEF LP!OthersKeep
  <2>2. pc'[t] \in WorkerPlaces
    BY <1>5 DEF WorkerPlaces
  <2> HIDE DEF l, x
  <2> QED BY <1>1, <1>4, <1>5, <1>6, <1>7, <1>8, <2>1, <2>2, OthersAtTurn

LEMMA CallKeepsRInv ==
  ASSUME RInv, LInv, NEW t \in Threads, Call(t)
  PROVE  RInv' /\ LP!StaySet
<1>1. LP!ListStep(t) /\ loop' = loop /\ pc[t] \in SL!Labels
  BY SameFunctions DEF Call, SL!ListStep
<1>2. LP!Tied' /\ LP!StaySet /\ LP!OthersKeep(t) /\ \A u \in Threads : LP!Known(u)'
  BY <1>1, LP!StepKeepsLead DEF RInv
<1>3. \/ pc[t] \in LP!InsertLabels /\ pc'[t] \in LP!InsertLabels \cup {"ret"}
      \/ pc[t] \in LP!LookupLabels /\ pc'[t] \in LP!LookupLabels \cup {"ret"}
      \/ pc[t] \in LP!DeleteLabels /\ pc'[t] \in LP!DeleteLabels \cup {"ret"}
      \/ pc[t] \in LP!LengthLabels /\ pc'[t] \in LP!LengthLabels \cup {"ret"}
  BY <1>1, LP!StaysInFunction DEF RInv, LP!Tied
<1>4. LocksShape'
  BY CallKeepsLInv DEF LInv
<1>5. pc[t] \in InCall /\ pc'[t] \in InCall
  BY <1>3, LabelsOfCalls
<1>6. ASSUME t \in Workers
      PROVE  pc'[t] \in WorkerPlaces /\ AtTurn(t)' /\ InItsFunction(t)'
  <2>1. AtTurn(t) /\ InItsFunction(t)
    BY <1>5, <1>6 DEF RInv, Turns
  <2>2. AtTurn(t)'
    BY <1>1, <2>1 DEF AtTurn, sublist_num
  <2>3. InItsFunction(t)'
    BY <1>1, <1>3, <2>1 DEF InItsFunction, LP!InsertLabels,
            LP!LookupLabels, LP!DeleteLabels, LP!LengthLabels
  <2> QED BY <1>5, <2>2, <2>3 DEF WorkerPlaces
<1>7. ASSUME t = Main
      PROVE  MainAtLists'
  <2>1. MainAtLists /\ loop'[Main] = loop[Main]
    BY <1>1 DEF RInv
  <2>2. pc[Main] \in LP!LengthLabels /\ pc'[Main] \in LP!LengthLabels \cup {"ret"}
    BY <1>3, <1>7, <2>1, <1>1, LabelsOfCalls DEF MainAtLists, LP!InsertLabels,
            LP!LookupLabels, LP!DeleteLabels, LP!LengthLabels
  <2> QED BY <1>5, <1>7, <2>1, <2>2 DEF MainAtLists, sublist_num, LP!LengthLabels
<1> QED
  <2>1. \A u \in Threads \ {t} : pc'[u] = pc[u] /\ loop'[u] = loop[u]
    BY <1>1, <1>2 DEF LP!OthersKeep
  <2> QED BY <1>2, <1>4, <1>6, <1>7, <2>1, OthersAtTurn

LEMMA DeleteKeepsRInv ==
  ASSUME RInv, LInv, NEW t \in Workers, DeleteFound(t)
  PROVE  RInv'
<1>1. /\ t \in Threads /\ t # Main /\ pc[t] = "ret" /\ loop[t].phase = "lookup"
      /\ next' = next /\ prev' = prev /\ loop' = [loop EXCEPT ![t].phase = "delete"]
      /\ LP!CallDelete(t, reg[t].ptr)
  BY SameCalls, ThreadsAssumption DEF DeleteFound, At, Threads, Workers, Main
<1>2. AtTurn(t) /\ loop'[t].phase = "delete" /\ loop'[t].i = loop[t].i
  BY <1>1, LabelsOfCalls DEF RInv, Turns, LocksShape, InCall
<1>3. LocksShape'
  BY DeleteKeepsLInv DEF LInv
<1>4. LP!Registers' /\ LP!OthersKeep(t) /\ LP!Known(t)' /\ pc'[t] = "del_prev"
  <2>1. LP!Tied /\ reg[t].ptr \in LP!Nodes \cup {NULL}
    BY <1>1 DEF RInv, LP!Known, LP!Lead
  <2>2. pc'[t] = "del_prev" /\ LP!Registers' /\ LP!OthersKeep(t)
    BY <1>1, <2>1, LP!Calls DEF LP!Tied
  <2>3. LP!Known(t)'
    <3>1. /\ reg'[t].list = NULL /\ reg'[t].element = reg[t].ptr
          /\ reg'[t].ptr = NULL /\ reg'[t].prev = NULL /\ reg'[t].next = NULL
      BY <1>1, <2>1, LP!Calls DEF LP!Tied
    <3> QED BY <2>1, <2>2, <3>1 DEF LP!Known, LP!Lead, LP!Nodes,
         LP!InsertLabels, LP!LookupLabels, LP!DeleteLabels, LP!LengthLabels
  <2> QED BY <2>2, <2>3
<1>5. pc'[t] \in WorkerPlaces /\ InItsFunction(t)' /\ AtTurn(t)'
  <2>1. pc'[t] \in WorkerPlaces
    BY <1>4 DEF WorkerPlaces, InCall, SL!Labels
  <2>2. InItsFunction(t)'
    BY <1>2, <1>4 DEF InItsFunction,
            LP!InsertLabels, LP!LookupLabels, LP!DeleteLabels, LP!LengthLabels
  <2> QED BY <1>2, <2>1, <2>2, <1>1 DEF AtTurn
<1>6. LP!Tied' /\ \A u \in Threads : LP!Known(u)'
  <2>1. LP!Tied'
    BY <1>1, <1>4 DEF RInv, LP!Tied, LP!LinksLead, LP!Nodes
  <2>2. ASSUME NEW u \in Threads, u # t
        PROVE  LP!Known(u)'
    BY <1>1, <1>4, <2>2 DEF RInv, LP!OthersKeep, LP!Known, LP!Lead, LP!Nodes,
         LP!InsertLabels, LP!LookupLabels, LP!DeleteLabels, LP!LengthLabels
  <2> QED BY <1>4, <2>1, <2>2
<1>7. \A u \in Threads \ {t} : pc'[u] = pc[u] /\ loop'[u] = loop[u]
  BY <1>1, <1>4 DEF LP!OthersKeep, RInv, LocksShape
<1> QED BY <1>1, <1>3, <1>5, <1>6, <1>7, OthersAtTurn

(* A turn that begins is a turn of a loop.                                  *)
LEMMA NextTurn ==
  ASSUME NEW n \in Nat, NEW j \in Int,
         NEW place \in AfterInsert(n) \cup {AfterLength(j), AfterDelete(n)}
  PROVE  /\ place.phase \in {"insert", "lookup"} => place.i \in 0..(niteratns - 1)
         /\ place.phase = "length" => place.i \in Int /\ place.i < sublist_num
         /\ place.phase \in {"insert", "length", "lookup", "returned"}
<1>1. niteratns \in Nat /\ sublist_num \in Int /\ \A g \in GarbageJ : g \in Int
  BY IterationsAssumption, ListsAssumption, GarbageAssumption DEF sublist_num
<1>2. CASE place = AfterDelete(n)
  BY <1>1, <1>2 DEF AfterDelete
<1>3. ASSUME NEW g \in Int, place = AfterLength(g)
      PROVE  /\ place.phase \in {"insert", "lookup"} => place.i \in 0..(niteratns - 1)
             /\ place.phase = "length" => place.i \in Int /\ place.i < sublist_num
             /\ place.phase \in {"insert", "length", "lookup", "returned"}
  <2>1. (place = [phase |-> "length", i |-> g] /\ g < sublist_num) \/ place = AfterDelete(0)
    BY <1>3 DEF AfterLength
  <2> QED BY <1>1, <2>1 DEF AfterDelete
<1>4. CASE place \in AfterInsert(n)
  <2>1. CASE place = [phase |-> "insert", i |-> n] /\ n < niteratns
    BY <1>1, <2>1
  <2>2. CASE \E g \in GarbageJ : place = AfterLength(g)
    BY <1>1, <1>3, <2>2
  <2> QED BY <1>4, <2>1, <2>2 DEF AfterInsert
<1> QED BY <1>2, <1>3, <1>4

(* A thread that is outside of the functions after its step.                *)
LEMMA OutsideKeepsRInv ==
  ASSUME RInv, LInv', NEW t \in Workers,
         NEW place, NEW label \in WorkerPlaces \ InCall,
         UNCHANGED <<next, prev>>,
         reg' = reg \/ reg' = [reg EXCEPT ![t] = SL!Idle],
         pc' = [pc EXCEPT ![t] = label],
         \/ /\ loop' = [loop EXCEPT ![t] = place] /\ label = Label(place)
            /\ \E n \in Nat, j \in Int :
                  place \in AfterInsert(n) \cup {AfterLength(j), AfterDelete(n)}
         \/ /\ loop' = loop /\ label = "corrupted" /\ pc[t] \in InCall
  PROVE  RInv'
<1>1. t \in Threads /\ t # Main /\ DOMAIN loop = Threads /\ DOMAIN pc = Threads
  BY ThreadsAssumption DEF Threads, Workers, Main, RInv, LocksShape
<1>2. \A u \in Threads \ {t} : pc'[u] = pc[u] /\ loop'[u] = loop[u] /\ reg'[u] = reg[u]
  BY <1>1 DEF RInv, LP!Tied, LP!Registers
<1>3. pc'[t] = label /\ (reg'[t] = reg[t] \/ reg'[t] = SL!Idle) /\ LP!Registers'
  BY <1>1 DEF RInv, LP!Tied, LP!Registers, SL!Idle
<1>4. LP!Tied' /\ \A u \in Threads : LP!Known(u)'
  <2>1. label \notin SL!Labels
    BY DEF InCall
  <2> QED BY <1>1, <1>2, <1>3, <2>1, KnownOutside DEF RInv
<1>5. pc'[t] \in {"lock", "corrupted"} \cup InCall => AtTurn(t)' /\ InItsFunction(t)'
  <2> SUFFICES ASSUME label \in {"lock", "corrupted"}
               PROVE  AtTurn(t)' /\ InItsFunction(t)'
    BY <1>3
  <2>1. CASE loop' = loop /\ label = "corrupted" /\ pc[t] \in InCall
    BY <1>1, <1>3, <2>1 DEF RInv, Turns, AtTurn, InItsFunction, sublist_num,
        LP!InsertLabels, LP!LookupLabels, LP!DeleteLabels, LP!LengthLabels
  <2>2. CASE /\ loop' = [loop EXCEPT ![t] = place] /\ label = Label(place)
             /\ \E n \in Nat, j \in Int :
                   place \in AfterInsert(n) \cup {AfterLength(j), AfterDelete(n)}
    <3>1. loop'[t] = place /\ label = "lock" /\ place.phase # "returned"
      BY <1>1, <2>2 DEF Label
    <3>2. /\ place.phase \in {"insert", "lookup"} => place.i \in 0..(niteratns - 1)
          /\ place.phase = "length" => place.i \in Int /\ place.i < sublist_num
          /\ place.phase \in {"insert", "length", "lookup", "returned"}
      BY <2>2, NextTurn
    <3> QED BY <1>3, <3>1, <3>2 DEF AtTurn, InItsFunction, sublist_num,
        LP!InsertLabels, LP!LookupLabels, LP!DeleteLabels, LP!LengthLabels
  <2> QED BY <2>1, <2>2
<1> QED BY <1>1, <1>2, <1>3, <1>4, <1>5, OthersAtTurn DEF LInv

LEMMA WorkerKeepsRInv ==
  ASSUME RInv, LInv, NEW t \in Workers, WorkerStep(t)
  PROVE  RInv' /\ LP!StaySet
<1>1. /\ t \in Threads /\ t # Main /\ LInv' /\ sublist_num \in Nat /\ niteratns \in Nat
      /\ DOMAIN loop = Threads
  <2>1. t \in Threads /\ t # Main
    BY ThreadsAssumption DEF Threads, Workers, Main
  <2>2. sublist_num \in Nat /\ niteratns \in Nat
    BY IterationsAssumption, ListsAssumption DEF sublist_num
  <2>3. DOMAIN loop = Threads
    BY DEF LInv, LocksShape
  <2>4. LInv'
    BY WorkerKeepsLInv
  <2> QED BY <2>1, <2>2, <2>3, <2>4
<1>2. ASSUME UNCHANGED <<next, prev>>
      PROVE  LP!StaySet
  BY <1>2 DEF LP!StaySet
<1>3. CASE LockGeneral(t)
  BY <1>2, <1>3, LockKeepsRInv DEF LockGeneral
<1>4. CASE OutOfBounds(t)
  <2>1. UNCHANGED <<next, prev>> /\ pc[t] = "lock" /\ loop[t].phase = "length"
    BY <1>4 DEF OutOfBounds, At
  <2>2. CASE UNCHANGED <<pc, loop>>
    BY <1>2, <1>4, <2>1, <2>2, SameLinksKeepRInv DEF OutOfBounds
  <2>3. CASE /\ loop' = [loop EXCEPT ![t] = AfterLength(loop[t].i + 1)]
             /\ pc' = [pc EXCEPT ![t] = Label(loop'[t])]
    <3>1. loop[t].i + 1 \in Int
      BY <2>1 DEF RInv, Turns, AtTurn
    <3> DEFINE place == AfterLength(loop[t].i + 1)
    <3>2. loop'[t] = place /\ Label(place) \in WorkerPlaces \ InCall
      BY <1>1, <2>3, LabelsOfCalls DEF Label, WorkerPlaces
    <3>3. \E n \in Nat, j \in Int :
             place \in AfterInsert(n) \cup {AfterLength(j), AfterDelete(n)}
      BY <3>1
    <3>4. reg' = reg
      BY <1>4 DEF OutOfBounds
    <3> HIDE DEF place
    <3> QED BY <1>1, <1>2, <2>1, <2>3, <3>2, <3>3, <3>4, OutsideKeepsRInv DEF place
  <2> QED BY <1>4, <2>2, <2>3 DEF OutOfBounds
<1>5. CASE Call(t)
  BY <1>1, <1>5, CallKeepsRInv
<1>6. CASE DeleteFound(t)
  BY <1>2, <1>6, DeleteKeepsRInv DEF DeleteFound
<1>7. CASE UnlockGeneral(t)
  <2>1. /\ UNCHANGED <<next, prev>> /\ pc[t] = "ret" /\ pc[t] \in InCall
        /\ reg' = [reg EXCEPT ![t] = SL!Idle]
    BY <1>7, LabelsOfCalls DEF UnlockGeneral, At
  <2>2. AtTurn(t)
    BY <2>1 DEF RInv, Turns
  <2>3. ASSUME NEW place, loop' = [loop EXCEPT ![t] = place],
               pc' = [pc EXCEPT ![t] = Label(loop'[t])],
               \E n \in Nat, j \in Int :
                  place \in AfterInsert(n) \cup {AfterLength(j), AfterDelete(n)}
        PROVE  RInv' /\ LP!StaySet
    <3>1. loop'[t] = place /\ Label(place) \in WorkerPlaces \ InCall
      BY <1>1, <2>3, LabelsOfCalls DEF Label, WorkerPlaces
    <3> QED BY <1>1, <1>2, <2>1, <2>3, <3>1, OutsideKeepsRInv
  <2>4. CASE loop[t].phase = "insert" /\ \E place \in AfterInsert(loop[t].i + 1) :
                   /\ loop' = [loop EXCEPT ![t] = place]
                   /\ pc' = [pc EXCEPT ![t] = Label(loop'[t])]
    <3>1. loop[t].i + 1 \in Nat
      BY <1>1, <2>2, <2>4 DEF AtTurn
    <3>2. \A place \in AfterInsert(loop[t].i + 1) :
            \E n \in Nat, j \in Int :
              place \in AfterInsert(n) \cup {AfterLength(j), AfterDelete(n)}
      <4>1. 0 \in Int
        OBVIOUS
      <4> QED BY <3>1, <4>1
    <3> QED BY <2>3, <2>4, <3>2
  <2>5. CASE /\ loop[t].phase = "length" /\ loop' = [loop EXCEPT ![t] = AfterLength(loop[t].i + 1)]
             /\ pc' = [pc EXCEPT ![t] = Label(loop'[t])]
    <3>1. loop[t].i + 1 \in Int
      BY <1>1, <2>2, <2>5 DEF AtTurn
    <3> QED BY <2>3, <2>5, <3>1
  <2>6. CASE /\ loop[t].phase = "delete" /\ loop' = [loop EXCEPT ![t] = AfterDelete(loop[t].i + 1)]
             /\ pc' = [pc EXCEPT ![t] = Label(loop'[t])]
    <3>1. loop[t].i + 1 \in Nat
      BY <1>1, <2>2, <2>6 DEF AtTurn
    <3>2. \A place \in {AfterDelete(loop[t].i + 1)} :
            \E n \in Nat, j \in Int :
              place \in AfterInsert(n) \cup {AfterLength(j), AfterDelete(n)}
      <4>1. 0 \in Int
        OBVIOUS
      <4> QED BY <3>1, <4>1
    <3> QED BY <2>3, <2>6, <3>2
  <2>7. CASE pc' = [pc EXCEPT ![t] = "corrupted"] /\ loop' = loop
    <3>1. "corrupted" \in WorkerPlaces \ InCall
      BY LabelsOfCalls DEF WorkerPlaces
    <3> QED BY <1>1, <1>2, <2>1, <2>7, <3>1, OutsideKeepsRInv
  <2> QED BY <1>7, <2>4, <2>5, <2>6, <2>7 DEF UnlockGeneral
<1>8. CASE ReportCorruption(t) \/ sigsegv_handler(t)
  BY <1>2, <1>8, SameLinksKeepRInv DEF ReportCorruption, sigsegv_handler, listVars
<1> QED BY <1>3, <1>4, <1>5, <1>6, <1>7, <1>8 DEF WorkerStep

(* A step of main to a place outside of the functions.                      *)
LEMMA MainOutsideKeepsRInv ==
  ASSUME RInv, LInv', UNCHANGED <<next, prev>>,
         reg' = reg \/ reg' = [reg EXCEPT ![Main] = SL!Idle],
         \/ pc' = [pc EXCEPT ![Main] = "main"]
         \/ pc' = [pc EXCEPT ![Main] = "cleanup"],
         \/ loop' = loop
         \/ loop' = [loop EXCEPT ![Main].i = @ + 1] /\ pc[Main] \in InCall
  PROVE  RInv'
<1>1. Main \in Threads /\ DOMAIN loop = Threads /\ DOMAIN pc = Threads
      /\ sublist_num \in Nat
  BY ListsAssumption, IterationsAssumption DEF Threads, RInv, LocksShape, sublist_num
<1> PICK label \in {"main", "cleanup"} : pc' = [pc EXCEPT ![Main] = label]
  OBVIOUS
<1>2. \A u \in Threads \ {Main} : pc'[u] = pc[u] /\ loop'[u] = loop[u] /\ reg'[u] = reg[u]
  BY <1>1 DEF RInv, LP!Tied, LP!Registers
<1>3. /\ pc'[Main] = label /\ (reg'[Main] = reg[Main] \/ reg'[Main] = SL!Idle)
      /\ LP!Registers'
  BY <1>1 DEF RInv, LP!Tied, LP!Registers, SL!Idle
<1>4. LP!Tied' /\ \A u \in Threads : LP!Known(u)'
  <2>1. label \notin SL!Labels
    BY LabelsOfCalls
  <2> QED BY <1>1, <1>2, <1>3, <2>1, KnownOutside DEF RInv
<1>5. MainAtLists'
  <2>1. MainAtLists /\ label \notin InCall
    BY LabelsOfCalls DEF RInv
  <2>2. loop'[Main].i \in 0..sublist_num
    <3>1. CASE loop' = loop
      BY <2>1, <3>1 DEF MainAtLists
    <3>2. CASE loop' = [loop EXCEPT ![Main].i = @ + 1] /\ pc[Main] \in InCall
      <4>1. "i" \in DOMAIN loop[Main]
        BY <1>1 DEF RInv, LocksShape
      <4>2. loop'[Main].i = loop[Main].i + 1
        BY <1>1, <3>2, <4>1
      <4> QED BY <1>1, <2>1, <3>2, <4>2 DEF MainAtLists
    <3> QED BY <3>1, <3>2
  <2> QED BY <1>3, <2>1, <2>2 DEF MainAtLists, sublist_num
<1>6. Main \notin Workers
  BY ThreadsAssumption DEF Workers, Main
<1> QED BY <1>1, <1>2, <1>4, <1>5, <1>6, OthersAtTurn DEF LInv

LEMMA MainKeepsRInv ==
  ASSUME RInv, Inv, LInv, MainStep \/ HandleError
  PROVE  RInv' /\ LP!StaySet
<1>1. Main \in Threads /\ Main \notin Workers /\ LInv'
  BY ThreadsAssumption, MainKeepsLInv DEF Threads, Workers, Main
<1>2. ASSUME UNCHANGED <<next, prev>>
      PROVE  LP!StaySet
  BY <1>2 DEF LP!StaySet
<1>3. CASE CreateThread
  <2>1. PICK place \in AfterInsert(0) :
          /\ loop' = [loop EXCEPT ![created'] = place]
          /\ pc' = [pc EXCEPT ![created'] = Label(place)]
    BY <1>3 DEF CreateThread
  <2>2. created' \in Workers /\ UNCHANGED <<next, prev, reg>>
    BY <1>3, ThreadsAssumption DEF CreateThread, Inv, Shape, Workers
  <2>3. loop'[created'] = place /\ Label(place) \in WorkerPlaces \ InCall
    BY <2>1, <2>2, LabelsOfCalls DEF Label, WorkerPlaces, LInv, LocksShape, Threads
  <2>4. \E n \in Nat, j \in Int :
             place \in AfterInsert(n) \cup {AfterLength(j), AfterDelete(n)}
    <3>1. 0 \in Nat /\ 0 \in Int
      OBVIOUS
    <3> QED BY <3>1, <2>1
  <2> HIDE DEF WorkerPlaces
  <2> QED BY <1>1, <1>2, <2>1, <2>2, <2>3, <2>4, OutsideKeepsRInv
<1>4. CASE JoinThread \/ Exit
  BY <1>2, <1>4, SameLinksKeepRInv DEF JoinThread, Exit, listVars
<1>5. CASE MainLength
  <2> DEFINE h == ListHead(loop[Main].i)
  <2>1. /\ LP!CallLength(Main, h) /\ UNCHANGED <<next, prev, loop>> /\ pc[Main] = "main"
        /\ loop[Main].i < sublist_num
    BY <1>5, SameCalls DEF MainLength, At
  <2>2. h \in Heads /\ loop[Main].i \in 0..sublist_num /\ sublist_num \in Nat
    BY <2>1, ListsAssumption, IterationsAssumption
       DEF Heads, Lists, RInv, MainAtLists, sublist_num
  <2>3. LP!Registers' /\ LP!OthersKeep(Main) /\ LP!Known(Main)' /\ pc'[Main] = "len_head1"
    <3> HIDE DEF h
    <3>1. LP!Tied /\ LP!Registers
      BY DEF RInv, LP!Tied
    <3> QED BY <1>1, <2>1, <2>2, <3>1, LP!CallsKnown, LP!Calls
  <2>4. LP!Tied'
    BY <2>1, <2>3 DEF RInv, LP!Tied, LP!LinksLead, LP!Nodes
  <2>5. \A u \in Threads : LP!Known(u)'
    <3> TAKE u \in Threads
    <3>1. CASE u = Main
      BY <2>3, <3>1
    <3>2. CASE u # Main
      BY <2>1, <2>3, <3>2 DEF RInv, LP!OthersKeep, LP!Known, LP!Lead, LP!Nodes,
         LP!InsertLabels, LP!LookupLabels, LP!DeleteLabels, LP!LengthLabels
    <3> QED BY <3>1, <3>2
  <2>6. MainAtLists'
    BY <2>1, <2>2, <2>3 DEF MainAtLists, LP!LengthLabels, sublist_num
  <2>7. \A u \in Threads \ {Main} : pc'[u] = pc[u] /\ loop'[u] = loop[u]
    BY <2>1, <2>3 DEF LP!OthersKeep
  <2> QED BY <1>1, <1>2, <2>1, <2>4, <2>5, <2>6, <2>7, OthersAtTurn DEF LInv
<1>6. CASE Call(Main)
  BY <1>1, <1>6, CallKeepsRInv
<1>7. CASE MainLengthReturns
  <2>1. pc[Main] \in InCall /\ UNCHANGED <<next, prev>>
        /\ reg' = [reg EXCEPT ![Main] = SL!Idle]
    BY <1>7, LabelsOfCalls DEF MainLengthReturns, At
  <2> QED BY <1>1, <1>2, <1>7, <2>1, MainOutsideKeepsRInv DEF MainLengthReturns
<1>8. CASE HandleError
  <2>1. /\ UNCHANGED <<next, prev>> /\ reg' = reg /\ loop' = loop
        /\ pc' = [pc EXCEPT ![Main] = "cleanup"]
    BY <1>8 DEF HandleError
  <2>2. RInv'
    BY <1>1, <2>1, MainOutsideKeepsRInv
  <2> QED BY <1>2, <2>1, <2>2
<1>9. CASE Report
  <2>1. UNCHANGED <<next, prev, reg, loop, locks>>
    BY <1>9 DEF Report
  <2>2. CASE pc' = pc
    BY <1>2, <2>1, <2>2, SameLinksKeepRInv
  <2>3. CASE pc' = [pc EXCEPT ![Main] = "cleanup"]
    <3>1. UNCHANGED <<next, prev>> /\ reg' = reg /\ loop' = loop
      BY <2>1
    <3>2. RInv'
      BY <1>1, <2>3, <3>1, MainOutsideKeepsRInv
    <3> QED BY <1>2, <3>1, <3>2
  <2> QED BY <1>9, <2>2, <2>3 DEF Report
<1>10. CASE cleanup
  <2>1. UNCHANGED <<next, prev, reg, loop>> /\ pc[Main] = "cleanup"
        /\ pc' = [pc EXCEPT ![Main] = "exit"]
    BY <1>10 DEF cleanup, At
  <2>2. \A u \in Threads \ {Main} : pc'[u] = pc[u] /\ loop'[u] = loop[u] /\ reg'[u] = reg[u]
    BY <2>1 DEF RInv, LocksShape
  <2>3. pc'[Main] = "exit" /\ LP!Registers' /\ "exit" \notin SL!Labels
    BY <1>1, <2>1, LabelsOfCalls DEF RInv, LocksShape, LP!Tied, LP!Registers
  <2>4. LP!Tied' /\ \A u \in Threads : LP!Known(u)'
    BY <1>1, <2>1, <2>2, <2>3, KnownOutside DEF RInv
  <2>5. MainAtLists'
    BY <2>1, <2>3, LabelsOfCalls DEF RInv, MainAtLists, sublist_num
  <2> QED BY <1>1, <1>2, <2>1, <2>2, <2>4, <2>5, OthersAtTurn DEF LInv
<1> QED BY <1>3, <1>4, <1>5, <1>6, <1>7, <1>8, <1>9, <1>10 DEF MainStep

LEMMA StepRInv ==
  ASSUME RInv, Inv, LInv, [Next]_vars
  PROVE  RInv' /\ LP!StaySet
<1>1. CASE \E t \in Workers : WorkerStep(t)
  BY <1>1, WorkerKeepsRInv
<1>2. CASE (\E t \in Workers : freed /\ sigsegv_handler(t)) \/ UNCHANGED vars
  <2>1. UNCHANGED <<next, prev, pc, reg, loop, locks>>
    BY <1>2 DEF sigsegv_handler, listVars, vars
  <2> QED BY <2>1, SameLinksKeepRInv DEF LP!StaySet
<1>3. CASE MainStep \/ HandleError
  BY <1>3, MainKeepsRInv
<1> QED BY <1>1, <1>2, <1>3 DEF Next, Terminated

(* No thread ever writes NULL into a link that was set, whatever the        *)
(* interleaving (LinksStaySet).                                            *)
THEOREM NoLinkIsCleared == Spec => LinksStaySet
<1>1. RInv /\ Inv /\ LInv /\ [Next]_vars => LP!StaySet
  BY StepRInv
<1>3. LP!StaySet => NoLinkCleared
  BY DEF LP!StaySet, LP!Nodes, NoLinkCleared
<1>2. RInv /\ Inv /\ LInv /\ [Next]_vars => RInv'
  BY StepRInv
<1> QED
  BY <1>1, <1>2, <1>3, InitInv, StepInv, InitLInv, StepLInv, InitRInv, PTL
     DEF Spec, LinksStaySet

(* A length taken without a lock, by a worker or by main, follows no NULL   *)
(* pointer (LengthNeverFaults).                                            *)
THEOREM LengthNeverFollowsNull == Spec => []LengthNeverFaults
<1>1. ASSUME RInv
      PROVE  LengthNeverFaults
  <2> SUFFICES ASSUME NEW t \in Threads, LP!Faults(t)
               PROVE  loop[t].phase # "length" /\ t # Main
    BY SameCalls DEF LengthNeverFaults
  <2>1. pc[t] \in SL!Labels /\ pc[t] \notin LP!LengthLabels
    BY <1>1, LP!LengthIsSafe, SameCalls DEF RInv, SL!Faults
  <2>2. t # Main
    BY <1>1, <2>1, LabelsOfCalls DEF RInv, MainAtLists
  <2>3. t \in Workers /\ InItsFunction(t)
    BY <1>1, <2>1, <2>2, LabelsOfCalls DEF RInv, Turns, Threads
  <2> QED BY <2>1, <2>2, <2>3, LabelsOfCalls DEF InItsFunction
<1>2. RInv /\ Inv /\ LInv /\ [Next]_vars => RInv'
  BY StepRInv
<1> QED
  BY <1>1, <1>2, InitInv, StepInv, InitLInv, StepLInv, InitRInv, PTL DEF Spec

(* What main has seen of the lists: all before its index lead to themselves,*)
(* and no worker is left to change them.                                   *)
MainSaw ==
  /\ loop[Main].i > 0 \/ pc[Main] \in InCall => joined = nthreads
  /\ \A j \in 0..(loop[Main].i - 1) : next[ListHead(j)] = ListHead(j)
  /\ pc[Main] \in InCall => LP!EmptySeen(Main, ListHead(loop[Main].i))
  /\ pc[Main] \in {"cleanup", "exit"} /\ status = 0 => loop[Main].i = sublist_num
  /\ exit = 0 => status = 0 /\ pc[Main] = "exit"

LEMMA InitMainSaw == Init => MainSaw
<1> SUFFICES ASSUME Init
             PROVE  MainSaw
  OBVIOUS
<1>1. /\ loop[Main] = [phase |-> "insert", i |-> 0] /\ pc[Main] = "main"
      /\ exit = -1 /\ 0 .. (0 - 1) = {}
  BY DEF Init, Threads, Running
<1> QED BY <1>1, LabelsOfCalls DEF MainSaw

LEMMA WorkerKeepsMainSaw ==
  ASSUME RInv, Inv, LInv, MainSaw, NEW t \in Workers, WorkerStep(t)
  PROVE  MainSaw'
<1>1. /\ t \in Threads /\ t # Main /\ Main \in Threads /\ nthreads \in Nat
      /\ sublist_num \in Nat /\ DOMAIN loop = Threads /\ DOMAIN pc = Threads
  BY ThreadsAssumption, IterationsAssumption, ListsAssumption
     DEF Threads, Workers, Main, sublist_num, LInv, LocksShape
<1>2. /\ pc'[Main] = pc[Main] /\ loop'[Main] = loop[Main] /\ UNCHANGED mainVars
      /\ exit' = exit \/ exit' \in {1, 2}
      /\ pc[t] = "returned" => pc' = pc /\ next' = next /\ reg' = reg
  <2>1. CASE Call(t)
    <3>1. LP!ListStep(t) /\ pc[t] # "returned"
      BY <2>1, SameFunctions, LabelsOfCalls DEF Call, SL!ListStep
    <3>2. LP!OthersKeep(t)
      BY <1>1, <3>1, LP!StaysInFunction DEF RInv, LP!Tied
    <3> QED BY <1>1, <2>1, <3>1, <3>2 DEF Call, LP!OthersKeep
  <2>2. CASE LockGeneral(t)
    BY <1>1, <2>2 DEF LockGeneral, At, SL!CallInsert, SL!CallLength, SL!CallLookup
  <2>3. CASE OutOfBounds(t)
    BY <1>1, <2>3 DEF OutOfBounds, At
  <2>4. CASE DeleteFound(t)
    BY <1>1, <2>4 DEF DeleteFound, At, SL!CallDelete
  <2>5. CASE UnlockGeneral(t)
    BY <1>1, <2>5 DEF UnlockGeneral, At
  <2>6. CASE ReportCorruption(t) \/ sigsegv_handler(t)
    BY <1>1, <2>6 DEF ReportCorruption, sigsegv_handler, listVars
  <2> QED BY <2>1, <2>2, <2>3, <2>4, <2>5, <2>6 DEF WorkerStep
<1>3. exit = Running
  BY DEF WorkerStep, LockGeneral, OutOfBounds, Call, DeleteFound, UnlockGeneral,
         ReportCorruption, sigsegv_handler, At
<1>4. joined' = joined /\ status' = status
  BY <1>2 DEF mainVars
<1>5. joined # nthreads
  <2> SUFFICES ASSUME joined = nthreads
               PROVE  FALSE
    OBVIOUS
  <2>1. pc[t] = "returned"
    BY DEF Inv, Joined, Workers
  <2> QED BY <2>1, LabelsOfCalls DEF WorkerStep, LockGeneral, OutOfBounds, Call, DeleteFound,
       UnlockGeneral, ReportCorruption, sigsegv_handler, At, SL!ListStep, SL!Faults
<1>6. pc[Main] \notin InCall /\ loop[Main].i = 0
  BY <1>1, <1>5 DEF MainSaw, RInv, MainAtLists
<1>7. 0 .. (0 - 1) = {}
  OBVIOUS
<1>8. exit' # 0
  BY <1>2, <1>3 DEF Running
<1> QED BY <1>1, <1>2, <1>3, <1>4, <1>6, <1>7, <1>8 DEF MainSaw, sublist_num, Running

LEMMA MainKeepsMainSaw ==
  ASSUME RInv, Inv, LInv, MainSaw, MainStep \/ HandleError
  PROVE  MainSaw'
<1>1. /\ Main \in Threads /\ nthreads \in Nat /\ sublist_num \in Nat /\ DOMAIN loop = Threads
      /\ DOMAIN pc = Threads /\ loop[Main].i \in 0..sublist_num /\ LP!Registers
      /\ "i" \in DOMAIN loop[Main] /\ sublist_num' = sublist_num
  BY ThreadsAssumption, IterationsAssumption, ListsAssumption
     DEF Threads, sublist_num, LInv, LocksShape, RInv, MainAtLists, LP!Tied
<1>2. CASE CreateThread
  <2>1. /\ pc'[Main] = pc[Main] /\ loop'[Main] = loop[Main] /\ pc[Main] = "main"
        /\ UNCHANGED <<next, reg, status, joined, exit>>
    BY <1>1, <1>2 DEF CreateThread, At, Main, Inv, Shape
  <2> QED BY <1>1, <2>1, LabelsOfCalls DEF MainSaw
<1>3. CASE JoinThread
  <2>1. /\ pc' = pc /\ loop' = loop /\ pc[Main] = "main" /\ joined < nthreads
        /\ UNCHANGED <<next, reg, status, exit>>
    BY <1>3 DEF JoinThread, At, listVars
  <2>2. loop[Main].i = 0 /\ 0 .. (0 - 1) = {}
    BY <1>1, <2>1 DEF MainSaw
  <2> QED BY <1>1, <2>1, <2>2, LabelsOfCalls DEF MainSaw
<1>4. CASE MainLength
  <2>1. /\ LP!CallLength(Main, ListHead(loop[Main].i)) /\ loop' = loop /\ joined = nthreads
        /\ UNCHANGED <<next, status, exit, joined>> /\ pc[Main] = "main"
    BY <1>4, SameCalls DEF MainLength, At, mainVars
  <2>2. /\ pc'[Main] = "len_head1" /\ reg'[Main].ret = 0
        /\ reg'[Main].list = ListHead(loop[Main].i)
    BY <1>1, <2>1, LP!Calls
  <2>3. LP!EmptySeen(Main, ListHead(loop[Main].i))'
    BY <2>1, <2>2 DEF LP!EmptySeen, LP!LengthLabels
  <2> QED BY <1>1, <2>1, <2>2, <2>3 DEF MainSaw
<1>5. CASE Call(Main)
  <2>1. /\ LP!ListStep(Main) /\ loop' = loop /\ UNCHANGED <<status, exit, joined>>
        /\ pc[Main] \in SL!Labels
    BY <1>5, SameFunctions DEF Call, mainVars, SL!ListStep
  <2>2. pc[Main] \in LP!LengthLabels /\ pc[Main] \in InCall
    BY <2>1, LabelsOfCalls DEF RInv, MainAtLists
  <2>3. LP!EmptySeen(Main, ListHead(loop[Main].i))' /\ next' = next
    BY <1>1, <2>1, <2>2, LP!LengthSees DEF MainSaw
  <2>4. pc'[Main] \in InCall
    <3>1. pc'[Main] \in LP!LengthLabels \cup {"ret"}
      BY <1>1, <2>1, <2>2, LP!StaysInFunction
         DEF LP!InsertLabels, LP!LookupLabels, LP!DeleteLabels, LP!LengthLabels
    <3> QED BY <3>1, LabelsOfCalls
  <2>5. pc'[Main] \notin {"cleanup", "exit"} /\ exit = Running
    BY <1>5, <2>4, LabelsOfCalls DEF Call
  <2> QED BY <1>1, <2>1, <2>2, <2>3, <2>4, <2>5 DEF MainSaw, Running
<1>6. CASE MainLengthReturns
  <2>1. /\ pc[Main] = "ret" /\ pc[Main] \in InCall /\ UNCHANGED <<next, exit, joined>>
        /\ exit = Running
    BY <1>6, LabelsOfCalls DEF MainLengthReturns, At
  <2>2. CASE /\ reg[Main].ret = 0 /\ loop' = [loop EXCEPT ![Main].i = @ + 1]
             /\ pc' = [pc EXCEPT ![Main] = "main"] /\ UNCHANGED status
    <3>1. loop'[Main].i = loop[Main].i + 1 /\ pc'[Main] = "main"
      BY <1>1, <2>2
    <3>2. next[ListHead(loop[Main].i)] = ListHead(loop[Main].i)
      BY <2>1, <2>2 DEF MainSaw, LP!EmptySeen
    <3>3. \A j \in 0..(loop'[Main].i - 1) : next[ListHead(j)] = ListHead(j)
      BY <1>1, <3>1, <3>2 DEF MainSaw
    <3> QED BY <1>1, <2>1, <2>2, <3>1, <3>3, LabelsOfCalls DEF MainSaw, Running
  <2>3. CASE /\ status' = 2 /\ pc' = [pc EXCEPT ![Main] = "cleanup"] /\ loop' = loop
    BY <1>1, <2>1, <2>3, LabelsOfCalls DEF MainSaw, Running
  <2> QED BY <1>6, <2>2, <2>3 DEF MainLengthReturns
<1>7. CASE Report
  <2>1. /\ UNCHANGED <<next, reg, loop, status, joined>> /\ exit = Running
        /\ loop[Main].i = sublist_num /\ pc[Main] = "main" /\ joined = nthreads
        /\ \/ exit' = SIGFPE /\ pc' = pc
           \/ pc' = [pc EXCEPT ![Main] = "cleanup"] /\ exit' = exit
    BY <1>7 DEF Report, At, mainVars
  <2> QED BY <1>1, <2>1, LabelsOfCalls DEF MainSaw, Running, SIGFPE
<1>8. CASE cleanup \/ HandleError
  <2>1. /\ UNCHANGED <<next, reg, loop, exit, joined>> /\ exit = Running
        /\ \/ pc[Main] = "cleanup" /\ pc' = [pc EXCEPT ![Main] = "exit"] /\ status' = status
           \/ pc' = [pc EXCEPT ![Main] = "cleanup"] /\ status' = 1
    BY <1>8 DEF cleanup, HandleError, At
  <2> QED BY <1>1, <2>1, LabelsOfCalls DEF MainSaw, Running
<1>9. CASE Exit
  <2>1. UNCHANGED <<next, pc, reg, loop, status, joined>> /\ pc[Main] = "exit" /\ exit' = status
    BY <1>9 DEF Exit, At, listVars, mainVars
  <2> QED BY <1>1, <2>1, LabelsOfCalls DEF MainSaw, LP!EmptySeen
<1> QED BY <1>2, <1>3, <1>4, <1>5, <1>6, <1>7, <1>8, <1>9 DEF MainStep

LEMMA StepMainSaw ==
  ASSUME RInv, Inv, LInv, MainSaw, [Next]_vars
  PROVE  MainSaw'
<1>1. CASE \E t \in Workers : WorkerStep(t)
  BY <1>1, WorkerKeepsMainSaw
<1>2. CASE (\E t \in Workers : freed /\ sigsegv_handler(t)) \/ UNCHANGED vars
  <2>1. /\ UNCHANGED <<next, pc, reg, loop, joined, status>>
        /\ exit' = exit \/ exit' = 1
    BY <1>2 DEF sigsegv_handler, listVars, mainVars, vars
  <2> QED BY <2>1 DEF MainSaw, LP!EmptySeen, sublist_num
<1>3. CASE MainStep \/ HandleError
  BY <1>3, MainKeepsMainSaw
<1> QED BY <1>1, <1>2, <1>3 DEF Next, Terminated

(* main exits 0 only when each list is empty, races or not: nothing changes *)
(* a list between the length main takes of it and its exit                 *)
(* (ExitZeroMeansEmpty).                                                   *)
THEOREM ExitZeroIsTrue == Spec => []ExitZeroMeansEmpty
<1>1. ASSUME RInv, MainSaw
      PROVE  ExitZeroMeansEmpty
  <2>1. sublist_num \in Nat
    BY ListsAssumption, IterationsAssumption DEF sublist_num
  <2> QED BY <1>1, <2>1 DEF MainSaw, ExitZeroMeansEmpty, Lists
<1>2. RInv /\ Inv /\ LInv /\ [Next]_vars => RInv'
  BY StepRInv
<1>3. RInv /\ Inv /\ LInv /\ MainSaw /\ [Next]_vars => MainSaw'
  BY StepMainSaw
<1> QED
  BY <1>1, <1>2, <1>3, InitInv, StepInv, InitLInv, StepLInv, InitRInv, InitMainSaw, PTL
     DEF Spec

-----------------------------------------------------------------------------
(* The rest is about a process with locks: its lists stay sorted rings, and *)
(* it implements AtomicList.  First the keys, which itoa() makes.           *)

(* itoa() is defined by recursion on its argument: the strings of the       *)
(* numbers up to n, and that there is one for each.                         *)
Digits(f, n) == \A m \in 0..n : f[m] = IF m < 10 THEN <<m>>
                                       ELSE Append(f[m \div 10], m % 10)

Strings(f, n) == f \in [0..n -> Seq(Nat)] /\ Digits(f, n)

LEMMA Tenth ==
  ASSUME NEW m \in Nat, m >= 10
  PROVE  m \div 10 \in 0..(m - 1) /\ m % 10 \in Nat
OBVIOUS

LEMMA StringsExist == \A n \in Nat : \E f : Strings(f, n)
<1> DEFINE Bad == {n \in Nat : ~\E f : Strings(f, n)}
<1> SUFFICES ASSUME Bad # {}
             PROVE  FALSE
  OBVIOUS
<1>1. PICK n \in Bad : \A m \in Bad : n <= m
  <2>1. Bad \in SUBSET Nat
    OBVIOUS
  <2> HIDE DEF Bad
  <2> QED BY <2>1, LP!LeastElement
<1>2. n \in Nat /\ ~\E f : Strings(f, n)
  OBVIOUS
<1>3. n # 0
  <2>1. Strings([m \in 0..0 |-> <<m>>], 0)
    <3>1. 0..0 = {0}
      OBVIOUS
    <3> QED BY <3>1 DEF Strings, Digits
  <2> QED BY <1>2, <2>1
<1>4. PICK f : Strings(f, n - 1)
  <2>1. n - 1 \in Nat /\ n - 1 \notin Bad
    BY <1>1, <1>2, <1>3
  <2> QED BY <2>1
<1> DEFINE g == [m \in 0..n |-> IF m < n THEN f[m]
                                ELSE IF n < 10 THEN <<n>>
                                ELSE Append(f[n \div 10], n % 10)]
<1>5. /\ f \in [0..(n - 1) -> Seq(Nat)]
      /\ \A m \in 0..(n - 1) : f[m] = IF m < 10 THEN <<m>>
                                      ELSE Append(f[m \div 10], m % 10)
  BY <1>4 DEF Strings, Digits
<1>6. n >= 10 => n \div 10 \in 0..(n - 1) /\ n % 10 \in Nat
  BY <1>2, Tenth
<1>7. g \in [0..n -> Seq(Nat)]
  <2>1. ASSUME NEW m \in 0..n
        PROVE  (IF m < n THEN f[m] ELSE IF n < 10 THEN <<n>>
                 ELSE Append(f[n \div 10], n % 10)) \in Seq(Nat)
    <3>1. CASE m < n
      BY <1>2, <1>5, <3>1
    <3>2. CASE ~(m < n) /\ n < 10
      BY <1>2, <3>2
    <3>3. CASE ~(m < n) /\ ~(n < 10)
      <4>1. f[n \div 10] \in Seq(Nat) /\ n % 10 \in Nat
        BY <1>2, <1>5, <1>6, <3>3
      <4> QED BY <3>3, <4>1
    <3> QED BY <3>1, <3>2, <3>3
  <2> QED BY <2>1
<1>8. \A m \in 0..n : g[m] = IF m < 10 THEN <<m>> ELSE Append(g[m \div 10], m % 10)
  <2> TAKE m \in 0..n
  <2>1. m \in Nat /\ (m >= 10 => m \div 10 \in 0..(m - 1))
    BY <1>2, Tenth
  <2>2. m >= 10 => g[m \div 10] = f[m \div 10]
    BY <1>2, <2>1
  <2>3. CASE m < n
    <3>1. g[m] = f[m]
      BY <1>2, <2>3
    <3>2. f[m] = IF m < 10 THEN <<m>> ELSE Append(f[m \div 10], m % 10)
      <4>1. m \in 0..(n - 1)
        BY <1>2, <2>3
      <4>2. \A k \in 0..(n - 1) : f[k] = IF k < 10 THEN <<k>>
                                         ELSE Append(f[k \div 10], k % 10)
        BY <1>5
      <4> HIDE DEF g
      <4> QED BY <4>1, <4>2
    <3> HIDE DEF g
    <3>3. CASE m < 10
      BY <3>1, <3>2, <3>3
    <3>4. CASE ~(m < 10)
      <4>1. m >= 10
        BY <2>1, <3>4
      <4> QED BY <2>2, <3>1, <3>2, <3>4, <4>1
    <3> QED BY <3>3, <3>4
  <2>4. CASE m = n
    <3>1. g[m] = IF m < 10 THEN <<m>> ELSE Append(f[m \div 10], m % 10)
      <4>1. n \in 0..n /\ ~(n < n)
        BY <1>2
      <4> QED BY <2>4, <4>1
    <3> HIDE DEF g
    <3>2. CASE m < 10
      BY <3>1, <3>2
    <3>3. CASE ~(m < 10)
      <4>1. m >= 10
        BY <2>1, <3>3
      <4> QED BY <2>2, <3>1, <3>3, <4>1
    <3> QED BY <3>2, <3>3
  <2> QED BY <1>2, <2>3, <2>4
<1>9. Strings(g, n)
  BY <1>7, <1>8 DEF Strings, Digits
<1> QED BY <1>2, <1>9

LEMMA StringsAgree ==
  ASSUME NEW f, NEW g, NEW n \in Nat, NEW k \in Nat, Strings(f, n), Strings(g, k),
         NEW m \in Nat, m <= n, m <= k
  PROVE  f[m] = g[m]
<1> DEFINE Bad == {i \in Nat : i <= n /\ i <= k /\ f[i] # g[i]}
<1> SUFFICES ASSUME Bad # {}
             PROVE  FALSE
  OBVIOUS
<1>1. PICK i \in Bad : \A j \in Bad : i <= j
  <2>1. Bad \in SUBSET Nat
    OBVIOUS
  <2> HIDE DEF Bad
  <2> QED BY <2>1, LP!LeastElement
<1>2. i \in 0..n /\ i \in 0..k /\ f[i] # g[i]
  OBVIOUS
<1>3. /\ f[i] = IF i < 10 THEN <<i>> ELSE Append(f[i \div 10], i % 10)
      /\ g[i] = IF i < 10 THEN <<i>> ELSE Append(g[i \div 10], i % 10)
  BY <1>2 DEF Strings, Digits
<1>4. i >= 10 => f[i \div 10] = g[i \div 10]
  <2> SUFFICES ASSUME i >= 10
               PROVE  f[i \div 10] = g[i \div 10]
    OBVIOUS
  <2>1. i \div 10 \in 0..(i - 1)
    BY <1>2, Tenth
  <2>2. i \div 10 \in Nat /\ i \div 10 <= n /\ i \div 10 <= k /\ i \div 10 < i
    BY <1>2, <2>1
  <2>3. i \div 10 \notin Bad
    BY <1>1, <1>2, <2>2
  <2> QED BY <2>2, <2>3
<1>5. f[i] = g[i]
  BY <1>2, <1>3, <1>4
<1> QED BY <1>2, <1>5

(* itoa() makes a string of character codes of every number.                *)
LEMMA ItoaMakesStrings == \A n \in Nat : itoa[n] \in Seq(Nat)
<1> DEFINE S(n) == CHOOSE f : Strings(f, n)
           F == [n \in Nat |-> S(n)[n]]
           body(f) == [n \in Nat |-> IF n < 10 THEN <<n>> ELSE Append(f[n \div 10], n % 10)]
<1>1. \A n \in Nat : Strings(S(n), n)
  BY StringsExist
<1> HIDE DEF S
<1>2. \A n \in Nat : F[n] = body(F)[n]
  <2> TAKE n \in Nat
  <2>1. F[n] = IF n < 10 THEN <<n>> ELSE Append(S(n)[n \div 10], n % 10)
    <3>1. n \in 0..n
      OBVIOUS
    <3>2. Strings(S(n), n)
      BY <1>1
    <3>3. S(n)[n] = IF n < 10 THEN <<n>> ELSE Append(S(n)[n \div 10], n % 10)
      BY <3>1, <3>2 DEF Strings, Digits
    <3> QED BY <3>3
  <2>2. n >= 10 => F[n \div 10] = S(n)[n \div 10]
    <3> SUFFICES ASSUME n >= 10
                 PROVE  F[n \div 10] = S(n)[n \div 10]
      OBVIOUS
    <3>1. n \div 10 \in Nat /\ n \div 10 <= n
      BY Tenth
    <3>2. S(n \div 10)[n \div 10] = S(n)[n \div 10]
      BY <1>1, <3>1, StringsAgree
    <3> QED BY <3>1, <3>2
  <2>3. body(F)[n] = IF n < 10 THEN <<n>> ELSE Append(F[n \div 10], n % 10)
    OBVIOUS
  <2> HIDE DEF F, body
  <2> QED BY <2>1, <2>2, <2>3
<1>3. F = body(F)
  <2>1. F = [n \in Nat |-> F[n]] /\ body(F) = [n \in Nat |-> body(F)[n]]
    OBVIOUS
  <2> HIDE DEF F, body
  <2> QED BY <1>2, <2>1
<1>4. itoa = body(itoa)
  <2>1. itoa = CHOOSE f : f = body(f)
    BY DEF itoa
  <2> HIDE DEF F, body
  <2> QED BY <1>3, <2>1
<1>5. \A n \in Nat : itoa[n] = IF n < 10 THEN <<n>> ELSE Append(itoa[n \div 10], n % 10)
  <2> DEFINE G == itoa
  <2>1. \A n \in Nat : body(G)[n] = IF n < 10 THEN <<n>> ELSE Append(G[n \div 10], n % 10)
    OBVIOUS
  <2> HIDE DEF body
  <2> QED BY <1>4, <2>1
<1> DEFINE Bad == {n \in Nat : itoa[n] \notin Seq(Nat)}
<1> SUFFICES ASSUME Bad # {}
             PROVE  FALSE
  OBVIOUS
<1>6. PICK n \in Bad : \A j \in Bad : n <= j
  <2>1. Bad \in SUBSET Nat
    OBVIOUS
  <2> HIDE DEF Bad
  <2> QED BY <2>1, LP!LeastElement
<1>7. n >= 10 => itoa[n \div 10] \in Seq(Nat) /\ n % 10 \in Nat
  <2> SUFFICES ASSUME n >= 10
               PROVE  itoa[n \div 10] \in Seq(Nat) /\ n % 10 \in Nat
    OBVIOUS
  <2>1. n \div 10 \in 0..(n - 1) /\ n % 10 \in Nat
    BY Tenth
  <2>2. n \div 10 \in Nat /\ n \div 10 \notin Bad
    BY <1>6, <2>1
  <2> QED BY <2>1, <2>2
<1>a. n \in Nat /\ itoa[n] \notin Seq(Nat)
  OBVIOUS
<1>8. CASE n < 10
  <2>1. itoa[n] = <<n>>
    BY <1>5, <1>8, <1>a
  <2> QED BY <1>a, <2>1
<1>9. CASE ~(n < 10)
  <2>1. itoa[n] = Append(itoa[n \div 10], n % 10)
    BY <1>5, <1>9, <1>a
  <2>2. n >= 10
    BY <1>9, <1>a
  <2>3. itoa[n] \in Seq(Nat)
    BY <1>7, <2>1, <2>2
  <2> QED BY <1>a, <2>3
<1> QED BY <1>8, <1>9, <1>a

-----------------------------------------------------------------------------
(* The keys of the elements, whose element is whose, and the members of a   *)
(* list as its chain tells them.                                            *)

LEMMA KeysAreStrings == \A k \in AllKeys : k \in Seq(Int)
<1> SUFFICES ASSUME NEW l \in Lists, NEW temp \in RandValues
             PROVE  itoa[temp - (temp % sublist_num) + l] \in Seq(Int)
  BY DEF AllKeys, hash_str
<1>1. sublist_num \in Nat /\ l \in Nat /\ l < sublist_num
  BY ListsAssumption, IterationsAssumption DEF Lists, sublist_num
<1>2. temp \in Nat
  <2> DEFINE most == 2^15 - 1
  <2>1. temp \in 0..most
    BY RandAssumption
  <2> HIDE DEF most
  <2> QED BY <2>1
<1>3. temp % sublist_num \in 0..temp
  <2>1. \A s \in Nat : s > 0 => temp % s \in 0..temp
    BY <1>2
  <2> QED BY <1>1, <2>1
<1>4. temp - (temp % sublist_num) + l \in Nat
  BY <1>1, <1>2, <1>3
<1>5. itoa[temp - (temp % sublist_num) + l] \in Seq(Nat)
  BY <1>4, ItoaMakesStrings
<1>6. Seq(Nat) \subseteq Seq(Int)
  OBVIOUS
<1> QED BY <1>5, <1>6

KeysInv == key \in [Elems -> AllKeys]

LEMMA InitKeys == Init => KeysInv
BY DEF Init, KeysInv, init_list_and_ele, AllKeys

LEMMA KeyIsFixed == [Next]_vars => key' = key /\ opt_sync' = opt_sync
BY DEF Next, WorkerStep, MainStep, LockGeneral, OutOfBounds, Call, SL!ListStep, DeleteFound,
       UnlockGeneral, ReportCorruption, sigsegv_handler, CreateThread, JoinThread,
       MainLength, MainLengthReturns, Report, HandleError, cleanup, Exit, Terminated,
       vars, listVars

(* The elements, by owner and turn.                                         *)
LEMMA OwnerOfMine ==
  ASSUME NEW t \in Workers, NEW i \in 0..(niteratns - 1)
  PROVE  Owner(Mine(t, i)) = <<t, i>> /\ <<t, i>> \in Owned
<1>1. niteratns \in Nat /\ t \in Nat /\ t - 1 \in Nat /\ t = (t - 1) + 1 /\ i \in Nat
      /\ i < niteratns
  BY IterationsAssumption, ThreadsAssumption DEF Workers
<1>2. \A n \in Nat, q \in Nat : i < n => (q * n + i) \div n = q /\ (q * n + i) % n = i
  BY <1>1
<1>3. /\ ((t - 1) * niteratns + i) \div niteratns = t - 1
      /\ ((t - 1) * niteratns + i) % niteratns = i
  BY <1>1, <1>2
<1> QED BY <1>1, <1>3 DEF Owner, Mine, Element, Owned

LEMMA MineOfOwner ==
  ASSUME NEW e \in Elems
  PROVE  Owner(e) \in Owned /\ Mine(Owner(e)[1], Owner(e)[2]) = e
<1>1. PICK k \in 0..(nelements - 1) : e = <<"element", k>>
  BY DEF Elems, Element
<1>2. /\ niteratns \in Nat /\ nthreads \in Nat /\ k \in Nat /\ k < nthreads * niteratns
      /\ niteratns > 0
  BY <1>1, ThreadsAssumption, IterationsAssumption DEF nelements
<1> DEFINE q == k \div niteratns
           r == k % niteratns
<1>3. q \in Nat /\ r \in 0..(niteratns - 1) /\ k = q * niteratns + r
  BY <1>2
<1>4. q < nthreads
  <2> SUFFICES ASSUME q >= nthreads
               PROVE  FALSE
    BY <1>2, <1>3
  <2>1. q * niteratns >= nthreads * niteratns
    BY <1>2, <1>3
  <2> HIDE DEF q, r
  <2> QED BY <1>2, <1>3, <2>1
<1>5. Owner(e) = <<q + 1, r>>
  BY <1>1 DEF Owner
<1> HIDE DEF q, r
<1>6. (q + 1) - 1 = q /\ q + 1 \in Workers
  BY <1>2, <1>3, <1>4 DEF Workers
<1>7. Mine(q + 1, r) = e
  BY <1>1, <1>3, <1>6 DEF Mine, Element
<1> QED BY <1>3, <1>5, <1>6, <1>7 DEF Owned

LEMMA OwnerInjective ==
  ASSUME NEW e \in Elems, NEW f \in Elems, Owner(e) = Owner(f)
  PROVE  e = f
BY MineOfOwner

LEMMA ElementsAreFew ==
  LET rank == [e \in Elems |-> e[2] + 1]
  IN  /\ nelements \in Nat /\ \A e \in Elems : rank[e] \in 1..nelements
      /\ \A e, f \in Elems : rank[e] = rank[f] => e = f
<1>1. nelements \in Nat
  BY ThreadsAssumption, IterationsAssumption DEF nelements
<1>2. \A e \in Elems : e[2] \in 0..(nelements - 1) /\ e = <<"element", e[2]>>
  BY DEF Elems, Element
<1>3. \A e, f \in Elems : e[2] + 1 = f[2] + 1 => e = f
  <2> SUFFICES ASSUME NEW e \in Elems, NEW f \in Elems, e[2] + 1 = f[2] + 1
               PROVE  e = f
    OBVIOUS
  <2>1. e[2] = f[2]
    BY <1>1, <1>2
  <2> QED BY <1>2, <2>1
<1> QED BY <1>1, <1>2, <1>3

(* The two instances agree on what a list is.                               *)
LEMMA SameLists ==
  ASSUME NEW h, NEW n
  PROVE  /\ SL!Members(h, n) = LP!Members(h, n)
         /\ SL!Circular(h, n) <=> LP!Circular(h, n)
         /\ \A a, b : SL!strcmp(a, b) = LP!strcmp(a, b)
<1>1. SL!Members(h, n) = LP!Members(h, n)
  BY DEF SL!Members, LP!Members
<1>2. \A a, b : SL!strcmp(a, b) = LP!strcmp(a, b)
  BY DEF SL!strcmp, LP!strcmp
<1> QED BY <1>1, <1>2 DEF SL!Circular, LP!Circular

(* The elements whose keys select list l.                                   *)
Own(l) == {e \in Elems : ListOf(e) = l}

LEMMA ListsAreSet ==
  ASSUME LP!Tied, KeysInv, NEW l \in Lists
  PROVE  LP!Setting(ListHead(l), Own(l))
<1>1. Heads \cap Elems = {}
  BY DEF Heads, Elems, ListHead, Element
<1>2. \A e \in Elems : key[e] \in Seq(Int)
  BY KeysAreStrings DEF KeysInv
<1> QED BY <1>1, <1>2 DEF LP!Setting, Own, Heads

(* What a list's chain says of its Members, and of the whole lists.         *)
LEMMA ChainMembers ==
  ASSUME LP!Tied, KeysInv, NEW l \in Lists, NEW n, NEW c,
         LP!Chain(ListHead(l), Own(l), n, c)
  PROVE  /\ Members(l) = LP!On(n, c) /\ Members(l) \subseteq Own(l)
         /\ LP!Whole(n, c) => SL!Circular(ListHead(l), nelements)
<1>1. LP!Setting(ListHead(l), Own(l))
  BY ListsAreSet
<1>2. nelements \in Nat /\ n <= nelements
  BY <1>1, LP!ChainIsShort, ElementsAreFew
<1>3. Members(l) = LP!On(n, c)
  BY <1>1, <1>2, LP!MembersAre, SameLists DEF Members
<1>4. LP!On(n, c) \subseteq Own(l)
  BY DEF LP!On, LP!Chain
<1>5. LP!Whole(n, c) => LP!Circular(ListHead(l), nelements)
  BY <1>1, <1>2, LP!WholeIsIntact
<1> QED BY <1>3, <1>4, <1>5, SameLists DEF Members

-----------------------------------------------------------------------------
(* What is known of each list: nothing is amiss with its chain while nobody *)
(* is inside a call on it; and what the one thread inside has done so far,  *)
(* by the local invariants of Lists_proof.                             *)

(* The list a thread is inside a call on, and the call.                    *)
Place(t) == IF t = Main THEN loop[t].i ELSE list_num(t)
Phase(t) == IF t = Main THEN "length" ELSE loop[t].phase
InList(t, l) == Inside(t) /\ Place(t) = l

Doing(t, l, n, c) ==
  LET h == ListHead(l)
      x == Mine(t, loop[t].i)
  IN  /\ Phase(t) = "insert" => LP!InsertLocal(t, h, Own(l), x, n, c)
      /\ Phase(t) = "length" => LP!LengthLocal(t, h, n, c)
      /\ Phase(t) = "lookup" => LP!LookupLocal(t, h, key[x], n, c)
      /\ Phase(t) = "delete" => \E y \in Elems : key[y] = key[x] /\ LP!DeleteLocal(t, y, n, c)

(* A list is a chain, whole except for what the thread inside is doing.    *)
Holds(l, n, c) ==
  /\ LP!Chain(ListHead(l), Own(l), n, c)
  /\ \A t \in Threads : InList(t, l) => Doing(t, l, n, c)
  /\ (\A t \in Threads : ~InList(t, l)) => LP!Whole(n, c)

ListState(l) == \E n, c : Holds(l, n, c)

(* What ChainMembers says, to be used of the state after a step.           *)
ChainFact(l) ==
  \A n, c : LP!Tied /\ KeysInv /\ LP!Chain(ListHead(l), Own(l), n, c) =>
              Members(l) = LP!On(n, c)
ChainFacts == \A l \in Lists : ChainFact(l)

LEMMA ChainFactsHold == ChainFacts
BY ChainMembers DEF ChainFacts, ChainFact

LEMMA MembersAfter ==
  ASSUME NEW l \in Lists, NEW n, NEW c, LP!Tied', KeysInv',
         LP!Chain(ListHead(l), Own(l), n, c)'
  PROVE  Members(l)' = LP!On(n, c)
<1>1. ChainFacts'
  BY ChainFactsHold, PTL
<1> QED BY <1>1 DEF ChainFacts, ChainFact

(* A thread that does not move keeps its place and its call.               *)
LEMMA OthersKeepPlace ==
  ASSUME NEW u, key' = key, pc'[u] = pc[u], loop'[u] = loop[u]
  PROVE  /\ Inside(u)' = Inside(u) /\ Place(u)' = Place(u) /\ Phase(u)' = Phase(u)
         /\ Mine(u, loop[u].i)' = Mine(u, loop[u].i)
<1>1. list_num(u)' = list_num(u)
  BY DEF list_num, ListOf
<1> QED BY <1>1 DEF Inside, Place, Phase

(* A list nobody is inside after the step but those who were there and did  *)
(* not move: whoever left had finished, whoever moved elsewhere is of no    *)
(* concern.                                                                 *)
LEMMA ListsElsewhere ==
  ASSUME NEW A \in SUBSET Threads, NEW l \in Lists, LP!Tied, KeysInv, LP!Tied', KeysInv',
         key' = key, ListState(l),
         \A m \in {ListHead(l)} \cup Own(l) : next'[m] = next[m] /\ prev'[m] = prev[m],
         \A u \in Threads \ A : pc'[u] = pc[u] /\ reg'[u] = reg[u] /\ loop'[u] = loop[u],
         \A t \in A : /\ ~InList(t, l)'
                      /\ InList(t, l) =>
                           /\ pc[t] = "ret"
                           /\ Phase(t) \in {"insert", "length", "lookup", "delete"}
  PROVE  ListState(l)' /\ Members(l)' = Members(l)
<1> DEFINE h == ListHead(l)
<1>1. PICK n, c : Holds(l, n, c)
  BY DEF ListState
<1>2. LP!Setting(h, Own(l))
  BY ListsAreSet
<1>3. LP!Chain(h, Own(l), n, c) /\ Own(l)' = Own(l)
  BY <1>1 DEF Holds, Own, ListOf
<1>4. LP!Chain(h, Own(l), n, c)' /\ (LP!Whole(n, c) => LP!Whole(n, c)')
  <2>1. \A S : S = Own(l) => LP!Chain(h, S, n, c)'
    BY <1>2, <1>3, LP!Untouched
  <2>2. LP!Whole(n, c) => LP!Whole(n, c)'
    BY <1>2, <1>3, LP!Untouched
  <2>3. LP!Chain(h, Own(l), n, c)'
    BY <2>1, <1>3 DEF LP!Chain
  <2> QED BY <2>2, <2>3
<1>5. ASSUME NEW u \in Threads \ A
      PROVE  /\ InList(u, l)' = InList(u, l)
             /\ Doing(u, l, n, c) => Doing(u, l, n, c)'
  <2>1. /\ Inside(u)' = Inside(u) /\ Place(u)' = Place(u) /\ Phase(u)' = Phase(u)
        /\ Mine(u, loop[u].i)' = Mine(u, loop[u].i)
    BY OthersKeepPlace
  <2> DEFINE x == Mine(u, loop[u].i)
  <2>2. \A y, K : /\ LP!InsertLocal(u, h, Own(l), y, n, c)
                       => LP!InsertLocal(u, h, Own(l), y, n, c)'
                  /\ LP!LookupLocal(u, h, K, n, c) => LP!LookupLocal(u, h, K, n, c)'
                  /\ LP!DeleteLocal(u, y, n, c) => LP!DeleteLocal(u, y, n, c)'
                  /\ LP!LengthLocal(u, h, n, c) => LP!LengthLocal(u, h, n, c)'
    <3>1. pc'[u] = pc[u] /\ reg'[u] = reg[u]
      OBVIOUS
    <3>2. \A S, y : S = Own(l) /\ LP!InsertLocal(u, h, S, y, n, c) => LP!InsertLocal(u, h, S, y, n, c)'
      BY <3>1, <1>2, <1>3, LP!LocalKept
    <3>3. \A y : LP!InsertLocal(u, h, Own(l), y, n, c) => LP!InsertLocal(u, h, Own(l), y, n, c)'
      BY <3>2, <1>3 DEF LP!InsertLocal
    <3>4. \A y, K : /\ LP!LookupLocal(u, h, K, n, c) => LP!LookupLocal(u, h, K, n, c)'
                    /\ LP!DeleteLocal(u, y, n, c) => LP!DeleteLocal(u, y, n, c)'
                    /\ LP!LengthLocal(u, h, n, c) => LP!LengthLocal(u, h, n, c)'
      BY <3>1, <1>2, <1>3, LP!LocalKept
    <3> QED BY <3>3, <3>4
  <2>3. Doing(u, l, n, c) => Doing(u, l, n, c)'
    BY <2>1, <2>2 DEF Doing
  <2> QED BY <2>1, <2>3 DEF InList
<1>6. (\A u \in Threads : ~InList(u, l)') => LP!Whole(n, c)
  <2>1. ASSUME NEW t \in A, InList(t, l) PROVE LP!Whole(n, c)
    <3>1. Doing(t, l, n, c) /\ pc[t] = "ret"
          /\ Phase(t) \in {"insert", "length", "lookup", "delete"}
      BY <1>1, <2>1 DEF Holds
    <3>2. \A y, K, S : \/ LP!InsertLocal(t, h, S, y, n, c) \/ LP!LookupLocal(t, h, K, n, c)
                       \/ LP!DeleteLocal(t, y, n, c) \/ LP!LengthLocal(t, h, n, c)
                       => LP!Whole(n, c)
      BY <3>1, LP!ReturnsWhole
    <3> QED BY <3>1, <3>2 DEF Doing
  <2>2. CASE \A t \in A : ~InList(t, l)
    BY <1>1, <1>5, <2>2 DEF Holds
  <2> QED BY <2>1, <2>2
<1>7. Holds(l, n, c)'
  BY <1>1, <1>4, <1>5, <1>6 DEF Holds
<1>8. Members(l)' = LP!On(n, c) /\ Members(l) = LP!On(n, c)
  BY <1>3, <1>4, MembersAfter, ChainMembers
<1> QED BY <1>7, <1>8 DEF ListState

(* The list a thread is alone on is in order if what it does is.           *)
LEMMA ListHere ==
  ASSUME NEW t \in Threads, NEW l \in Lists, NEW n, NEW c, key' = key,
         \A u \in Threads \ {t} : /\ pc'[u] = pc[u] /\ loop'[u] = loop[u]
                                  /\ ~InList(u, l),
         LP!Chain(ListHead(l), Own(l), n, c)', InList(t, l)', Doing(t, l, n, c)'
  PROVE  ListState(l)'
<1>1. ASSUME NEW u \in Threads \ {t} PROVE ~InList(u, l)'
  BY OthersKeepPlace DEF InList
<1>2. Holds(l, n, c)'
  BY <1>1 DEF Holds
<1> QED BY <1>2 DEF ListState

-----------------------------------------------------------------------------
(* The refinement mapping to AtomicList, and which of its steps a step here *)
(* is: an insert when the new element is linked in, a delete when the found *)
(* one is taken out, and nothing otherwise.                                 *)

LEMMA SameOwners ==
  ASSUME key' = key
  PROVE  aKey' = aKey
BY DEF aKey

(* A list's element is its owner's, and owners tell elements apart.         *)
LEMMA OnSomeList ==
  ASSUME NEW e \in Elems, \A l \in Lists : Members(l) \subseteq Elems
  PROVE  Owner(e) \in aMembers <=> \E l \in Lists : e \in Members(l)
<1>1. ASSUME NEW l \in Lists, NEW f \in Members(l), Owner(f) = Owner(e) PROVE f = e
  BY <1>1, OwnerInjective
<1> QED BY <1>1 DEF aMembers

LEMMA KeyOfOwner ==
  ASSUME NEW e \in Elems
  PROVE  aKey[Owner(e)] = key[e]
BY MineOfOwner DEF aKey

LEMMA NothingHappens ==
  ASSUME key' = key, \A l \in Lists : Members(l)' = Members(l),
         \A t \in Workers : InsertsDone(t)' = InsertsDone(t) /\ DeletesDone(t)' = DeletesDone(t)
  PROVE  UNCHANGED avars
<1>1. aMembers' = aMembers
  BY DEF aMembers, Owner
<1>2. aInserted' = aInserted
  BY DEF aInserted
<1>3. aDeleted' = aDeleted
  BY DEF aDeleted
<1> QED BY <1>1, <1>2, <1>3, SameOwners DEF avars

LEMMA InsertHappens ==
  ASSUME key' = key, NEW t \in Workers, NEW i \in 0..(niteratns - 1), NEW h \in Lists,
         \A l \in Lists \ {h} : Members(l)' = Members(l),
         Members(h)' = Members(h) \cup {Mine(t, i)},
         InsertsDone(t) = i, InsertsDone(t)' = i + 1,
         \A u \in Workers \ {t} : InsertsDone(u)' = InsertsDone(u),
         \A u \in Workers : DeletesDone(u)' = DeletesDone(u)
  PROVE  LP!Insert(t)
<1>1. Owner(Mine(t, i)) = <<t, i>>
  BY OwnerOfMine
<1>2. aMembers' = aMembers \cup {<<t, aInserted[t]>>}
  <2>1. (UNION {Members(l)' : l \in Lists})
          = (UNION {Members(l) : l \in Lists}) \cup {Mine(t, i)}
    OBVIOUS
  <2>2. aMembers' = {Owner(e) : e \in UNION {Members(l)' : l \in Lists}}
    BY DEF aMembers, Owner
  <2>3. aInserted[t] = i
    BY DEF aInserted
  <2> QED BY <1>1, <2>1, <2>2, <2>3 DEF aMembers
<1>3. aInserted' = [aInserted EXCEPT ![t] = aInserted[t] + 1] /\ aInserted[t] < niteratns
  <2> DEFINE old(u) == InsertsDone(u)
             new(u) == InsertsDone(u)'
  <2>1. aInserted = [u \in Workers |-> old(u)] /\ aInserted' = [u \in Workers |-> new(u)]
    BY DEF aInserted
  <2>2. new(t) = old(t) + 1 /\ old(t) = i /\ \A u \in Workers \ {t} : new(u) = old(u)
    OBVIOUS
  <2>3. i < niteratns
    BY IterationsAssumption
  <2> HIDE DEF old, new
  <2> QED BY <2>1, <2>2, <2>3
<1>4. aDeleted' = aDeleted
  BY DEF aDeleted
<1> QED BY <1>2, <1>3, <1>4, SameOwners DEF LP!Insert

LEMMA DeleteHappens ==
  ASSUME key' = key, NEW t \in Workers, NEW i \in 0..(niteratns - 1), NEW h \in Lists,
         NEW y \in Members(h), \A l \in Lists : Members(l) \subseteq Own(l),
         key[y] = key[Mine(t, i)],
         \A l \in Lists \ {h} : Members(l)' = Members(l),
         Members(h)' = Members(h) \ {y},
         DeletesDone(t) = i, DeletesDone(t)' = i + 1, InsertsDone(t) = niteratns,
         \A u \in Workers \ {t} : DeletesDone(u)' = DeletesDone(u),
         \A u \in Workers : InsertsDone(u)' = InsertsDone(u)
  PROVE  LP!Delete(t)
<1>1. y \in Elems /\ \A l \in Lists : Members(l) \subseteq Elems
  BY DEF Own
<1>2. Owner(y) \in aMembers /\ aKey[Owner(y)] = key[y]
  BY <1>1, OnSomeList, KeyOfOwner
<1>3. aKey[<<t, aDeleted[t]>>] = key[Mine(t, i)]
  <2>1. <<t, i>> \in Owned /\ aDeleted[t] = i
    BY OwnerOfMine DEF aDeleted
  <2> QED BY <2>1 DEF aKey
<1>4. aMembers' = aMembers \ {Owner(y)}
  <2>1. ASSUME NEW l \in Lists, l # h PROVE y \notin Members(l)
    BY <2>1 DEF Own
  <2>2. (UNION {Members(l)' : l \in Lists}) = (UNION {Members(l) : l \in Lists}) \ {y}
    BY <2>1
  <2>3. aMembers' = {Owner(e) : e \in UNION {Members(l)' : l \in Lists}}
    BY DEF aMembers, Owner
  <2>4. \A e \in UNION {Members(l) : l \in Lists} : Owner(e) = Owner(y) => e = y
    BY <1>1, OwnerInjective
  <2> QED BY <2>2, <2>3, <2>4 DEF aMembers
<1>5. aDeleted' = [aDeleted EXCEPT ![t] = aDeleted[t] + 1] /\ aDeleted[t] < niteratns
      /\ aInserted[t] = niteratns
  <2> DEFINE old(u) == DeletesDone(u)
             new(u) == DeletesDone(u)'
  <2>1. aDeleted = [u \in Workers |-> old(u)] /\ aDeleted' = [u \in Workers |-> new(u)]
    BY DEF aDeleted
  <2>2. new(t) = old(t) + 1 /\ old(t) = i /\ \A u \in Workers \ {t} : new(u) = old(u)
    OBVIOUS
  <2>3. i < niteratns
    BY IterationsAssumption
  <2>4. aInserted[t] = niteratns
    BY DEF aInserted
  <2> HIDE DEF old, new
  <2> QED BY <2>1, <2>2, <2>3, <2>4
<1>6. aInserted' = aInserted
  BY DEF aInserted
<1> QED BY <1>2, <1>3, <1>4, <1>5, <1>6, SameOwners DEF LP!Delete

(* The atomic invariant is kept by what happens.                           *)
LEMMA AtomicKept ==
  ASSUME LP!IInv, (\E t \in Workers : LP!Insert(t) \/ LP!Delete(t)) \/ UNCHANGED avars
  PROVE  LP!IInv' /\ [LP!Next]_avars
<1>1. LP!Workers = Workers
  BY DEF LP!Workers, Workers
<1>2. [LP!Next]_avars /\ [LP!Next]_(LP!vars)
  BY <1>1 DEF LP!Next, avars, LP!vars
<1> QED BY <1>2, LP!StepIInv, ThreadsAssumption, IterationsAssumption

-----------------------------------------------------------------------------
(* The invariant of the lists of a process with locks.                      *)

(* The lists of a synchronised process and what the atomic specification   *)
(* says of them.                                                           *)
ListsInv == /\ \A l \in Lists : ListState(l)
            /\ LP!IInv
            /\ \A t \in Workers : pc[t] # "corrupted"

(* What changes from worker to worker: only the one that moves.            *)
Still(u) == pc'[u] = pc[u] /\ reg'[u] = reg[u] /\ loop'[u] = loop[u]

(* With locks at most one thread is inside a list: a worker, or main when  *)
(* the workers have returned.                                              *)
LEMMA AloneInList ==
  ASSUME Inv, LInv, opt_sync # "U", NEW l, NEW t \in Threads, NEW u \in Threads,
         InList(t, l), InList(u, l)
  PROVE  t = u
<1>1. pc[Main] \in InCall => \A w \in Workers : ~Inside(w)
  <2>1. "returned" \notin InCall
    BY LabelsOfCalls
  <2> QED BY <2>1 DEF Inv, Joined, MainOrder, Inside, Workers
<1>2. \A w \in Workers : w # Main
  BY ThreadsAssumption DEF Workers, Main
<1> QED BY <1>1, <1>2 DEF LInv, OneWorkerPerList, InList, Inside, Place, Threads

LEMMA MembersOwned ==
  ASSUME LP!Tied, KeysInv, \A l \in Lists : ListState(l)
  PROVE  \A l \in Lists : Members(l) \subseteq Own(l) /\ Members(l) \subseteq Elems
BY ChainMembers DEF ListState, Holds, Own

(* Own(l) after a step that changes no key.                                *)
LEMMA OwnAfter ==
  ASSUME key' = key, NEW l, NEW S, S = Own(l), NEW h, NEW t, NEW x, NEW n, NEW c
  PROVE  /\ Own(l)' = S
         /\ LP!Chain(h, S, n, c)' => LP!Chain(h, Own(l), n, c)'
         /\ LP!InsertLocal(t, h, S, x, n, c)' => LP!InsertLocal(t, h, Own(l), x, n, c)'
<1>1. Own(l)' = S
  BY DEF Own, ListOf
<1> QED BY <1>1 DEF LP!Chain, LP!InsertLocal

(* A thread that enters a list nobody is inside.                           *)
LEMMA EnterList ==
  ASSUME LP!Tied, KeysInv, LP!Tied', KeysInv', NEW t \in Threads, NEW h \in Lists,
         next' = next, prev' = prev, key' = key, loop'[t] = loop[t], ListState(h),
         \A u \in Threads \ {t} : Still(u), \A u \in Threads : ~InList(u, h),
         Place(t) = h, pc'[t] \in InCall,
         NEW x, x = Mine(t, loop[t].i), NEW K, K = key[x],
         \/ Phase(t) = "insert" /\ LP!CallInsert(t, ListHead(h), x) /\ x \in Own(h) \ Members(h)
         \/ Phase(t) = "length" /\ LP!CallLength(t, ListHead(h))
         \/ Phase(t) = "lookup" /\ LP!CallLookup(t, ListHead(h), K)
  PROVE  ListState(h)' /\ Members(h)' = Members(h)
<1>1. PICK n, c : Holds(h, n, c)
  BY DEF ListState
<1>2. PICK S : S = Own(h)
  OBVIOUS
<1>3. /\ LP!Setting(ListHead(h), S) /\ LP!Chain(ListHead(h), S, n, c) /\ LP!Whole(n, c)
      /\ Members(h) = LP!On(n, c)
  BY <1>1, <1>2, ListsAreSet, ChainMembers DEF Holds
<1>4. /\ LP!Chain(ListHead(h), S, n, c)'
      /\ LP!CallInsert(t, ListHead(h), x) /\ x \in S \ LP!On(n, c) =>
           LP!InsertLocal(t, ListHead(h), S, x, n, c)'
      /\ LP!CallLookup(t, ListHead(h), K) => LP!LookupLocal(t, ListHead(h), K, n, c)'
      /\ LP!CallLength(t, ListHead(h)) => LP!LengthLocal(t, ListHead(h), n, c)'
  BY <1>3, LP!CallsFindWhole
<1>5. list_num(t)' = list_num(t) /\ Mine(t, loop[t].i)' = x /\ key'[x] = K
  BY DEF list_num, ListOf
<1>6. Place(t)' = h /\ Phase(t)' = Phase(t) /\ InList(t, h)'
  BY <1>5 DEF Place, Phase, InList, Inside
<1>7. /\ LP!Chain(ListHead(h), Own(h), n, c)'
      /\ LP!InsertLocal(t, ListHead(h), S, x, n, c)' =>
           LP!InsertLocal(t, ListHead(h), Own(h), x, n, c)'
  BY <1>2, <1>4, OwnAfter
<1>8. Doing(t, h, n, c)'
  <2>1. CASE Phase(t) = "insert"
    <3>1. LP!InsertLocal(t, ListHead(h), Own(h), x, n, c)'
      BY <1>2, <1>3, <1>4, <1>7, <2>1
    <3>2. Phase(t)' = "insert"
      BY <1>6, <2>1
    <3> QED BY <1>5, <3>1, <3>2 DEF Doing
  <2>2. CASE Phase(t) = "length"
    <3>1. LP!LengthLocal(t, ListHead(h), n, c)' /\ Phase(t)' = "length"
      BY <1>4, <1>6, <2>2
    <3> QED BY <3>1 DEF Doing
  <2>3. CASE Phase(t) = "lookup"
    <3>1. LP!LookupLocal(t, ListHead(h), K, n, c)' /\ Phase(t)' = "lookup"
      BY <1>4, <1>6, <2>3
    <3> QED BY <1>5, <3>1 DEF Doing
  <2> QED BY <2>1, <2>2, <2>3
<1>9. Members(h)' = LP!On(n, c)
  BY <1>7, MembersAfter
<1>10. ListState(h)'
  BY <1>6, <1>7, <1>8, ListHere DEF Still
<1> QED BY <1>3, <1>9, <1>10

-----------------------------------------------------------------------------
(* Every action keeps it.  Taking a lock enters a list nobody is inside.    *)

LEMMA DoneKept ==
  ASSUME NEW u, Still(u)
  PROVE  InsertsDone(u)' = InsertsDone(u) /\ DeletesDone(u)' = DeletesDone(u)
BY DEF Still, InsertsDone, DeletesDone

LEMMA KeysKept == KeysInv /\ key' = key => KeysInv'
BY DEF KeysInv, AllKeys, hash_str, Lists, Elems

(* lock_general(): the list is free, so nobody is inside.                  *)
LEMMA LockKeepsLists ==
  ASSUME RInv, Inv, LInv, KeysInv, ListsInv, LP!Tied', opt_sync # "U",
         NEW t \in Workers, LockGeneral(t)
  PROVE  (\A l \in Lists : ListState(l)') /\ UNCHANGED avars /\ pc'[t] # "corrupted"
         /\ \A u \in Threads \ {t} : Still(u)
<1>0. PICK h, x, i : h = list_num(t) /\ x = Mine(t, i) /\ i = loop[t].i
  OBVIOUS
<1>1. /\ t \in Threads /\ t # Main /\ h \in Lists /\ pc[t] = "lock" /\ locks[h] = 0
      /\ next' = next /\ prev' = prev /\ key' = key /\ loop' = loop
  BY <1>0, ThreadsAssumption DEF LockGeneral, At, Threads, Workers, Main
<1>2. /\ LP!Tied /\ KeysInv' /\ AtTurn(t) /\ Place(t) = h /\ Phase(t) = loop[t].phase
      /\ loop[t].phase # "delete"
  BY <1>0, <1>1, KeysKept DEF RInv, Turns, InItsFunction, Place, Phase
<1>3. \/ /\ loop[t].phase = "insert" /\ LP!CallInsert(t, ListHead(h), x)
         /\ pc' = [pc EXCEPT ![t] = "ins_first"]
      \/ /\ loop[t].phase = "length" /\ LP!CallLength(t, ListHead(h))
         /\ pc' = [pc EXCEPT ![t] = "len_head1"]
      \/ /\ loop[t].phase = "lookup" /\ LP!CallLookup(t, ListHead(h), key[x])
         /\ pc' = [pc EXCEPT ![t] = "look_first"]
  BY <1>0, SameCalls DEF LockGeneral, SL!CallInsert, SL!CallLength, SL!CallLookup
<1>4. /\ \A u \in Threads \ {t} : Still(u)
      /\ pc'[t] \in {"ins_first", "len_head1", "look_first"}
  <2>1. DOMAIN pc = Threads /\ DOMAIN reg = Threads
    BY DEF RInv, LocksShape, LP!Tied, LP!Registers
  <2>2. \E r : reg' = [reg EXCEPT ![t] = r]
    BY DEF LockGeneral, SL!CallInsert, SL!CallLength, SL!CallLookup
  <2> QED BY <1>1, <1>3, <2>1, <2>2 DEF Still
<1>5. pc'[t] \in InCall /\ ~Inside(t)
  BY <1>1, <1>4 DEF InCall, SL!Labels, Inside
<1>6. \A u \in Threads : ~InList(u, h)
  <2>1. ASSUME NEW u \in Workers, InList(u, h) PROVE FALSE
    <3>1. locks[list_num(u)] = 1 /\ list_num(u) = h
      BY <2>1, ThreadsAssumption DEF LInv, HoldsItsLock, InList, Place, Main, Workers
    <3> QED BY <3>1, <1>1
  <2>2. ASSUME InList(Main, h) PROVE FALSE
    <3>1. pc[t] = "returned"
      BY <2>2 DEF InList, Inside, Inv, Joined, MainOrder, Workers
    <3> QED BY <3>1, <1>1
  <2> QED BY <2>1, <2>2 DEF Threads
<1>7. \A l \in Lists : ListState(l)
  BY DEF ListsInv
<1>8. Place(t)' = h
  BY <1>0, <1>1, <1>2 DEF Place, list_num, ListOf
<1>9. ASSUME NEW l \in Lists, l # h
      PROVE  ListState(l)' /\ Members(l)' = Members(l)
  <2>1. ~InList(t, l)' /\ ~InList(t, l)
    BY <1>5, <1>8, <1>9 DEF InList
  <2>2. {t} \in SUBSET Threads /\ \A u \in Threads \ {t} : pc'[u] = pc[u] /\ reg'[u] = reg[u] /\ loop'[u] = loop[u]
    BY <1>1, <1>4 DEF Still
  <2> QED BY <1>1, <1>2, <1>7, <2>1, <2>2, ListsElsewhere
<1>10. loop[t].phase = "insert" => x \in Own(h) \ Members(h)
  <2> SUFFICES ASSUME loop[t].phase = "insert"
               PROVE  x \in Own(h) \ Members(h)
    OBVIOUS
  <2>1. i \in 0..(niteratns - 1) /\ ListOf(x) = h
    BY <1>0, <1>2 DEF AtTurn, list_num
  <2>2. x \in Elems /\ Owner(x) = <<t, i>>
    BY <1>0, <2>1, MineIsElement, OwnerOfMine
  <2>3. x \notin Members(h)
    <3> SUFFICES ASSUME x \in Members(h) PROVE FALSE
      OBVIOUS
    <3>1. Owner(x) \in aMembers
      BY <1>1 DEF aMembers
    <3>2. aInserted[t] = i
      <4>1. InsertsDone(t) = i + 0
        BY <1>0, <1>1 DEF InsertsDone
      <4> QED BY <2>1, <4>1, IterationsAssumption DEF aInserted
    <3>3. Owner(x)[2] < aInserted[Owner(x)[1]]
      BY <3>1 DEF ListsInv, LP!IInv, LP!OrderInv
    <3> QED BY <2>1, <2>2, <3>2, <3>3, IterationsAssumption
  <2> QED BY <2>1, <2>2, <2>3 DEF Own
<1>11. ListState(h)' /\ Members(h)' = Members(h)
  <2>1. \A u \in Threads \ {t} : Still(u)
    BY <1>4
  <2>2. loop'[t] = loop[t] /\ ListState(h)
    BY <1>1, <1>7
  <2>3. PICK K : K = key[x]
    OBVIOUS
  <2>4. \/ Phase(t) = "insert" /\ LP!CallInsert(t, ListHead(h), x) /\ x \in Own(h) \ Members(h)
        \/ Phase(t) = "length" /\ LP!CallLength(t, ListHead(h))
        \/ Phase(t) = "lookup" /\ LP!CallLookup(t, ListHead(h), K)
    BY <1>2, <1>3, <1>10, <2>3
  <2> QED BY <1>0, <1>1, <1>2, <1>5, <1>6, <2>1, <2>2, <2>3, <2>4, EnterList
<1>12. \A u \in Workers : InsertsDone(u)' = InsertsDone(u) /\ DeletesDone(u)' = DeletesDone(u)
  <2>1. InsertsDone(t)' = InsertsDone(t) /\ DeletesDone(t)' = DeletesDone(t)
    BY <1>1, <1>4 DEF InsertsDone, DeletesDone
  <2> QED BY <2>1, <1>4, DoneKept DEF Threads
<1>13. \A l \in Lists : Members(l)' = Members(l)
  BY <1>9, <1>11
<1>14. UNCHANGED avars
  BY <1>1, <1>12, <1>13, NothingHappens
<1>15. pc'[t] # "corrupted"
  BY <1>4
<1> QED BY <1>9, <1>11, <1>14, <1>15, <1>4

-----------------------------------------------------------------------------
(* A step of a function of SortedList on one list, with the others' as they *)
(* were.                                                                    *)

(* What belongs to one list belongs to no other.                           *)
LEMMA ListsDisjoint ==
  ASSUME NEW l \in Lists, NEW h \in Lists, l # h, NEW m \in {ListHead(l)} \cup Own(l)
  PROVE  m \in LP!Nodes \ ({ListHead(h)} \cup Own(h))
<1>1. Heads \cap Elems = {} /\ ListHead(l) # ListHead(h)
  BY DEF Heads, Elems, ListHead, Element
<1>2. ListHead(l) \in Heads /\ ListHead(h) \in Heads
  BY DEF Heads
<1> QED BY <1>1, <1>2 DEF Own, LP!Nodes

(* One step of the thread that is alone inside a list.                     *)
LEMMA StepInList ==
  ASSUME LP!Tied, KeysInv, LP!Tied', KeysInv', NEW t \in Threads, NEW h \in Lists,
         LP!ListStep(t), pc[t] # "ret", pc'[t] \in InCall, loop'[t] = loop[t], key' = key,
         \A u \in Threads \ {t} : Still(u) /\ ~InList(u, h),
         ListState(h), InList(t, h), NEW x, x = Mine(t, loop[t].i),
         Phase(t) \in {"insert", "length", "lookup", "delete"}
  PROVE  /\ ListState(h)'
         /\ \A l \in Lists \ {h} : \A m \in {ListHead(l)} \cup Own(l) :
              next'[m] = next[m] /\ prev'[m] = prev[m]
         /\ \/ Phase(t) = "insert" /\ pc'[t] = "ret" /\ Members(h)' = Members(h) \cup {x}
            \/ /\ Phase(t) = "delete" /\ pc'[t] = "ret"
               /\ \E y \in Members(h) : key[y] = key[x] /\ Members(h)' = Members(h) \ {y}
            \/ /\ pc'[t] = "ret" => Phase(t) \in {"length", "lookup"}
               /\ Members(h)' = Members(h)
<1>1. PICK n, c : Holds(h, n, c)
  BY DEF ListState
<1>2. PICK S, g, K : S = Own(h) /\ g = ListHead(h) /\ K = key[x]
  OBVIOUS
<1>3. /\ LP!Setting(g, S) /\ LP!Chain(g, S, n, c) /\ Doing(t, h, n, c)
      /\ Members(h) = LP!On(n, c)
  BY <1>1, <1>2, ListsAreSet, ChainMembers DEF Holds
<1>4. list_num(t)' = list_num(t) /\ Mine(t, loop[t].i)' = x /\ key'[x] = K
  BY <1>2 DEF list_num, ListOf
<1>5. Place(t)' = Place(t) /\ Phase(t)' = Phase(t) /\ InList(t, h)'
  BY <1>4 DEF Place, Phase, InList, Inside
<1>6. ASSUME LP!Apart(g, S)
      PROVE  \A l \in Lists \ {h} : \A m \in {ListHead(l)} \cup Own(l) :
               next'[m] = next[m] /\ prev'[m] = prev[m]
  BY <1>2, <1>6, ListsDisjoint DEF LP!Apart
<1>7. ASSUME NEW m, NEW d, LP!Chain(g, S, m, d)', Doing(t, h, m, d)'
      PROVE  ListState(h)' /\ Members(h)' = LP!On(m, d)
  <2>1. LP!Chain(g, Own(h), m, d)'
    BY <1>2, <1>7, OwnAfter
  <2>2. ListState(h)'
    BY <1>2, <1>5, <1>7, <2>1, ListHere DEF Still
  <2> QED BY <1>2, <2>1, <2>2, MembersAfter
<1>8. CASE Phase(t) = "insert"
  <2>1. LP!InsertLocal(t, g, S, x, n, c)
    BY <1>2, <1>3, <1>8 DEF Doing
  <2>2. LP!Apart(g, S) /\ \E m, d :
          /\ LP!Chain(g, S, m, d)' /\ LP!InsertLocal(t, g, S, x, m, d)'
          /\ LP!On(m, d) = IF pc'[t] = "ret" THEN LP!On(n, c) \cup {x} ELSE LP!On(n, c)
    BY <1>3, <2>1, LP!InsertStep
  <2>3. PICK m, d :
          /\ LP!Chain(g, S, m, d)' /\ LP!InsertLocal(t, g, S, x, m, d)'
          /\ LP!On(m, d) = IF pc'[t] = "ret" THEN LP!On(n, c) \cup {x} ELSE LP!On(n, c)
    BY <2>2
  <2>4. LP!InsertLocal(t, g, Own(h), x, m, d)'
    BY <1>2, <2>3, OwnAfter
  <2>5. Doing(t, h, m, d)'
    <3>1. Phase(t)' = "insert"
      BY <1>5, <1>8
    <3> QED BY <1>2, <1>4, <2>4, <3>1 DEF Doing
  <2>6. ListState(h)' /\ Members(h)' = LP!On(m, d)
    BY <1>7, <2>3, <2>5
  <2> QED BY <1>3, <1>6, <1>8, <2>2, <2>3, <2>6
<1>9. CASE Phase(t) = "length"
  <2>1. LP!LengthLocal(t, g, n, c)
    BY <1>2, <1>3, <1>9 DEF Doing
  <2>2. /\ LP!Chain(g, S, n, c)' /\ LP!LengthLocal(t, g, n, c)'
        /\ next' = next /\ prev' = prev
    BY <1>3, <2>1, LP!LengthStep
  <2>3. Doing(t, h, n, c)'
    <3>1. Phase(t)' = "length"
      BY <1>5, <1>9
    <3> QED BY <1>2, <2>2, <3>1 DEF Doing
  <2>4. ListState(h)' /\ Members(h)' = LP!On(n, c)
    BY <1>7, <2>2, <2>3
  <2> QED BY <1>3, <1>9, <2>2, <2>4
<1>10. CASE Phase(t) = "lookup"
  <2>1. LP!LookupLocal(t, g, K, n, c)
    BY <1>2, <1>3, <1>10 DEF Doing
  <2>2. /\ LP!Chain(g, S, n, c)' /\ LP!LookupLocal(t, g, K, n, c)'
        /\ next' = next /\ prev' = prev
    BY <1>3, <2>1, LP!LookupStep
  <2>3. Doing(t, h, n, c)'
    <3>1. Phase(t)' = "lookup"
      BY <1>5, <1>10
    <3> QED BY <1>2, <1>4, <2>2, <3>1 DEF Doing
  <2>4. ListState(h)' /\ Members(h)' = LP!On(n, c)
    BY <1>7, <2>2, <2>3
  <2> QED BY <1>3, <1>10, <2>2, <2>4
<1>11. CASE Phase(t) = "delete"
  <2>1. PICK y \in Elems : key[y] = K /\ LP!DeleteLocal(t, y, n, c)
    BY <1>2, <1>3, <1>11 DEF Doing
  <2>2. LP!Apart(g, S) /\ \E m, d :
          /\ LP!Chain(g, S, m, d)' /\ LP!DeleteLocal(t, y, m, d)'
          /\ LP!On(m, d) = IF pc'[t] = "ret" THEN LP!On(n, c) \ {y} ELSE LP!On(n, c)
    BY <1>3, <2>1, LP!DeleteStep
  <2>3. PICK m, d :
          /\ LP!Chain(g, S, m, d)' /\ LP!DeleteLocal(t, y, m, d)'
          /\ LP!On(m, d) = IF pc'[t] = "ret" THEN LP!On(n, c) \ {y} ELSE LP!On(n, c)
    BY <2>2
  <2>4. y \in LP!On(n, c)
    BY <2>1 DEF LP!DeleteLocal, LP!On
  <2>5. Doing(t, h, m, d)'
    <3>1. Phase(t)' = "delete"
      BY <1>5, <1>11
    <3>2. key'[y] = key'[x] /\ y \in Elems'
      BY <1>4, <2>1 DEF Elems
    <3> QED BY <1>2, <1>4, <2>3, <3>1, <3>2 DEF Doing
  <2>6. ListState(h)' /\ Members(h)' = LP!On(m, d)
    BY <1>7, <2>3, <2>5
  <2> QED BY <1>2, <1>3, <1>6, <1>11, <2>1, <2>2, <2>3, <2>4, <2>6
<1> QED BY <1>8, <1>9, <1>10, <1>11

-----------------------------------------------------------------------------
(* A call: what its last step means for AtomicList.                         *)

(* What a step of the atomic specification may be.                         *)
Happens == (\E t \in Workers : LP!Insert(t) \/ LP!Delete(t)) \/ UNCHANGED avars

(* The list a thread is inside is one of the lists.                        *)
LEMMA InsideAList ==
  ASSUME RInv, LInv, opt_sync # "U", NEW t \in Threads, Inside(t)
  PROVE  /\ Place(t) \in Lists /\ Phase(t) \in {"insert", "length", "lookup", "delete"}
         /\ t \in Workers => t # Main /\ AtTurn(t) /\ InItsFunction(t)
<1>1. CASE t = Main
  <2>1. loop[Main].i \in 0..sublist_num /\ loop[Main].i < sublist_num
    BY <1>1 DEF RInv, MainAtLists, Inside
  <2>2. sublist_num \in Nat
    BY IterationsAssumption, ListsAssumption DEF sublist_num
  <2> QED BY <1>1, <2>1, <2>2, ThreadsAssumption DEF Place, Phase, Lists, Workers, Main
<1>2. CASE t # Main
  <2>1. t \in Workers
    BY <1>2 DEF Threads
  <2>2. list_num(t) \in Lists
    BY <2>1 DEF LInv, HoldsItsLock
  <2>3. AtTurn(t) /\ InItsFunction(t)
    BY <2>1 DEF RInv, Turns, Inside
  <2> QED BY <1>2, <2>2, <2>3 DEF Place, Phase, AtTurn
<1> QED BY <1>1, <1>2

(* One access to a list, by a worker or by main.                           *)
LEMMA CallKeepsLists ==
  ASSUME RInv, Inv, LInv, KeysInv, ListsInv, LP!Tied', opt_sync # "U",
         NEW t \in Threads, Call(t)
  PROVE  (\A l \in Lists : ListState(l)') /\ Happens /\ pc'[t] # "corrupted"
         /\ \A u \in Threads \ {t} : Still(u)
<1>0. PICK h, x, i : h = Place(t) /\ x = Mine(t, i) /\ i = loop[t].i
  OBVIOUS
<1>1. /\ LP!ListStep(t) /\ loop' = loop /\ key' = key /\ pc[t] \in SL!Labels
      /\ Inside(t) /\ pc'[t] \in InCall
  <2>1. LP!ListStep(t) /\ loop' = loop /\ key' = key /\ pc[t] \in SL!Labels
    BY SameFunctions DEF Call, SL!ListStep
  <2>2. pc'[t] \in InCall
    BY ListStepMoves DEF Call, Moves, RInv, LocksShape
  <2> QED BY <2>1, <2>2 DEF Inside, InCall
<1>2. pc[t] # "ret" /\ pc'[t] # "corrupted"
  BY <1>1, LabelsOfCalls
<1>3. /\ h \in Lists /\ Phase(t) \in {"insert", "length", "lookup", "delete"}
      /\ t \in Workers => t # Main /\ AtTurn(t) /\ InItsFunction(t)
  BY <1>0, <1>1, InsideAList
<1>4. \A u \in Threads \ {t} : Still(u)
  BY <1>1, LP!StepKeepsLead DEF RInv, LP!OthersKeep, Still
<1>5. InList(t, h) /\ \A u \in Threads \ {t} : ~InList(u, h)
  BY <1>0, <1>1, AloneInList DEF InList
<1>6. LP!Tied /\ KeysInv' /\ \A l \in Lists : ListState(l)
  BY <1>1, KeysKept DEF RInv, ListsInv
<1>7. /\ ListState(h)'
      /\ \A l \in Lists \ {h} : \A m \in {ListHead(l)} \cup Own(l) :
           next'[m] = next[m] /\ prev'[m] = prev[m]
      /\ \/ Phase(t) = "insert" /\ pc'[t] = "ret" /\ Members(h)' = Members(h) \cup {x}
         \/ /\ Phase(t) = "delete" /\ pc'[t] = "ret"
            /\ \E y \in Members(h) : key[y] = key[x] /\ Members(h)' = Members(h) \ {y}
         \/ /\ pc'[t] = "ret" => Phase(t) \in {"length", "lookup"}
            /\ Members(h)' = Members(h)
  <2>1. \A u \in Threads \ {t} : Still(u) /\ ~InList(u, h)
    BY <1>4, <1>5
  <2>2. loop'[t] = loop[t] /\ ListState(h) /\ x = Mine(t, loop[t].i)
    BY <1>0, <1>1, <1>3, <1>6
  <2> QED BY <1>1, <1>2, <1>3, <1>5, <1>6, <2>1, <2>2, StepInList
<1>8. ASSUME NEW l \in Lists, l # h
      PROVE  ListState(l)' /\ Members(l)' = Members(l)
  <2>1. Place(t)' = h
    BY <1>0, <1>1 DEF Place, list_num, ListOf
  <2>2. ~InList(t, l)' /\ ~InList(t, l)
    BY <1>0, <1>8, <2>1 DEF InList
  <2>3. /\ {t} \in SUBSET Threads
        /\ \A u \in Threads \ {t} : pc'[u] = pc[u] /\ reg'[u] = reg[u] /\ loop'[u] = loop[u]
    BY <1>4 DEF Still
  <2>4. \A m \in {ListHead(l)} \cup Own(l) : next'[m] = next[m] /\ prev'[m] = prev[m]
    BY <1>7, <1>8
  <2> QED BY <1>1, <1>6, <2>2, <2>3, <2>4, ListsElsewhere
<1>9. \A u \in Workers \ {t} : InsertsDone(u)' = InsertsDone(u) /\ DeletesDone(u)' = DeletesDone(u)
  BY <1>4, DoneKept DEF Threads
<1>10. Happens
  <2>1. CASE t = Main
    <3>1. Members(h)' = Members(h) /\ t \notin Workers
      BY <1>7, <2>1, ThreadsAssumption DEF Phase, Workers, Main
    <3>2. \A l \in Lists : Members(l)' = Members(l)
      BY <1>8, <3>1
    <3>3. \A u \in Workers : InsertsDone(u)' = InsertsDone(u) /\ DeletesDone(u)' = DeletesDone(u)
      BY <1>9, <3>1
    <3> QED BY <1>1, <3>2, <3>3, NothingHappens DEF Happens
  <2>2. CASE t \in Workers
    <3>1. Phase(t) = loop[t].phase /\ loop'[t] = loop[t]
      BY <1>1, <1>3, <2>2 DEF Phase
    <3>2. CASE Phase(t) = "insert" /\ pc'[t] = "ret" /\ Members(h)' = Members(h) \cup {x}
      <4>1. i \in 0..(niteratns - 1)
        BY <1>0, <1>3, <2>2, <3>1, <3>2 DEF AtTurn
      <4>2. /\ InsertsDone(t) = i + 0 /\ InsertsDone(t)' = i + 1
            /\ DeletesDone(t)' = DeletesDone(t)
        BY <1>0, <1>2, <3>1, <3>2 DEF InsertsDone, DeletesDone
      <4>3. i + 0 = i
        BY <4>1, IterationsAssumption
      <4>4. LP!Insert(t)
        <5>1. Members(h)' = Members(h) \cup {Mine(t, i)}
          BY <1>0, <3>2
        <5>2. \A l \in Lists \ {h} : Members(l)' = Members(l)
          BY <1>8
        <5>3. /\ \A u \in Workers \ {t} : InsertsDone(u)' = InsertsDone(u)
              /\ \A u \in Workers : DeletesDone(u)' = DeletesDone(u)
          BY <1>9, <4>2
        <5>4. InsertsDone(t) = i /\ InsertsDone(t)' = i + 1
          BY <4>2, <4>3
        <5> QED BY <1>1, <1>3, <2>2, <4>1, <5>1, <5>2, <5>3, <5>4, InsertHappens
      <4> QED BY <2>2, <4>4 DEF Happens
    <3>3. CASE /\ Phase(t) = "delete" /\ pc'[t] = "ret"
               /\ \E y \in Members(h) : key[y] = key[x] /\ Members(h)' = Members(h) \ {y}
      <4>1. i \in 0..(niteratns - 1)
        BY <1>0, <1>3, <2>2, <3>1, <3>3 DEF AtTurn
      <4>2. /\ DeletesDone(t) = i + 0 /\ DeletesDone(t)' = i + 1
            /\ InsertsDone(t) = niteratns /\ InsertsDone(t)' = InsertsDone(t)
        BY <1>0, <1>2, <3>1, <3>3 DEF InsertsDone, DeletesDone
      <4>3. i + 0 = i
        BY <4>1, IterationsAssumption
      <4>4. PICK y \in Members(h) : key[y] = key[x] /\ Members(h)' = Members(h) \ {y}
        BY <3>3
      <4>5. LP!Delete(t)
        <5>1. key[y] = key[Mine(t, i)]
          BY <1>0, <4>4
        <5>2. \A l \in Lists \ {h} : Members(l)' = Members(l)
          BY <1>8
        <5>3. /\ \A u \in Workers \ {t} : DeletesDone(u)' = DeletesDone(u)
              /\ \A u \in Workers : InsertsDone(u)' = InsertsDone(u)
          BY <1>9, <4>2
        <5>4. DeletesDone(t) = i /\ DeletesDone(t)' = i + 1 /\ InsertsDone(t) = niteratns
          BY <4>2, <4>3
        <5>5. \A l \in Lists : Members(l) \subseteq Own(l)
          BY <1>6, MembersOwned
        <5> QED BY <1>1, <1>3, <2>2, <4>1, <4>4, <5>1, <5>2, <5>3, <5>4, <5>5, DeleteHappens
      <4> QED BY <2>2, <4>5 DEF Happens
    <3>4. CASE /\ pc'[t] = "ret" => Phase(t) \in {"length", "lookup"}
               /\ Members(h)' = Members(h)
      <4>1. InsertsDone(t)' = InsertsDone(t) /\ DeletesDone(t)' = DeletesDone(t)
        BY <1>2, <3>1, <3>4 DEF InsertsDone, DeletesDone
      <4>2. \A l \in Lists : Members(l)' = Members(l)
        BY <1>8, <3>4
      <4>3. \A u \in Workers : InsertsDone(u)' = InsertsDone(u) /\ DeletesDone(u)' = DeletesDone(u)
        BY <1>9, <4>1
      <4> QED BY <1>1, <4>2, <4>3, NothingHappens DEF Happens
    <3> QED BY <1>7, <3>2, <3>3, <3>4
  <2> QED BY <2>1, <2>2 DEF Threads
<1>11. \A l \in Lists : ListState(l)'
  BY <1>7, <1>8
<1> QED BY <1>2, <1>4, <1>10, <1>11

-----------------------------------------------------------------------------
(* Between the calls: lookup's element is handed to delete.                 *)

(* A worker's lookup has found an element of the key it looked for.        *)
LEMMA LookupHasFound ==
  ASSUME RInv, LInv, KeysInv, ListsInv, opt_sync # "U",
         NEW t \in Workers, pc[t] = "ret", loop[t].phase = "lookup",
         NEW n, NEW c, Holds(list_num(t), n, c)
  PROVE  /\ LP!Whole(n, c) /\ reg[t].ptr \in LP!On(n, c)
         /\ key[reg[t].ptr] = key[Mine(t, loop[t].i)]
<1>0. PICK h, x, i, K : h = list_num(t) /\ x = Mine(t, i) /\ i = loop[t].i /\ K = key[x]
  OBVIOUS
<1>1. Inside(t) /\ t \in Threads
  BY DEF Inside, InCall, Threads
<1>2. h \in Lists /\ t # Main /\ Phase(t) = "lookup" /\ i \in 0..(niteratns - 1) /\ InList(t, h)
  BY <1>0, <1>1, InsideAList DEF Place, Phase, AtTurn, InList
<1>3. LP!Tied /\ \A l \in Lists : ListState(l) /\ Members(l) \subseteq Own(l) /\ Members(l) \subseteq Elems
  BY MembersOwned DEF RInv, ListsInv
<1>4. LP!Whole(n, c) /\ LP!Found(reg[t].ptr, K, n, c)
  <2>1. LP!LookupLocal(t, ListHead(h), K, n, c)
    BY <1>0, <1>1, <1>2 DEF Holds, Doing
  <2> QED BY <2>1, <1>1, LP!ReturnsWhole
<1>5. x \in Elems /\ ListOf(x) = h /\ K \in Seq(Int)
  BY <1>0, <1>2, MineIsElement, KeysAreStrings DEF list_num, KeysInv, Phase
<1>6. Members(h) = LP!On(n, c)
  BY <1>0, <1>2, <1>3, ChainMembers DEF Holds
<1>7. PICK f \in Members(h) : key[f] = K
  <2>1. aInserted[t] = niteratns /\ aDeleted[t] = i
    BY <1>0 DEF aInserted, aDeleted, InsertsDone, DeletesDone
  <2>2. LP!AlwaysFound
    BY LP!Finds, ThreadsAssumption, IterationsAssumption DEF ListsInv
  <2>3. PICK e \in aMembers : aKey[e] = aKey[<<t, i>>]
    <3>1. i < niteratns /\ t \in LP!Workers
      BY <1>2, IterationsAssumption DEF LP!Workers, Workers
    <3> QED BY <2>1, <2>2, <3>1 DEF LP!AlwaysFound
  <2>4. PICK l \in Lists : \E f \in Members(l) : e = Owner(f)
    BY DEF aMembers
  <2>8. PICK f \in Members(l) : e = Owner(f)
    BY <2>4
  <2>5. f \in Elems /\ ListOf(f) = l
    BY <1>3 DEF Own
  <2>6. aKey[e] = key[f] /\ aKey[<<t, i>>] = K
    <3>1. <<t, i>> = Owner(x)
      BY <1>0, <1>2, OwnerOfMine
    <3> QED BY <1>0, <1>5, <2>8, <2>5, <3>1, KeyOfOwner
  <2>7. l = h
    BY <1>0, <1>5, <2>3, <2>5, <2>6 DEF ListOf
  <2> QED BY <2>3, <2>8, <2>6, <2>7
<1>8. \A e \in Elems : key[e] \in Seq(Int)
  BY KeysAreStrings DEF KeysInv
<1>9. \A j \in 1..n : c[j] \in Elems /\ (LP!strcmp(key[c[j]], K) = 0 <=> key[c[j]] = K)
  <2> TAKE j \in 1..n
  <2>1. c[j] \in Elems
    BY DEF Holds, LP!Chain, Own
  <2> QED BY <1>5, <1>8, <2>1, LP!StrcmpEqual
<1>10. \E j \in 1..n : f = c[j]
  BY <1>6 DEF LP!On
<1> QED BY <1>0, <1>4, <1>7, <1>9, <1>10 DEF LP!Found, LP!On

LEMMA DeleteKeepsLists ==
  ASSUME RInv, Inv, LInv, KeysInv, ListsInv, LP!Tied', opt_sync # "U",
         NEW t \in Workers, DeleteFound(t)
  PROVE  (\A l \in Lists : ListState(l)') /\ UNCHANGED avars /\ pc'[t] # "corrupted"
         /\ \A u \in Threads \ {t} : Still(u)
<1>0. PICK h, x, i, p, K, S :
        /\ h = list_num(t) /\ x = Mine(t, i) /\ i = loop[t].i
        /\ p = reg[t].ptr /\ K = key[x] /\ S = Own(h)
  OBVIOUS
<1>1. /\ t \in Threads /\ t # Main /\ pc[t] = "ret" /\ loop[t].phase = "lookup"
      /\ next' = next /\ prev' = prev /\ key' = key
      /\ loop' = [loop EXCEPT ![t].phase = "delete"] /\ LP!CallDelete(t, p)
  BY <1>0, SameCalls, ThreadsAssumption DEF DeleteFound, At, Threads, Workers, Main
<1>2. loop'[t].phase = "delete" /\ loop'[t].i = i /\ \A u \in Threads \ {t} : loop'[u] = loop[u]
  BY <1>0, <1>1 DEF RInv, LocksShape
<1>3. pc'[t] = "del_prev" /\ \A u \in Threads \ {t} : Still(u)
  BY <1>1, <1>2, LP!Calls DEF RInv, LP!Tied, LP!OthersKeep, Still
<1>4. Inside(t) /\ Inside(t)'
  BY <1>1, <1>3 DEF Inside, InCall, SL!Labels
<1>5. h \in Lists /\ InList(t, h) /\ InList(t, h)' /\ Phase(t)' = "delete" /\ Mine(t, loop[t].i)' = x
  <2>1. h \in Lists /\ InList(t, h)
    BY <1>0, <1>1, <1>4, InsideAList DEF Place, InList
  <2>2. list_num(t)' = list_num(t)
    BY <1>0, <1>1, <1>2 DEF list_num, ListOf
  <2>3. Place(t)' = h /\ Phase(t)' = "delete"
    BY <1>0, <1>1, <1>2, <2>2 DEF Place, Phase
  <2> QED BY <1>0, <1>2, <1>4, <2>1, <2>3 DEF InList
<1>6. \A u \in Threads \ {t} : ~InList(u, h)
  BY <1>1, <1>5, AloneInList
<1>7. LP!Tied /\ KeysInv' /\ \A l \in Lists : ListState(l)
  BY <1>1, KeysKept DEF RInv, ListsInv
<1>8. PICK n, c : Holds(h, n, c)
  BY <1>5, <1>7 DEF ListState
<1>9. LP!Whole(n, c) /\ p \in LP!On(n, c) /\ key[p] = K
  BY <1>0, <1>1, <1>8, LookupHasFound
<1>10. LP!Setting(ListHead(h), S) /\ LP!Chain(ListHead(h), S, n, c) /\ Members(h) = LP!On(n, c)
  BY <1>0, <1>5, <1>7, <1>8, ListsAreSet, ChainMembers DEF Holds
<1>11. LP!Chain(ListHead(h), S, n, c)' /\ LP!DeleteLocal(t, p, n, c)'
  BY <1>1, <1>9, <1>10, LP!CallsFindWhole
<1>12. LP!Chain(ListHead(h), Own(h), n, c)'
  BY <1>0, <1>1, <1>11, OwnAfter
<1>13. Doing(t, h, n, c)'
  <2>1. p \in Elems /\ key'[p] = key'[x]
    BY <1>0, <1>1, <1>9, <1>10 DEF LP!On, LP!Chain, Own
  <2>2. p \in Elems'
    BY <2>1 DEF Elems
  <2> QED BY <1>5, <1>11, <2>1, <2>2 DEF Doing
<1>14. ListState(h)' /\ Members(h)' = Members(h)
  <2>1. ListState(h)'
    BY <1>1, <1>3, <1>5, <1>6, <1>12, <1>13, ListHere DEF Still
  <2> QED BY <1>5, <1>7, <1>10, <1>12, <2>1, MembersAfter
<1>15. ASSUME NEW l \in Lists, l # h
       PROVE  ListState(l)' /\ Members(l)' = Members(l)
  <2>1. ~InList(t, l)' /\ ~InList(t, l)
    BY <1>5, <1>15 DEF InList
  <2>2. /\ {t} \in SUBSET Threads
        /\ \A u \in Threads \ {t} : pc'[u] = pc[u] /\ reg'[u] = reg[u] /\ loop'[u] = loop[u]
    BY <1>1, <1>3 DEF Still
  <2> QED BY <1>1, <1>7, <2>1, <2>2, ListsElsewhere
<1>16. \A u \in Workers : InsertsDone(u)' = InsertsDone(u) /\ DeletesDone(u)' = DeletesDone(u)
  <2>1. InsertsDone(t)' = InsertsDone(t)
    BY <1>1, <1>2 DEF InsertsDone
  <2>2. DeletesDone(t) = i /\ DeletesDone(t)' = i + 0
    BY <1>0, <1>1, <1>2, <1>3 DEF DeletesDone
  <2>3. i + 0 = i
    BY <1>0, <1>1, <1>4, InsideAList, IterationsAssumption DEF AtTurn
  <2> QED BY <2>1, <2>2, <2>3, <1>3, DoneKept DEF Threads
<1>17. UNCHANGED avars
  BY <1>1, <1>14, <1>15, <1>16, NothingHappens
<1> QED BY <1>3, <1>14, <1>15, <1>17

-----------------------------------------------------------------------------
(* The return from a call, and what calls return.                           *)

(* How many inserts and deletes are behind a thread at the start of a turn. *)
LEMMA TurnCounts ==
  ASSUME NEW t, NEW place, loop'[t] = place, pc'[t] = Label(place), NEW n \in 0..niteratns
  PROVE  /\ place \in AfterInsert(n) => InsertsDone(t)' = n /\ DeletesDone(t)' = 0
         /\ \A j : place = AfterLength(j) => InsertsDone(t)' = niteratns /\ DeletesDone(t)' = 0
         /\ place = AfterDelete(n) => InsertsDone(t)' = niteratns /\ DeletesDone(t)' = n
<1>1. niteratns \in Nat /\ n \in Nat /\ n <= niteratns /\ (~(n < niteratns) => n = niteratns)
  BY IterationsAssumption
<1>2. pc'[t] # "ret"
  BY DEF Label
<1>3. InsertsDone(t)' = IF place.phase = "insert" THEN place.i + 0 ELSE niteratns
  BY <1>2 DEF InsertsDone
<1>4. DeletesDone(t)' = CASE place.phase = "lookup"   -> place.i
                          [] place.phase = "delete"   -> place.i + 0
                          [] place.phase = "returned" -> niteratns
                          [] OTHER                    -> 0
  BY <1>2 DEF DeletesDone
<1>5. ASSUME NEW m \in 0..niteratns, place = AfterDelete(m)
      PROVE  InsertsDone(t)' = niteratns /\ DeletesDone(t)' = m
  <2>1. m \in Nat /\ (~(m < niteratns) => m = niteratns)
    BY IterationsAssumption
  <2>2. CASE m < niteratns
    <3>1. place = [phase |-> "lookup", i |-> m]
      BY <1>5, <2>2 DEF AfterDelete
    <3> QED BY <1>3, <1>4, <3>1
  <2>3. CASE ~(m < niteratns)
    <3>1. place = [phase |-> "returned", i |-> 0]
      BY <1>5, <2>3 DEF AfterDelete
    <3> QED BY <1>3, <1>4, <2>1, <2>3, <3>1
  <2> QED BY <2>2, <2>3
<1>6. ASSUME NEW j, place = AfterLength(j)
      PROVE  InsertsDone(t)' = niteratns /\ DeletesDone(t)' = 0
  <2>1. CASE j < sublist_num
    <3>1. place = [phase |-> "length", i |-> j]
      BY <1>6, <2>1 DEF AfterLength
    <3> QED BY <1>3, <1>4, <3>1
  <2>2. CASE ~(j < sublist_num)
    <3>1. place = AfterDelete(0) /\ 0 \in 0..niteratns
      BY <1>1, <1>6, <2>2 DEF AfterLength
    <3> QED BY <1>5, <3>1
  <2> QED BY <2>1, <2>2
<1>7. ASSUME place \in AfterInsert(n)
      PROVE  InsertsDone(t)' = n /\ DeletesDone(t)' = 0
  <2>1. CASE n < niteratns
    <3>1. place = [phase |-> "insert", i |-> n]
      BY <1>7, <2>1 DEF AfterInsert
    <3>2. n + 0 = n
      BY <1>1
    <3> QED BY <1>3, <1>4, <3>1, <3>2
  <2>2. CASE ~(n < niteratns)
    <3>1. PICK j \in GarbageJ : place = AfterLength(j)
      BY <1>7, <2>2 DEF AfterInsert
    <3> QED BY <1>1, <1>6, <2>2, <3>1
  <2> QED BY <2>1, <2>2
<1> QED BY <1>5, <1>6, <1>7

(* A thread that moves outside of the lists, having been at most at the    *)
(* end of a call.                                                          *)
LEMMA OutsideKeepsLists ==
  ASSUME RInv, LInv, KeysInv, ListsInv, LP!Tied', opt_sync # "U",
         NEW A \in SUBSET Threads, next' = next, prev' = prev, key' = key,
         \A u \in Threads \ A : Still(u),
         \A t \in A : /\ ~Inside(t)' /\ pc'[t] # "corrupted"
                      /\ Inside(t) => pc[t] = "ret"
                      /\ t \in Workers => /\ InsertsDone(t)' = InsertsDone(t)
                                          /\ DeletesDone(t)' = DeletesDone(t)
  PROVE  (\A l \in Lists : ListState(l)') /\ UNCHANGED avars
         /\ \A u \in Workers : pc'[u] # "corrupted"
<1>1. LP!Tied /\ KeysInv' /\ \A l \in Lists : ListState(l)
  BY KeysKept DEF RInv, ListsInv
<1>2. ASSUME NEW l \in Lists
      PROVE  ListState(l)' /\ Members(l)' = Members(l)
  <2>1. \A u \in Threads \ A : pc'[u] = pc[u] /\ reg'[u] = reg[u] /\ loop'[u] = loop[u]
    BY DEF Still
  <2>2. \A t \in A : /\ ~InList(t, l)'
                     /\ InList(t, l) =>
                          /\ pc[t] = "ret"
                          /\ Phase(t) \in {"insert", "length", "lookup", "delete"}
    BY InsideAList DEF InList
  <2> QED BY <1>1, <2>1, <2>2, ListsElsewhere
<1>3. \A u \in Workers : InsertsDone(u)' = InsertsDone(u) /\ DeletesDone(u)' = DeletesDone(u)
  BY DoneKept DEF Threads
<1>4. UNCHANGED avars
  BY <1>2, <1>3, NothingHappens
<1>5. \A u \in Workers : pc'[u] # "corrupted"
  BY DEF ListsInv, Still, Threads
<1> QED BY <1>2, <1>4, <1>5

(* What a call that has returned has found: no corruption, no element left *)
(* that is not a member.                                                   *)
LEMMA CallsReturnWell ==
  ASSUME RInv, LInv, KeysInv, ListsInv, opt_sync # "U", NEW t \in Threads, pc[t] = "ret"
  PROVE  /\ Phase(t) = "delete" => reg[t].ret = 0
         /\ Phase(t) = "length" => /\ reg[t].ret \in Nat
                                   /\ Members(Place(t)) = {} => reg[t].ret = 0
<1>0. PICK h : h = Place(t)
  OBVIOUS
<1>1. Inside(t) /\ h \in Lists /\ InList(t, h)
  BY <1>0, InsideAList DEF Inside, InCall, InList
<1>2. PICK n, c : Holds(h, n, c)
  BY <1>1 DEF ListsInv, ListState
<1>3. Doing(t, h, n, c) /\ n \in Nat
  BY <1>1, <1>2 DEF Holds, LP!Chain
<1>4. Members(h) = LP!On(n, c)
  BY <1>1, <1>2, ChainMembers DEF Holds, RInv
<1>5. ASSUME Phase(t) = "length"
      PROVE  reg[t].ret = n
  BY <1>3, <1>5, LP!ReturnsWhole DEF Doing
<1>6. Phase(t) = "delete" => reg[t].ret = 0
  BY <1>3, LP!ReturnsWhole DEF Doing
<1>7. LP!On(n, c) = {} => n = 0
  <2> SUFFICES ASSUME n # 0 PROVE LP!On(n, c) # {}
    OBVIOUS
  <2>1. 1 \in 1..n
    BY <1>3
  <2> QED BY <2>1 DEF LP!On
<1> QED BY <1>0, <1>3, <1>4, <1>5, <1>6, <1>7

(* A thread inside a list dereferences no NULL pointer.                    *)
LEMMA CallsAreSafe ==
  ASSUME RInv, LInv, KeysInv, ListsInv, opt_sync # "U", NEW t \in Threads
  PROVE  ~SL!Faults(t)
<1>0. PICK h, x, K, S : /\ h = Place(t) /\ x = Mine(t, loop[t].i) /\ K = key[x]
                        /\ S = Own(h)
  OBVIOUS
<1> SUFFICES ASSUME LP!Faults(t)
             PROVE  FALSE
  BY SameCalls
<1>1. Inside(t)
  BY DEF LP!Faults, LP!Labels, Inside, InCall, SL!Labels
<1>2. /\ h \in Lists /\ InList(t, h)
      /\ Phase(t) \in {"insert", "length", "lookup", "delete"}
  BY <1>0, <1>1, InsideAList DEF InList
<1>3. PICK n, c : Holds(h, n, c)
  BY <1>2 DEF ListsInv, ListState
<1>4. /\ LP!Setting(ListHead(h), S) /\ LP!Chain(ListHead(h), S, n, c) /\ Doing(t, h, n, c)
  BY <1>0, <1>2, <1>3, ListsAreSet DEF Holds, RInv
<1>5. \E y : \/ LP!InsertLocal(t, ListHead(h), S, y, n, c)
             \/ LP!LookupLocal(t, ListHead(h), K, n, c)
             \/ LP!DeleteLocal(t, y, n, c)
             \/ LP!LengthLocal(t, ListHead(h), n, c)
  BY <1>0, <1>2, <1>4 DEF Doing
<1>6. PICK y : \/ LP!InsertLocal(t, ListHead(h), S, y, n, c)
               \/ LP!LookupLocal(t, ListHead(h), K, n, c)
               \/ LP!DeleteLocal(t, y, n, c)
               \/ LP!LengthLocal(t, ListHead(h), n, c)
  BY <1>5
<1> QED BY <1>4, <1>6, LP!LocalSafe

-----------------------------------------------------------------------------
(* Unlocking, the end of a loop, and main.                                  *)

(* unlock_general() and the way to the next turn.                          *)
LEMMA UnlockKeepsLists ==
  ASSUME RInv, LInv, KeysInv, ListsInv, LP!Tied', opt_sync # "U",
         NEW t \in Workers, UnlockGeneral(t)
  PROVE  (\A l \in Lists : ListState(l)') /\ UNCHANGED avars
         /\ \A u \in Workers : pc'[u] # "corrupted"
<1>0. PICK i : i = loop[t].i
  OBVIOUS
<1>1. /\ t \in Threads /\ t # Main /\ pc[t] = "ret" /\ Inside(t) /\ Phase(t) = loop[t].phase
      /\ next' = next /\ prev' = prev /\ key' = key
      /\ DOMAIN pc = Threads /\ DOMAIN loop = Threads /\ DOMAIN reg = Threads
      /\ reg' = [reg EXCEPT ![t] = SL!Idle]
  BY ThreadsAssumption DEF UnlockGeneral, At, Threads, Workers, Main, Inside, InCall, Phase,
     RInv, LocksShape, LP!Tied, LP!Registers
<1>2. AtTurn(t) /\ (loop[t].phase = "delete" => reg[t].ret = 0)
  BY <1>1, InsideAList, CallsReturnWell
<1>3. PICK place : /\ loop' = [loop EXCEPT ![t] = place]
                   /\ pc' = [pc EXCEPT ![t] = Label(loop'[t])]
                   /\ \/ loop[t].phase = "insert" /\ place \in AfterInsert(i + 1)
                      \/ loop[t].phase = "length" /\ place = AfterLength(i + 1)
                      \/ loop[t].phase = "delete" /\ place = AfterDelete(i + 1)
  BY <1>0, <1>1, <1>2 DEF UnlockGeneral
<1>4. loop'[t] = place /\ pc'[t] = Label(place) /\ \A u \in Threads \ {t} : Still(u)
  BY <1>1, <1>3 DEF Still
<1>5. pc'[t] \notin InCall /\ pc'[t] # "corrupted"
  BY <1>4, PlacesOfLoops DEF Label
<1>6. InsertsDone(t)' = InsertsDone(t) /\ DeletesDone(t)' = DeletesDone(t)
  <2>1. loop[t].phase \in {"insert", "delete"} => i \in 0..(niteratns - 1) /\ i + 1 \in 0..niteratns
    BY <1>0, <1>2, IterationsAssumption DEF AtTurn
  <2>2. CASE loop[t].phase = "insert" /\ place \in AfterInsert(i + 1)
    <3>1. InsertsDone(t) = i + 1 /\ DeletesDone(t) = 0
      BY <1>0, <1>1, <2>2 DEF InsertsDone, DeletesDone
    <3> QED BY <1>4, <2>1, <2>2, <3>1, TurnCounts
  <2>3. CASE loop[t].phase = "length" /\ place = AfterLength(i + 1)
    <3>1. InsertsDone(t) = niteratns /\ DeletesDone(t) = 0
      BY <2>3 DEF InsertsDone, DeletesDone
    <3>2. 0 \in 0..niteratns
      BY IterationsAssumption
    <3> QED BY <1>4, <2>3, <3>1, <3>2, TurnCounts
  <2>4. CASE loop[t].phase = "delete" /\ place = AfterDelete(i + 1)
    <3>1. InsertsDone(t) = niteratns /\ DeletesDone(t) = i + 1
      BY <1>0, <1>1, <2>4 DEF InsertsDone, DeletesDone
    <3> QED BY <1>4, <2>1, <2>4, <3>1, TurnCounts
  <2> QED BY <1>3, <2>2, <2>3, <2>4
<1>7. {t} \in SUBSET Threads /\ ~Inside(t)'
  BY <1>1, <1>5 DEF Inside
<1> QED BY <1>1, <1>4, <1>5, <1>6, <1>7, OutsideKeepsLists

(* The worker that reads locks[j] of a negative j and survives.            *)
LEMMA OutOfBoundsKeepsLists ==
  ASSUME RInv, LInv, KeysInv, ListsInv, LP!Tied', opt_sync # "U",
         NEW t \in Workers, OutOfBounds(t)
  PROVE  (\A l \in Lists : ListState(l)') /\ UNCHANGED avars
         /\ \A u \in Workers : pc'[u] # "corrupted"
<1>1. /\ t \in Threads /\ pc[t] = "lock" /\ loop[t].phase = "length"
      /\ next' = next /\ prev' = prev /\ key' = key /\ reg' = reg
      /\ DOMAIN pc = Threads /\ DOMAIN loop = Threads
  BY DEF OutOfBounds, At, Threads, RInv, LocksShape
<1>2. "lock" \notin InCall /\ {} \in SUBSET Threads /\ {t} \in SUBSET Threads
  BY <1>1, LabelsOfCalls
<1>3. CASE pc' = pc /\ loop' = loop
  <2>1. \A u \in Threads \ {} : Still(u)
    BY <1>1, <1>3 DEF Still
  <2> QED BY <1>1, <1>2, <2>1, OutsideKeepsLists
<1>4. CASE /\ loop' = [loop EXCEPT ![t] = AfterLength(loop[t].i + 1)]
           /\ pc' = [pc EXCEPT ![t] = Label(loop'[t])]
  <2>1. PICK place : loop'[t] = place /\ pc'[t] = Label(place) /\ place = AfterLength(loop[t].i + 1)
    BY <1>1, <1>4
  <2>2. \A u \in Threads \ {t} : Still(u)
    BY <1>1, <1>4 DEF Still
  <2>3. InsertsDone(t)' = niteratns /\ DeletesDone(t)' = 0
    <3>1. 0 \in 0..niteratns
      BY IterationsAssumption
    <3> QED BY <2>1, <3>1, TurnCounts
  <2>4. InsertsDone(t) = niteratns /\ DeletesDone(t) = 0
    BY <1>1 DEF InsertsDone, DeletesDone
  <2>5. ~Inside(t)' /\ ~Inside(t) /\ pc'[t] # "corrupted"
    BY <1>1, <1>2, <2>1, PlacesOfLoops DEF Label, Inside
  <2> QED BY <1>1, <1>2, <2>2, <2>3, <2>4, <2>5, OutsideKeepsLists
<1> QED BY <1>3, <1>4 DEF OutOfBounds

LEMMA NobodyMoves ==
  ASSUME RInv, LInv, KeysInv, ListsInv, LP!Tied', opt_sync # "U",
         UNCHANGED <<next, prev, key, pc, reg, loop>>
  PROVE  (\A l \in Lists : ListState(l)') /\ UNCHANGED avars
         /\ \A u \in Workers : pc'[u] # "corrupted"
<1>1. {} \in SUBSET Threads /\ \A u \in Threads \ {} : Still(u)
  BY DEF Still
<1> QED BY <1>1, OutsideKeepsLists

LEMMA WorkerKeepsLists ==
  ASSUME RInv, Inv, LInv, KeysInv, ListsInv, LP!Tied', opt_sync # "U",
         NEW t \in Workers, WorkerStep(t)
  PROVE  (\A l \in Lists : ListState(l)') /\ Happens
         /\ \A u \in Workers : pc'[u] # "corrupted"
<1>1. t \in Threads
  BY DEF Threads
<1>2. (\A u \in Threads \ {t} : Still(u)) /\ pc'[t] # "corrupted" =>
        \A u \in Workers : pc'[u] # "corrupted"
  BY DEF ListsInv, Still, Threads
<1>3. CASE LockGeneral(t)
  BY <1>2, <1>3, LockKeepsLists DEF Happens
<1>4. CASE OutOfBounds(t)
  BY <1>4, OutOfBoundsKeepsLists DEF Happens
<1>5. CASE Call(t)
  BY <1>1, <1>2, <1>5, CallKeepsLists
<1>6. CASE DeleteFound(t)
  BY <1>2, <1>6, DeleteKeepsLists DEF Happens
<1>7. CASE UnlockGeneral(t)
  BY <1>7, UnlockKeepsLists DEF Happens
<1>8. CASE ReportCorruption(t) \/ sigsegv_handler(t)
  BY <1>8, NobodyMoves DEF Happens, ReportCorruption, sigsegv_handler, listVars
<1> QED BY <1>3, <1>4, <1>5, <1>6, <1>7, <1>8 DEF WorkerStep

(* main's own steps.                                                       *)
LEMMA CreateKeepsLists ==
  ASSUME RInv, LInv, KeysInv, ListsInv, LP!Tied', opt_sync # "U", created \in 0..nthreads,
         \A t \in Workers : t > created => pc[t] = "unborn",
         \A t \in Workers : pc[t] = "unborn" => loop[t].phase = "insert" /\ loop[t].i = 0,
         CreateThread
  PROVE  (\A l \in Lists : ListState(l)') /\ UNCHANGED avars
         /\ \A u \in Workers : pc'[u] # "corrupted"
<1>1. PICK t : t = created + 1
  OBVIOUS
<1>2. /\ t \in Workers /\ t \in Threads /\ pc[t] = "unborn"
      /\ loop[t].phase = "insert" /\ loop[t].i = 0
  BY <1>1, ThreadsAssumption DEF CreateThread, Workers, Threads
<1>3. PICK place \in AfterInsert(0) : /\ loop' = [loop EXCEPT ![t] = place]
                                      /\ pc' = [pc EXCEPT ![t] = Label(place)]
  BY <1>1 DEF CreateThread
<1>4. next' = next /\ prev' = prev /\ key' = key /\ reg' = reg
  BY DEF CreateThread
<1>5. loop'[t] = place /\ pc'[t] = Label(place) /\ \A u \in Threads \ {t} : Still(u)
  BY <1>2, <1>3, <1>4 DEF Still, RInv, LocksShape
<1>6. 0 \in 0..niteratns /\ InsertsDone(t)' = 0 /\ DeletesDone(t)' = 0
  BY <1>5, TurnCounts, IterationsAssumption
<1>7. InsertsDone(t) = 0 /\ DeletesDone(t) = 0
  BY <1>2 DEF InsertsDone, DeletesDone
<1>8. ~Inside(t)' /\ ~Inside(t) /\ pc'[t] # "corrupted" /\ {t} \in SUBSET Threads
  BY <1>2, <1>5, PlacesOfLoops DEF Label, Inside
<1> QED BY <1>4, <1>5, <1>6, <1>7, <1>8, OutsideKeepsLists

LEMMA MainLengthKeepsLists ==
  ASSUME RInv, Inv, LInv, KeysInv, ListsInv, LP!Tied', opt_sync # "U", MainLength
  PROVE  (\A l \in Lists : ListState(l)') /\ UNCHANGED avars
         /\ \A u \in Workers : pc'[u] # "corrupted"
<1>0. PICK h, x, K : h = loop[Main].i /\ x = Mine(Main, loop[Main].i) /\ K = key[x]
  OBVIOUS
<1>1. /\ Main \in Threads /\ pc[Main] = "main" /\ joined = nthreads
      /\ next' = next /\ prev' = prev /\ key' = key /\ loop' = loop
      /\ LP!CallLength(Main, ListHead(h)) /\ Main \notin Workers
  BY <1>0, SameCalls, ThreadsAssumption DEF MainLength, At, Threads, Workers, Main
<1>2. h \in Lists
  <2>1. loop[Main].i \in 0..sublist_num /\ loop[Main].i < sublist_num
    BY DEF MainLength, RInv, MainAtLists
  <2>2. sublist_num \in Nat
    BY IterationsAssumption, ListsAssumption DEF sublist_num
  <2> QED BY <1>0, <2>1, <2>2 DEF Lists
<1>3. pc'[Main] = "len_head1" /\ \A u \in Threads \ {Main} : Still(u)
  BY <1>1, LP!Calls DEF RInv, LP!Tied, LP!OthersKeep, Still
<1>4. pc'[Main] \in InCall /\ ~Inside(Main)
  BY <1>1, <1>3, LabelsOfCalls DEF Inside, InCall, SL!Labels
<1>5. \A w \in Workers : ~Inside(w)
  <2>1. "returned" \notin InCall
    BY LabelsOfCalls
  <2> QED BY <1>1, <2>1 DEF Inside, Inv, Joined, Workers
<1>6. LP!Tied /\ KeysInv' /\ \A l \in Lists : ListState(l)
  BY <1>1, KeysKept DEF RInv, ListsInv
<1>7. Place(Main) = h /\ Place(Main)' = h /\ Phase(Main) = "length"
  BY <1>0, <1>1 DEF Place, Phase
<1>8. ListState(h)' /\ Members(h)' = Members(h)
  <2>1. \A u \in Threads : ~InList(u, h)
    BY <1>4, <1>5 DEF InList, Threads
  <2>2. loop'[Main] = loop[Main] /\ ListState(h)
    BY <1>1, <1>2, <1>6
  <2> QED BY <1>0, <1>1, <1>2, <1>3, <1>4, <1>6, <1>7, <2>1, <2>2, EnterList
<1>9. ASSUME NEW l \in Lists, l # h
      PROVE  ListState(l)' /\ Members(l)' = Members(l)
  <2>1. ~InList(Main, l)' /\ ~InList(Main, l)
    BY <1>7, <1>9 DEF InList
  <2>2. /\ {Main} \in SUBSET Threads
        /\ \A u \in Threads \ {Main} : pc'[u] = pc[u] /\ reg'[u] = reg[u] /\ loop'[u] = loop[u]
    BY <1>1, <1>3 DEF Still
  <2> QED BY <1>1, <1>6, <2>1, <2>2, ListsElsewhere
<1>10. \A u \in Workers : InsertsDone(u)' = InsertsDone(u) /\ DeletesDone(u)' = DeletesDone(u)
  BY <1>1, <1>3, DoneKept DEF Threads
<1>11. UNCHANGED avars
  BY <1>1, <1>8, <1>9, <1>10, NothingHappens
<1>12. \A u \in Workers : pc'[u] # "corrupted"
  BY <1>1, <1>3 DEF ListsInv, Still, Threads
<1> QED BY <1>8, <1>9, <1>11, <1>12

LEMMA MainKeepsLists ==
  ASSUME RInv, Inv, LInv, KeysInv, ListsInv, LP!Tied', opt_sync # "U",
         \A t \in Workers : t > created => pc[t] = "unborn",
         \A t \in Workers : pc[t] = "unborn" => loop[t].phase = "insert" /\ loop[t].i = 0,
         MainStep \/ HandleError
  PROVE  (\A l \in Lists : ListState(l)') /\ Happens
         /\ \A u \in Workers : pc'[u] # "corrupted"
<1>0. /\ Main \in Threads /\ Main \notin Workers /\ created \in 0..nthreads
      /\ DOMAIN pc = Threads /\ DOMAIN loop = Threads /\ DOMAIN reg = Threads
  BY ThreadsAssumption DEF Main, Threads, Workers, Inv, Shape, RInv, LP!Tied, LP!Registers,
     LocksShape
<1>1. CASE CreateThread
  BY <1>0, <1>1, CreateKeepsLists DEF Happens
<1>2. CASE JoinThread \/ Exit
  BY <1>2, NobodyMoves DEF JoinThread, Exit, listVars, Happens
<1>3. CASE MainLength
  BY <1>3, MainLengthKeepsLists DEF Happens
<1>4. CASE Call(Main)
  <2>1. (\A l \in Lists : ListState(l)') /\ Happens /\ \A u \in Threads \ {Main} : Still(u)
    BY <1>0, <1>4, CallKeepsLists
  <2> QED BY <1>0, <2>1 DEF ListsInv, Still, Threads
<1>5. CASE MainLengthReturns \/ Report \/ cleanup \/ HandleError
  <2>1. next' = next /\ prev' = prev /\ key' = key
    BY <1>5 DEF MainLengthReturns, Report, cleanup, HandleError
  <2>2. \A u \in Threads \ {Main} : Still(u)
    BY <1>0, <1>5 DEF MainLengthReturns, Report, cleanup, HandleError, Still
  <2>3. pc'[Main] \in {"main", "cleanup", "exit"} /\ pc[Main] \in {"main", "cleanup", "ret"}
    BY <1>0, <1>5 DEF MainLengthReturns, Report, cleanup, HandleError, At
  <2>4. {Main} \in SUBSET Threads /\ ~Inside(Main)' /\ (Inside(Main) => pc[Main] = "ret")
    BY <1>0, <2>3, LabelsOfCalls DEF Inside
  <2> QED BY <1>0, <2>1, <2>2, <2>3, <2>4, OutsideKeepsLists DEF Happens
<1> QED BY <1>1, <1>2, <1>3, <1>4, <1>5 DEF MainStep

-----------------------------------------------------------------------------
(* Which places a thread has behind it.                                     *)

(* A worker that has not started stands before its first insert, and one   *)
(* that has returned is past its last delete.                              *)
Born ==
  /\ \A t \in Workers : t > created => pc[t] = "unborn"
  /\ \A t \in Workers : pc[t] = "unborn" => loop[t].phase = "insert" /\ loop[t].i = 0
  /\ \A t \in Workers : pc[t] = "returned" => loop[t].phase = "returned"

(* The second loop of a worker starts at a value j may hold and counts up. *)
CountsUp(t) ==
  loop'[t].phase = "length" =>
    \/ loop'[t].i \in GarbageJ
    \/ loop[t].phase = "length" /\ loop'[t].i \in {loop[t].i, loop[t].i + 1}

LEMMA PlacesAfter ==
  ASSUME NEW n, NEW place
  PROVE  /\ place \in AfterInsert(n) /\ place.phase = "length" => place.i \in GarbageJ
         /\ \A j : place = AfterLength(j) /\ place.phase = "length" => place.i = j
         /\ place = AfterDelete(n) => place.phase # "length"
         /\ Label(place) \in {"lock", "returned"}
         /\ Label(place) = "returned" => place.phase = "returned"
BY DEF AfterInsert, AfterLength, AfterDelete, Label

LEMMA WorkerMoves ==
  ASSUME RInv, NEW t \in Workers, WorkerStep(t)
  PROVE  /\ created' = created /\ status' = status
         /\ \A u \in Threads \ {t} : pc'[u] = pc[u] /\ loop'[u] = loop[u]
         /\ CountsUp(t)
         /\ \/ pc' = pc /\ loop' = loop
            \/ /\ pc[t] \notin {"unborn", "returned"} /\ pc'[t] # "unborn"
               /\ pc'[t] = "returned" => loop'[t].phase = "returned"
<1>1. /\ t \in Threads /\ DOMAIN pc = Threads /\ DOMAIN loop = Threads
      /\ {"phase", "i"} \subseteq DOMAIN loop[t]
  BY DEF Threads, RInv, LocksShape
<1>2. created' = created /\ status' = status
  BY DEF WorkerStep, LockGeneral, OutOfBounds, Call, DeleteFound, UnlockGeneral,
         ReportCorruption, sigsegv_handler, mainVars
<1>3. CASE LockGeneral(t)
  <2>1. \E label \in {"ins_first", "len_head1", "look_first"} : pc' = [pc EXCEPT ![t] = label]
    BY <1>3 DEF LockGeneral, SL!CallInsert, SL!CallLength, SL!CallLookup
  <2>2. loop' = loop /\ pc[t] = "lock"
    BY <1>3 DEF LockGeneral, At
  <2> QED BY <1>1, <1>2, <2>1, <2>2 DEF CountsUp
<1>4. CASE OutOfBounds(t)
  <2>1. pc[t] = "lock" /\ loop[t].phase = "length"
    BY <1>4 DEF OutOfBounds, At
  <2>2. \/ pc' = pc /\ loop' = loop
        \/ \E place : /\ place = AfterLength(loop[t].i + 1)
                      /\ loop' = [loop EXCEPT ![t] = place]
                      /\ pc' = [pc EXCEPT ![t] = Label(loop'[t])]
    BY <1>4 DEF OutOfBounds
  <2>3. CASE pc' = pc /\ loop' = loop
    BY <1>1, <1>2, <2>3 DEF CountsUp
  <2>4. CASE \E place : /\ place = AfterLength(loop[t].i + 1)
                        /\ loop' = [loop EXCEPT ![t] = place]
                        /\ pc' = [pc EXCEPT ![t] = Label(loop'[t])]
    <3>1. PICK place : /\ place = AfterLength(loop[t].i + 1)
                       /\ loop' = [loop EXCEPT ![t] = place]
                       /\ pc' = [pc EXCEPT ![t] = Label(loop'[t])]
      BY <2>4
    <3>2. pc'[t] = Label(place) /\ loop'[t] = place
      BY <1>1, <3>1
    <3>3. CountsUp(t)
      BY <2>1, <3>1, <3>2, PlacesAfter DEF CountsUp
    <3>4. pc'[t] \in {"lock", "returned"} /\ (pc'[t] = "returned" => loop'[t].phase = "returned")
      BY <3>2, PlacesAfter
    <3> QED BY <1>1, <1>2, <2>1, <3>1, <3>3, <3>4
  <2> QED BY <2>2, <2>3, <2>4
<1>5. CASE Call(t)
  <2>1. PICK label \in InCall : pc' = [pc EXCEPT ![t] = label]
    BY <1>5, ListStepMoves DEF Call, Moves
  <2>2. loop' = loop /\ pc[t] \in InCall
    BY <1>5 DEF Call, SL!ListStep, InCall
  <2>3. "unborn" \notin InCall /\ "returned" \notin InCall
    BY LabelsOfCalls
  <2> QED BY <1>1, <1>2, <2>1, <2>2, <2>3 DEF CountsUp
<1>6. CASE DeleteFound(t)
  <2>1. pc' = [pc EXCEPT ![t] = "del_prev"] /\ pc[t] = "ret"
    BY <1>6 DEF DeleteFound, At, SL!CallDelete
  <2>2. loop' = [loop EXCEPT ![t].phase = "delete"]
    BY <1>6 DEF DeleteFound
  <2> QED BY <1>1, <1>2, <2>1, <2>2 DEF CountsUp
<1>7. CASE UnlockGeneral(t)
  <2>0. PICK i : i = loop[t].i
    OBVIOUS
  <2>1. pc[t] = "ret"
    BY <1>7 DEF UnlockGeneral, At
  <2>2. \/ pc' = [pc EXCEPT ![t] = "corrupted"] /\ loop' = loop
        \/ \E place : /\ loop' = [loop EXCEPT ![t] = place]
                      /\ pc' = [pc EXCEPT ![t] = Label(loop'[t])]
                      /\ \/ place \in AfterInsert(i + 1)
                         \/ loop[t].phase = "length" /\ place = AfterLength(i + 1)
                         \/ place = AfterDelete(i + 1)
    BY <1>7, <2>0 DEF UnlockGeneral
  <2>3. CASE pc' = [pc EXCEPT ![t] = "corrupted"] /\ loop' = loop
    BY <1>1, <1>2, <2>1, <2>3 DEF CountsUp
  <2>4. ASSUME NEW place, loop' = [loop EXCEPT ![t] = place],
               pc' = [pc EXCEPT ![t] = Label(loop'[t])],
               \/ place \in AfterInsert(i + 1)
               \/ loop[t].phase = "length" /\ place = AfterLength(i + 1)
               \/ place = AfterDelete(i + 1)
        PROVE  /\ \A u \in Threads \ {t} : pc'[u] = pc[u] /\ loop'[u] = loop[u]
               /\ CountsUp(t) /\ pc'[t] # "unborn"
               /\ pc'[t] = "returned" => loop'[t].phase = "returned"
    <3>1. pc'[t] = Label(place) /\ loop'[t] = place
      BY <1>1, <2>4
    <3>2. CountsUp(t)
      BY <2>0, <2>4, <3>1, PlacesAfter DEF CountsUp
    <3>3. pc'[t] \in {"lock", "returned"} /\ (pc'[t] = "returned" => loop'[t].phase = "returned")
      BY <3>1, PlacesAfter
    <3> QED BY <1>1, <2>4, <3>2, <3>3
  <2> QED BY <1>2, <2>1, <2>2, <2>3, <2>4
<1>8. CASE ReportCorruption(t) \/ sigsegv_handler(t)
  BY <1>2, <1>8 DEF ReportCorruption, sigsegv_handler, CountsUp, listVars
<1> QED BY <1>3, <1>4, <1>5, <1>6, <1>7, <1>8 DEF WorkerStep

(* main moves no worker but the one it creates.                            *)
LEMMA MainMoves ==
  ASSUME RInv, Inv, MainStep \/ HandleError
  PROVE  \/ /\ created' = created
            /\ \A u \in Workers : pc'[u] = pc[u] /\ loop'[u] = loop[u]
         \/ \E t \in Workers, place \in AfterInsert(0) :
              /\ t = created + 1 /\ created' = created + 1
              /\ loop'[t] = place /\ pc'[t] = Label(place)
              /\ \A u \in Workers \ {t} : pc'[u] = pc[u] /\ loop'[u] = loop[u]
<1>1. /\ Main \in Threads /\ Main \notin Workers /\ created \in 0..nthreads
      /\ DOMAIN pc = Threads /\ DOMAIN loop = Threads /\ Workers \subseteq Threads
  BY ThreadsAssumption DEF Main, Threads, Workers, Inv, Shape, RInv, LocksShape
<1>2. CASE CreateThread
  <2>1. created + 1 \in Workers
    BY <1>1, <1>2, ThreadsAssumption DEF CreateThread, Workers
  <2>2. PICK place \in AfterInsert(0) :
          /\ loop' = [loop EXCEPT ![created + 1] = place]
          /\ pc' = [pc EXCEPT ![created + 1] = Label(place)]
    BY <1>2 DEF CreateThread
  <2> QED BY <1>1, <1>2, <2>1, <2>2 DEF CreateThread
<1>3. CASE JoinThread \/ Exit
  BY <1>3 DEF JoinThread, Exit, listVars, mainVars
<1>4. CASE MainLength
  <2>1. pc' = [pc EXCEPT ![Main] = "len_head1"] /\ loop' = loop /\ created' = created
    BY <1>4 DEF MainLength, SL!CallLength, mainVars
  <2> QED BY <1>1, <2>1
<1>5. CASE Call(Main)
  <2>1. PICK label \in InCall : pc' = [pc EXCEPT ![Main] = label]
    BY <1>5, ListStepMoves DEF Call, Moves
  <2>2. loop' = loop /\ created' = created
    BY <1>5 DEF Call, mainVars
  <2> QED BY <1>1, <2>1, <2>2
<1>6. CASE MainLengthReturns \/ Report \/ cleanup \/ HandleError
  <2>1. created' = created
    BY <1>6 DEF MainLengthReturns, Report, cleanup, HandleError, mainVars
  <2> QED BY <1>1, <1>6, <2>1 DEF MainLengthReturns, Report, cleanup, HandleError
<1> QED BY <1>2, <1>3, <1>4, <1>5, <1>6 DEF MainStep

LEMMA StepBorn ==
  ASSUME RInv, Inv, Born, [Next]_vars
  PROVE  Born'
<1>0. created \in 0..nthreads /\ \A u \in Workers : u \in Nat /\ u \in Threads
  BY ThreadsAssumption DEF Inv, Shape, Workers, Threads
<1>1. ASSUME NEW t \in Workers, WorkerStep(t) PROVE Born'
  BY <1>0, <1>1, WorkerMoves DEF Born
<1>2. CASE MainStep \/ HandleError
  <2>1. CASE created' = created /\ \A u \in Workers : pc'[u] = pc[u] /\ loop'[u] = loop[u]
    BY <2>1 DEF Born
  <2>2. ASSUME NEW t \in Workers, NEW place \in AfterInsert(0),
               t = created + 1, created' = created + 1,
               loop'[t] = place, pc'[t] = Label(place),
               \A u \in Workers \ {t} : pc'[u] = pc[u] /\ loop'[u] = loop[u]
        PROVE  Born'
    <3>1. pc'[t] \in {"lock", "returned"} /\ (pc'[t] = "returned" => loop'[t].phase = "returned")
      BY <2>2, PlacesAfter
    <3> QED BY <1>0, <2>2, <3>1 DEF Born
  <2> QED BY <1>2, <2>1, <2>2, MainMoves
<1>3. ASSUME NEW t \in Workers, sigsegv_handler(t) PROVE Born'
  BY <1>3 DEF sigsegv_handler, listVars, mainVars, Born
<1>4. CASE UNCHANGED vars
  BY <1>4 DEF vars, listVars, mainVars, Born
<1> QED BY <1>1, <1>2, <1>3, <1>4 DEF Next, Terminated

-----------------------------------------------------------------------------
(* The three parts together.                                                *)

(* All that is known of a synchronised process.                            *)
SyncInv == KeysInv /\ Born /\ (opt_sync # "U" => ListsInv)

LEMMA InitLists ==
  ASSUME Init
  PROVE  KeysInv /\ Born /\ (\A l \in Lists : ListState(l)) /\ LP!Init
         /\ \A t \in Workers : pc[t] # "corrupted"
<1>1. KeysInv /\ RInv
  BY InitKeys, InitRInv
<1>2. \A t \in Threads : /\ pc[t] \in {"main", "unborn"} /\ loop[t].phase = "insert" /\ loop[t].i = 0
                         /\ ~Inside(t)
  <2>1. "main" \notin InCall /\ "unborn" \notin InCall
    BY LabelsOfCalls
  <2> QED BY <2>1 DEF Init, Inside
<1>3. Born
  <2>1. \A t \in Workers : t \in Threads /\ t # Main
    BY ThreadsAssumption DEF Threads, Workers, Main
  <2> QED BY <1>2, <2>1 DEF Init, Born
<1>4. ASSUME NEW l \in Lists
      PROVE  ListState(l) /\ Members(l) = {}
  <2>1. ListHead(l) \in Heads /\ ListHead(l) \in LP!Nodes
    BY DEF Heads, LP!Nodes
  <2>2. next[ListHead(l)] = ListHead(l) /\ prev[ListHead(l)] = ListHead(l)
    BY <2>1 DEF Init, LP!Nodes
  <2>3. PICK c : LP!Chain(ListHead(l), Own(l), 0, c) /\ LP!Whole(0, c) /\ LP!On(0, c) = {}
    BY <2>1, <2>2, LP!EmptyList
  <2>4. Holds(l, 0, c)
    BY <1>2, <2>3 DEF Holds, InList
  <2>5. Members(l) = {}
    BY <1>1, <2>3, ChainMembers DEF RInv
  <2> QED BY <2>4, <2>5 DEF ListState
<1>5. LP!Init
  <2>1. aMembers = {}
    BY <1>4 DEF aMembers
  <2>2. ASSUME NEW t \in Workers
        PROVE  InsertsDone(t) = 0 /\ DeletesDone(t) = 0
    BY <1>2 DEF InsertsDone, DeletesDone, Threads
  <2>3. aKey \in [LP!Elements -> AllKeys]
    <3>1. LP!Elements = Owned
      BY DEF LP!Elements, LP!Workers, LP!Turns, Owned, Workers
    <3>2. \A x \in Owned : Mine(x[1], x[2]) \in Elems
      BY MineIsElement DEF Owned
    <3> QED BY <1>1, <3>1, <3>2 DEF aKey, KeysInv
  <2>4. aInserted = [t \in LP!Workers |-> 0] /\ aDeleted = [t \in LP!Workers |-> 0]
    BY <2>2 DEF aInserted, aDeleted, LP!Workers, Workers
  <2> QED BY <2>1, <2>3, <2>4 DEF LP!Init
<1>6. \A t \in Workers : pc[t] # "corrupted"
  BY <1>2 DEF Threads
<1> QED BY <1>1, <1>3, <1>4, <1>5, <1>6

LEMMA InitAtomic == Init => LP!Init
BY InitLists

LEMMA InitSyncInv == Init => SyncInv
<1>1. Init => LP!IInv
  BY InitAtomic, LP!InitIInv, ThreadsAssumption, IterationsAssumption
<1> QED BY <1>1, InitLists DEF SyncInv, ListsInv

LEMMA StepSyncInv ==
  ASSUME RInv, RInv', Inv, LInv, SyncInv, [Next]_vars
  PROVE  SyncInv' /\ (opt_sync # "U" => [LP!Next]_avars)
<1>1. key' = key /\ opt_sync' = opt_sync /\ LP!Tied'
  BY KeyIsFixed DEF RInv
<1>2. KeysInv' /\ Born'
  BY <1>1, KeysKept, StepBorn DEF SyncInv
<1> SUFFICES ASSUME opt_sync # "U"
             PROVE  ListsInv' /\ [LP!Next]_avars
  BY <1>1, <1>2 DEF SyncInv
<1>3. KeysInv /\ ListsInv
  BY DEF SyncInv
<1>4. /\ \A t \in Workers : t > created => pc[t] = "unborn"
      /\ \A t \in Workers : pc[t] = "unborn" => loop[t].phase = "insert" /\ loop[t].i = 0
  BY DEF SyncInv, Born
<1>5. (\A l \in Lists : ListState(l)') /\ Happens /\ \A u \in Workers : pc'[u] # "corrupted"
  <2>1. ASSUME NEW t \in Workers, WorkerStep(t)
        PROVE  (\A l \in Lists : ListState(l)') /\ Happens /\ \A u \in Workers : pc'[u] # "corrupted"
    BY <1>1, <1>3, <2>1, WorkerKeepsLists
  <2>2. CASE MainStep \/ HandleError
    BY <1>1, <1>3, <1>4, <2>2, MainKeepsLists
  <2>3. CASE (\E t \in Workers : sigsegv_handler(t)) \/ UNCHANGED vars
    <3>1. UNCHANGED <<next, prev, key, pc, reg, loop>>
      BY <2>3 DEF sigsegv_handler, vars, listVars
    <3> QED BY <1>1, <1>3, <3>1, NobodyMoves DEF Happens
  <2> QED BY <2>1, <2>2, <2>3 DEF Next, Terminated
<1>6. LP!IInv' /\ [LP!Next]_avars
  BY <1>3, <1>5, AtomicKept DEF ListsInv, Happens
<1>7. \A l \in Lists : l \in Lists' => ListState(l)'
  BY <1>5
<1>8. Lists' = Lists /\ Workers' = Workers
  BY DEF Lists, sublist_num, Workers
<1> QED BY <1>5, <1>6, <1>8 DEF ListsInv

LEMMA SyncInvariance == Spec => [](RInv /\ Inv /\ LInv /\ SyncInv)
<1>1. RInv /\ Inv /\ LInv /\ SyncInv /\ [Next]_vars => (RInv /\ Inv /\ LInv /\ SyncInv)'
  <2> SUFFICES ASSUME RInv, Inv, LInv, SyncInv, [Next]_vars
               PROVE  RInv' /\ Inv' /\ LInv' /\ SyncInv'
    OBVIOUS
  <2>1. RInv' /\ Inv' /\ LInv'
    BY StepRInv, StepInv, StepLInv
  <2> QED BY <2>1, StepSyncInv
<1>2. Init => RInv /\ Inv /\ LInv /\ SyncInv
  BY InitRInv, InitInv, InitLInv, InitSyncInv
<1> QED BY <1>1, <1>2, PTL DEF Spec

(* A synchronised list nobody holds the lock of is whole: only a reader can *)
(* be inside it.                                                           *)
LEMMA FreeListsIntact ==
  ASSUME RInv, Inv, LInv, SyncInv
  PROVE  ListsIntact
<1> SUFFICES ASSUME opt_sync # "U", NEW l \in Lists, locks[l] = 0
             PROVE  /\ SL!Circular(ListHead(l), nelements)
                    /\ \A e \in Members(l) : ListOf(e) = l
  BY DEF ListsIntact
<1>1. LP!Tied /\ KeysInv /\ ListState(l)
  BY DEF RInv, SyncInv, ListsInv
<1>2. PICK n, c : Holds(l, n, c)
  BY <1>1 DEF ListState
<1>3. LP!Whole(n, c)
  <2>1. CASE \A t \in Threads : ~InList(t, l)
    BY <1>2, <2>1 DEF Holds
  <2>2. CASE \E t \in Threads : InList(t, l)
    <3>1. PICK t \in Threads : InList(t, l)
      BY <2>2
    <3>2. t = Main
      <4> SUFFICES ASSUME t # Main PROVE FALSE
        OBVIOUS
      <4>1. t \in Workers /\ list_num(t) = l /\ Inside(t)
        BY <3>1 DEF Threads, InList, Place
      <4> QED BY <4>1 DEF LInv, HoldsItsLock
    <3>3. LP!LengthLocal(t, ListHead(l), n, c)
      BY <1>2, <3>1, <3>2 DEF Holds, Doing, Phase
    <3> QED BY <3>3 DEF LP!LengthLocal
  <2> QED BY <2>1, <2>2
<1> QED BY <1>1, <1>2, <1>3, ChainMembers DEF Holds, Own

(* With locks, the lists nobody holds are circles through both kinds of    *)
(* link and hold only elements whose keys select them.                     *)
THEOREM ListsStayIntact == Spec => []ListsIntact
<1>1. RInv /\ Inv /\ LInv /\ SyncInv => ListsIntact
  BY FreeListsIntact
<1> QED BY <1>1, SyncInvariance, PTL

-----------------------------------------------------------------------------
(* Refinement.                                                             *)

LEMMA SameSpecification ==
  /\ LP!Init => Atomic!Init
  /\ [LP!Next]_avars => [Atomic!Next]_(Atomic!vars)
<1>1. LP!Init => Atomic!Init
  BY DEF LP!Init, Atomic!Init, LP!Elements, Atomic!Elements, LP!Turns, Atomic!Turns,
         LP!Workers, Atomic!Workers, aKey, aMembers, aInserted, aDeleted, AllKeys
<1>2. avars' = avars => Atomic!vars' = Atomic!vars
  BY DEF avars, Atomic!vars, aKey, aMembers, aInserted, aDeleted
<1>3. LP!Next => Atomic!Next
  BY DEF LP!Next, Atomic!Next, LP!Insert, Atomic!Insert, LP!Delete, Atomic!Delete,
         LP!Workers, Atomic!Workers, aKey, aMembers, aInserted, aDeleted
<1> QED BY <1>1, <1>2, <1>3

(* A process started with a mutex or a spin lock implements the             *)
(* specification in which every insert, and every lookup with the delete of *)
(* what it found, is one atomic step.                                       *)
THEOREM Refinement == Spec /\ opt_sync # "U" => OperationsAreAtomic
<1>0. Init => LP!Init
  BY InitAtomic
<1>1. RInv /\ Inv /\ LInv /\ SyncInv /\ opt_sync # "U" /\ [Next]_vars =>
        (opt_sync # "U")' /\ [Atomic!Next]_(Atomic!vars)
  <2> SUFFICES ASSUME RInv, Inv, LInv, SyncInv, opt_sync # "U", [Next]_vars
               PROVE  opt_sync' # "U" /\ [Atomic!Next]_(Atomic!vars)
    OBVIOUS
  <2>1. RInv'
    BY StepRInv
  <2>2. [LP!Next]_avars /\ opt_sync' = opt_sync
    BY <2>1, StepSyncInv, KeyIsFixed
  <2> QED BY <2>2, SameSpecification
<1> QED BY <1>0, <1>1, SameSpecification, SyncInvariance, PTL DEF Spec, OperationsAreAtomic, Atomic!Spec

(* The two instances count alike.                                           *)
LEMMA SameCardinality == \A S : LP!Cardinality(S) = Atomic!Cardinality(S)
BY DEF LP!Cardinality, Atomic!Cardinality

(* With locks, what is on the lists under a key is what was inserted and not *)
(* yet deleted, in every state of every interleaving.                       *)
THEOREM ConservedPerKey == Spec => []ElementsConserved
<1>1. ASSUME LP!IInv
      PROVE  Atomic!Balanced
  <2>1. LP!Balanced
    BY <1>1 DEF LP!IInv
  <2> QED BY <2>1, SameCardinality
                  DEF LP!Balanced, Atomic!Balanced, LP!Inserts, Atomic!Inserts, LP!Deletes,
                      Atomic!Deletes, LP!Elements, Atomic!Elements, LP!Turns, Atomic!Turns,
                      LP!Workers, Atomic!Workers, aKey, aMembers, aInserted, aDeleted, AllKeys
<1>2. RInv /\ Inv /\ LInv /\ SyncInv => ElementsConserved
  BY <1>1 DEF SyncInv, ListsInv, ElementsConserved
<1> QED BY <1>2, SyncInvariance, PTL

(* With locks, a lookup a worker has still to make would find an element,   *)
(* whoever deleted the one it inserted.                                     *)
THEOREM EveryLookupSucceeds == Spec => []LookupsSucceed
<1>1. ASSUME LP!IInv
      PROVE  Atomic!AlwaysFound
  <2>1. LP!AlwaysFound
    BY <1>1, LP!Finds, ThreadsAssumption, IterationsAssumption
  <2> QED BY <2>1 DEF LP!AlwaysFound, Atomic!AlwaysFound, LP!Workers, Atomic!Workers, aKey,
                      aMembers, aInserted, aDeleted
<1>2. RInv /\ Inv /\ LInv /\ SyncInv => LookupsSucceed
  BY <1>1 DEF SyncInv, ListsInv, LookupsSucceed
<1> QED BY <1>2, SyncInvariance, PTL

-----------------------------------------------------------------------------
(* Alarms: exit codes 1 and 2 when no list was ever corrupted.              *)

(* How a synchronised process whose j is not negative can end.             *)
Quiet ==
  /\ status \in {0, 1}
  /\ exit \in {1, 2} => status = 1
  /\ \A t \in Workers : loop[t].phase = "length" => loop[t].i \in Nat

(* main finds every list empty.                                            *)
LEMMA MainFindsZero ==
  ASSUME RInv, Inv, LInv, SyncInv, opt_sync # "U", pc[Main] = "ret"
  PROVE  reg[Main].ret = 0
<1>1. Main \in Threads /\ Inside(Main) /\ Phase(Main) = "length"
  BY DEF Threads, Inside, InCall, Phase
<1>2. joined = nthreads
  BY <1>1 DEF Inv, MainOrder, Inside
<1>3. \A t \in Workers : DeletesDone(t) = niteratns
  <2> TAKE t \in Workers
  <2>1. pc[t] = "returned"
    BY <1>2 DEF Inv, Joined, Workers
  <2>2. loop[t].phase = "returned"
    BY <2>1 DEF SyncInv, Born
  <2> QED BY <2>2 DEF DeletesDone
<1>4. aMembers = {}
  <2>1. \A t \in LP!Workers : aDeleted[t] = niteratns
    BY <1>3 DEF aDeleted, LP!Workers, Workers
  <2>2. LP!EmptyAtEnd
    BY LP!Empties, ThreadsAssumption, IterationsAssumption DEF SyncInv, ListsInv
  <2> QED BY <2>1, <2>2 DEF LP!EmptyAtEnd
<1>5. Place(Main) \in Lists
  BY <1>1, InsideAList
<1>6. Members(Place(Main)) = {}
  BY <1>4, <1>5 DEF aMembers
<1> QED BY <1>1, <1>6, CallsReturnWell DEF SyncInv

LEMMA WorkerKeepsQuiet ==
  ASSUME RInv, Inv, LInv, SyncInv, opt_sync # "U", GarbageJ \subseteq Nat, Quiet,
         NEW t \in Workers, WorkerStep(t)
  PROVE  Quiet'
<1>1. /\ status' = status /\ t \in Threads /\ t # Main
      /\ \A u \in Workers \ {t} : loop'[u] = loop[u]
      /\ CountsUp(t)
  BY WorkerMoves, ThreadsAssumption DEF Threads, Workers, Main
<1>2. \A u \in Workers : loop'[u].phase = "length" => loop'[u].i \in Nat
  <2> TAKE u \in Workers
  <2>1. CASE u # t
    BY <1>1, <2>1 DEF Quiet
  <2>2. CASE u = t
    <3> SUFFICES ASSUME loop'[t].phase = "length" PROVE loop'[t].i \in Nat
      BY <2>2
    <3>1. loop[t].phase = "length" => loop[t].i \in Nat /\ loop[t].i + 1 \in Nat
      BY DEF Quiet
    <3> QED BY <1>1, <3>1 DEF CountsUp
  <2> QED BY <2>1, <2>2
<1>3. KeysInv /\ ListsInv
  BY DEF SyncInv
<1>4. CASE LockGeneral(t) \/ Call(t) \/ DeleteFound(t) \/ UnlockGeneral(t)
  <2>1. exit' = exit
    BY <1>4 DEF LockGeneral, Call, DeleteFound, UnlockGeneral
  <2> QED BY <1>1, <1>2, <2>1 DEF Quiet
<1>5. ~OutOfBounds(t)
  <2> SUFFICES ASSUME OutOfBounds(t) PROVE FALSE
    OBVIOUS
  <2>1. loop[t].i \in Nat /\ loop[t].i < 0
    BY DEF OutOfBounds, Quiet
  <2> QED BY <2>1
<1>6. ~ReportCorruption(t)
  <2>1. pc[t] # "corrupted"
    BY <1>3 DEF ListsInv
  <2>2. pc[t] = "ret" /\ loop[t].phase = "length" => reg[t].ret \in Nat
    BY <1>1, <1>3, CallsReturnWell DEF Phase
  <2>3. -1 \notin Nat
    OBVIOUS
  <2> QED BY <2>1, <2>2, <2>3 DEF ReportCorruption, At
<1>7. ~SL!Faults(t)
  BY <1>1, <1>3, CallsAreSafe
<1> QED BY <1>4, <1>5, <1>6, <1>7 DEF WorkerStep

LEMMA MainKeepsQuiet ==
  ASSUME RInv, Inv, LInv, SyncInv, opt_sync # "U", GarbageJ \subseteq Nat, Quiet,
         MainStep \/ HandleError
  PROVE  Quiet'
<1>1. \A u \in Workers : loop'[u].phase = "length" => loop'[u].i \in Nat
  <2>1. CASE \A u \in Workers : loop'[u] = loop[u]
    BY <2>1 DEF Quiet
  <2>2. ASSUME NEW t \in Workers, NEW place \in AfterInsert(0), loop'[t] = place,
               \A u \in Workers \ {t} : loop'[u] = loop[u]
        PROVE  \A u \in Workers : loop'[u].phase = "length" => loop'[u].i \in Nat
    BY <2>2, PlacesAfter DEF Quiet
  <2> QED BY <2>1, <2>2, MainMoves
<1>2. CASE CreateThread \/ JoinThread \/ MainLength \/ Call(Main) \/ cleanup
  <2>1. status' = status /\ exit' = exit
    BY <1>2 DEF CreateThread, JoinThread, MainLength, Call, cleanup, mainVars
  <2> QED BY <1>1, <2>1 DEF Quiet
<1>3. CASE MainLengthReturns
  <2>1. pc[Main] = "ret" /\ exit' = exit
    BY <1>3 DEF MainLengthReturns, At
  <2>2. reg[Main].ret = 0
    BY <2>1, MainFindsZero
  <2>3. status' = status
    BY <1>3, <2>2 DEF MainLengthReturns
  <2> QED BY <1>1, <2>1, <2>3 DEF Quiet
<1>4. CASE Report \/ Exit
  <2>1. status' = status /\ (exit' = exit \/ exit' = 136 \/ exit' = status)
    BY <1>4 DEF Report, Exit, mainVars, SIGFPE
  <2> QED BY <1>1, <2>1 DEF Quiet
<1>5. CASE HandleError
  <2>1. status' = 1 /\ exit' = exit
    BY <1>5 DEF HandleError
  <2> QED BY <1>1, <2>1 DEF Quiet
<1> QED BY <1>2, <1>3, <1>4, <1>5 DEF MainStep

LEMMA StepQuiet ==
  ASSUME RInv, Inv, LInv, SyncInv, opt_sync # "U", GarbageJ \subseteq Nat, Quiet, [Next]_vars
  PROVE  Quiet'
<1>1. ASSUME NEW t \in Workers, WorkerStep(t) PROVE Quiet'
  BY <1>1, WorkerKeepsQuiet
<1>2. CASE MainStep \/ HandleError
  BY <1>2, MainKeepsQuiet
<1>3. ASSUME NEW t \in Workers, freed, sigsegv_handler(t) PROVE Quiet'
  <2>1. KeysInv /\ ListsInv /\ t \in Threads
    BY DEF SyncInv, Threads
  <2>2. pc[t] \notin {"unborn", "returned"}
    BY <1>3, <2>1, CallsAreSafe DEF sigsegv_handler
  <2>3. status = 1
    BY <1>3, <2>2 DEF Inv, Joined, MainOrder, Workers
  <2>4. status' = status /\ loop' = loop
    BY <1>3 DEF sigsegv_handler, mainVars
  <2> QED BY <2>3, <2>4 DEF Quiet
<1>4. CASE UNCHANGED vars
  BY <1>4 DEF vars, mainVars, Quiet
<1> QED BY <1>1, <1>2, <1>3, <1>4 DEF Next, Terminated

(* If the uninitialised j is never negative, a process with locks reports   *)
(* no corrupted list, does not fault and finds no element left over: it     *)
(* fails only when main cannot create a thread or read the clock.           *)
THEOREM NoAlarmIsFalse ==
  ASSUME GarbageJ \subseteq Nat
  PROVE  Spec => []NoFalseAlarm
<1> DEFINE QuietIfLocked == opt_sync # "U" => Quiet
<1>1. Init => QuietIfLocked
  <2> SUFFICES ASSUME Init PROVE Quiet
    OBVIOUS
  <2>1. \A t \in Workers : loop[t].phase = "insert"
    BY DEF Init, Threads
  <2> QED BY <2>1 DEF Init, Quiet, Running
<1>2. RInv /\ Inv /\ LInv /\ SyncInv /\ QuietIfLocked /\ [Next]_vars => QuietIfLocked'
  <2> SUFFICES ASSUME RInv, Inv, LInv, SyncInv, QuietIfLocked, [Next]_vars, opt_sync' # "U"
               PROVE  Quiet'
    OBVIOUS
  <2> QED BY StepQuiet, KeyIsFixed
<1>3. QuietIfLocked => NoFalseAlarm
  BY DEF Quiet, NoFalseAlarm
<1> HIDE DEF QuietIfLocked
<1> QED BY <1>1, <1>2, <1>3, SyncInvariance, PTL DEF Spec
=============================================================================
