------------------------------ MODULE Lab2aList ------------------------------
(***************************************************************************)
(* lab2a-mutual-exclusion/lab2_list.c: the predecessor of lab2b's program.  *)
(* All workers share one list and one lock, main frees nothing, and the     *)
(* keys of all elements are one and the same dead local array of            *)
(* init_list_and_ele(): str is declared in its loop, every element points   *)
(* to it, and strcmp() of a string with itself finds it equal.              *)
(***************************************************************************)
EXTENDS Integers, Sequences

CONSTANTS nthreads,     \* --threads
          niteratns,    \* --iterations
          SyncModes     \* the values of --sync considered, "U" for none

ASSUME ThreadsAssumption == nthreads \in Nat
ASSUME IterationsAssumption == niteratns \in Nat
ASSUME SyncAssumption == SyncModes \subseteq {"U", "M", "S"}

VARIABLES opt_sync,     \* the mode this process was started with
          next, prev, key, pc, reg,     \* see SortedList
          lock,         \* mutex or lock: 0 free, 1 taken
          loop,         \* loop[t]: the loop worker t is in and its index
          created, joined,  \* main's loop counters
          exit          \* exit status, Running until there is one

listVars == <<next, prev, key, pc, reg>>
vars == <<opt_sync, listVars, lock, loop, created, joined, exit>>

Main == 0
Workers == 1..nthreads
Threads == {Main} \cup Workers
Running == -1
SIGFPE == 136           \* the status of a process killed by signal 8

NULL == <<"NULL", 0>>
head == <<"head", 0>>
Element(k) == <<"element", k>>
nelements == nthreads * niteratns
Elems == {Element(k) : k \in 0..(nelements - 1)}
Mine(t, i) == Element((t - 1) * niteratns + i)

SL == INSTANCE SortedList WITH Procs <- Threads, Heads <- {head}

str == <<65>>           \* what the shared array holds does not matter

Init ==
  /\ opt_sync \in SyncModes
  /\ next = [n \in {head} \cup Elems |-> IF n = head THEN head ELSE NULL]
  /\ prev = next
  /\ key = [e \in Elems |-> str]
  /\ pc = [t \in Threads |-> IF t = Main THEN "main" ELSE "unborn"]
  /\ reg = [t \in Threads |-> SL!Idle]
  /\ lock = 0
  /\ loop = [t \in Workers |-> [phase |-> "insert", i |-> 0]]
  /\ created = 0 /\ joined = 0
  /\ exit = Running

-----------------------------------------------------------------------------
(* thread_worker(): niteratns inserts, one length, niteratns deletes.      *)

AfterInsert(n) == IF n < niteratns THEN [phase |-> "insert", i |-> n]
                                   ELSE [phase |-> "length", i |-> 0]
AfterDelete(n) == IF n < niteratns THEN [phase |-> "lookup", i |-> n]
                                   ELSE [phase |-> "returned", i |-> 0]

Label(place) == IF place.phase = "returned" THEN "returned" ELSE "lock"

At(t, label) == exit = Running /\ pc[t] = label

(* A mutated lock_general that takes the lock without waiting for it.      *)
LockWithoutWaiting(t) ==
  LET e == Mine(t, loop[t].i)
  IN  /\ At(t, "lock")
      /\ lock' = IF opt_sync = "U" THEN lock ELSE 1
      /\ CASE loop[t].phase = "insert" -> SL!CallInsert(t, head, e)
           [] loop[t].phase = "length" -> SL!CallLength(t, head)
           [] loop[t].phase = "lookup" -> SL!CallLookup(t, head, key[e])
      /\ UNCHANGED <<opt_sync, next, prev, key, loop, created, joined, exit>>

(* lock_general(), then the call it protects.  A mutex blocks and a spin   *)
(* lock writes 1 over 1 until the holder releases it.                      *)
LockGeneral(t) ==
  LET e == Mine(t, loop[t].i)
  IN  /\ At(t, "lock")
      /\ opt_sync # "U" => lock = 0
      /\ lock' = IF opt_sync = "U" THEN lock ELSE 1
      /\ CASE loop[t].phase = "insert" -> SL!CallInsert(t, head, e)
           [] loop[t].phase = "length" -> SL!CallLength(t, head)
           [] loop[t].phase = "lookup" -> SL!CallLookup(t, head, key[e])
      /\ UNCHANGED <<opt_sync, next, prev, key, loop, created, joined, exit>>

Call(t) == /\ exit = Running
           /\ SL!ListStep(t)
           /\ UNCHANGED <<opt_sync, lock, loop, created, joined, exit>>

(* SortedList_delete(SortedList_lookup(...)): what was found, or NULL.     *)
DeleteFound(t) ==
  /\ At(t, "ret") /\ loop[t].phase = "lookup"
  /\ SL!CallDelete(t, reg[t].ptr)
  /\ loop' = [loop EXCEPT ![t].phase = "delete"]
  /\ UNCHANGED <<opt_sync, next, prev, key, lock, created, joined, exit>>

Failed(t) == \/ loop[t].phase = "length" /\ reg[t].ret = -1
             \/ loop[t].phase = "delete" /\ reg[t].ret = 1

(* A mutated Release that forgets to unlock.                               *)
ReleaseForgotten == lock' = lock

(* unlock_general()                                                        *)
Release == lock' = IF opt_sync = "U" THEN lock ELSE 0

(* The call is over and its result good: unlock and go to the next turn.   *)
UnlockGeneral(t) ==
  /\ At(t, "ret") /\ ~Failed(t)
  /\ \/ /\ loop[t].phase = "insert"
        /\ loop' = [loop EXCEPT ![t] = AfterInsert(loop[t].i + 1)]
     \/ /\ loop[t].phase = "length"
        /\ loop' = [loop EXCEPT ![t] = AfterDelete(0)]
     \/ /\ loop[t].phase = "delete"
        /\ loop' = [loop EXCEPT ![t] = AfterDelete(loop[t].i + 1)]
  /\ pc' = [pc EXCEPT ![t] = Label(loop'[t])]
  /\ reg' = [reg EXCEPT ![t] = SL!Idle]
  /\ Release
  /\ UNCHANGED <<opt_sync, next, prev, key, created, joined, exit>>

(* exit(2) with the lock still taken.                                      *)
ReportCorruption(t) ==
  /\ At(t, "ret") /\ Failed(t)
  /\ exit' = 2
  /\ UNCHANGED <<opt_sync, listVars, lock, loop, created, joined>>

sigsegv_handler(t) ==
  /\ exit = Running
  /\ SL!Faults(t)
  /\ exit' = 1
  /\ UNCHANGED <<opt_sync, listVars, lock, loop, created, joined>>

WorkerStep(t) == \/ LockGeneral(t)
                 \/ Call(t)
                 \/ DeleteFound(t)
                 \/ UnlockGeneral(t)
                 \/ ReportCorruption(t)
                 \/ sigsegv_handler(t)

-----------------------------------------------------------------------------
(* main()                                                                  *)

CreateThread ==
  /\ At(Main, "main") /\ created < nthreads
  /\ created' = created + 1
  /\ loop' = [loop EXCEPT ![created'] = AfterInsert(0)]
  /\ pc' = [pc EXCEPT ![created'] = "lock"]
  /\ UNCHANGED <<opt_sync, next, prev, key, reg, lock, joined, exit>>

JoinThread ==
  /\ At(Main, "main") /\ created = nthreads /\ joined < nthreads
  /\ pc[joined + 1] = "returned"
  /\ joined' = joined + 1
  /\ UNCHANGED <<opt_sync, listVars, lock, loop, created, exit>>

(* SortedList_length(&head) by main, alone.                                *)
MainLength ==
  /\ At(Main, "main") /\ joined = nthreads
  /\ SL!CallLength(Main, head)
  /\ UNCHANGED <<opt_sync, next, prev, key, lock, loop, created, joined, exit>>

n_oper == nthreads * niteratns * 3

(* main's verdict: 2 unless the list is empty, and a trap when there was   *)
(* nothing to divide the time by.                                          *)
Verdict ==
  /\ At(Main, "ret")
  /\ exit' = IF reg[Main].ret # 0 THEN 2 ELSE IF n_oper = 0 THEN SIGFPE ELSE 0
  /\ UNCHANGED <<opt_sync, listVars, lock, loop, created, joined>>

(* handleerror(): pthread_create fails, or clock_gettime, which is called   *)
(* before the first of them and after the joins.                           *)
HandleError ==
  /\ At(Main, "main")
  /\ created < nthreads \/ joined = nthreads
  /\ exit' = 1
  /\ UNCHANGED <<opt_sync, listVars, lock, loop, created, joined>>

MainStep == CreateThread \/ JoinThread \/ MainLength \/ Call(Main) \/ Verdict

(* The process is gone: the only state in which nothing happens.           *)
Terminated == exit # Running /\ UNCHANGED vars

Next == \/ \E t \in Workers : WorkerStep(t)
        \/ MainStep
        \/ HandleError
        \/ Terminated

Spec == Init /\ [][Next]_vars

(* The operating system runs every thread that can run.                    *)
FairSpec == /\ Spec
            /\ \A t \in Workers : WF_vars(WorkerStep(t))
            /\ WF_vars(MainStep)

-----------------------------------------------------------------------------
(* Properties *)

Members == SL!Members(head, nelements)

Synchronised == opt_sync # "U"

(* With a lock, the only way to fail is that a thread cannot be created or  *)
(* the clock not be read, while main creates threads or after the last      *)
(* join: never while main waits for a worker.                              *)
NoFalseAlarm ==
  Synchronised =>
    /\ exit = 1 => /\ pc[Main] = "main"
                   /\ created < nthreads \/ joined = nthreads
    /\ exit # 2

(* While nobody holds the lock the list is a circle through both links.    *)
ListIntact == Synchronised /\ lock = 0 => SL!Circular(head, nelements)

InsertsDone(t) ==
  IF loop[t].phase = "insert"
    THEN loop[t].i + (IF pc[t] = "ret" THEN 1 ELSE 0)
    ELSE niteratns

DeletesDone(t) ==
  CASE loop[t].phase = "lookup"   -> loop[t].i
    [] loop[t].phase = "delete"   -> loop[t].i + (IF pc[t] = "ret" THEN 1 ELSE 0)
    [] loop[t].phase = "returned" -> niteratns
    [] OTHER                      -> 0

Owner(e) == <<(e[2] \div niteratns) + 1, e[2] % niteratns>>

Owned == Workers \X (0..(niteratns - 1))

(* What the atomic specification sees: nothing, of a run without a lock.   *)
Atomic == INSTANCE AtomicList WITH
  Keys <- {str},
  keyOf <- [x \in Owned |-> key[Mine(x[1], x[2])]],
  members <- IF Synchronised THEN {Owner(e) : e \in Members} ELSE {},
  inserted <- [t \in Workers |-> IF Synchronised THEN InsertsDone(t) ELSE 0],
  deleted <- [t \in Workers |-> IF Synchronised THEN DeletesDone(t) ELSE 0]

(* With a lock every insert, and every lookup with the delete of what it   *)
(* found, is atomic, although all keys are the same string.                *)
OperationsAreAtomic == Atomic!Spec

(* Even without a lock, two workers cannot tie the list into a knot that   *)
(* keeps either of them, or main, walking for ever.                        *)
Termination == <>(exit # Running)
=============================================================================
