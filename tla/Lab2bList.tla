------------------------------ MODULE Lab2bList ------------------------------
(***************************************************************************)
(* lab2b-contention/lab2_list.c: nthreads workers share sublist_num sorted  *)
(* lists, each with a lock of its own.  A worker inserts its niteratns      *)
(* elements into the lists their keys select, takes the length of the       *)
(* lists, and deletes an element of each of its keys; main joins the        *)
(* workers and exits 0 if every list is empty again.                        *)
(*                                                                         *)
(* One action is one access to memory that threads share; sched_yield() and *)
(* the timing of the lock add nothing to the interleavings.                 *)
(***************************************************************************)
EXTENDS Integers, Sequences, SequencesExt, FiniteSetsExt

CONSTANTS nthreads,     \* --threads
          niteratns,    \* --iterations
          lists,        \* --lists
          SyncModes,    \* the values of --sync considered, "U" for none
          RandValues,   \* what rand() % (1 << 15) may return
          GarbageJ      \* what the uninitialised j of thread_worker may hold

ASSUME ThreadsAssumption == nthreads \in Nat
ASSUME IterationsAssumption == niteratns \in Nat
ASSUME ListsAssumption == lists \in Nat \ {0}
ASSUME SyncAssumption == SyncModes \subseteq {"U", "M", "S"}
ASSUME RandAssumption == RandValues \subseteq 0..(2^15 - 1)
ASSUME GarbageAssumption == GarbageJ \subseteq Int /\ GarbageJ # {}

VARIABLES opt_sync,     \* the mode this process was started with
          next, prev, key, pc, reg,     \* see SortedList
          locks,        \* locks[l]: mutexes[l] or locks[l], 0 free, 1 taken
          loop,         \* loop[t]: the loop thread t is in and its index
          created, joined,  \* main's loop counters
          freed,        \* cleanup() has released keys, elements and locks
          status,       \* what main will return once cleanup() is done
          exit          \* exit status, Running until there is one

listVars == <<next, prev, key, pc, reg>>
mainVars == <<created, joined, freed, status>>
vars == <<opt_sync, listVars, locks, loop, mainVars, exit>>

Main == 0
Workers == 1..nthreads
Threads == {Main} \cup Workers
Running == -1
SIGFPE == 136           \* the status of a process killed by signal 8

(* get_args(): no more lists than iterations.                              *)
sublist_num == IF lists > niteratns THEN niteratns ELSE lists
Lists == 0..(sublist_num - 1)

NULL == <<"NULL", 0>>
ListHead(l) == <<"head", l>>
Element(k) == <<"element", k>>
nelements == nthreads * niteratns
Heads == {ListHead(l) : l \in Lists}
Elems == {Element(k) : k \in 0..(nelements - 1)}

(* elements + i, where elements is the thread_worker's argument.           *)
Mine(t, i) == Element((t - 1) * niteratns + i)

SL == INSTANCE SortedList WITH Procs <- Threads

-----------------------------------------------------------------------------
(* Keys                                                                    *)

itoa[n \in Nat] == IF n < 10 THEN <<n>> ELSE Append(itoa[n \div 10], n % 10)

atoi(str) == FoldLeft(LAMBDA n, digit : 10 * n + digit, 0, str)

get_list_num(str) == atoi(str) % sublist_num

(* A random key of a given list.                                           *)
hash_str(ln) ==
  {itoa[temp - (temp % sublist_num) + ln] : temp \in RandValues}

(* Elements take the lists in turn.                                        *)
init_list_and_ele ==
  {k \in [Elems -> UNION {hash_str(l) : l \in Lists}] :
     \A e \in Elems : k[e] \in hash_str(e[2] % sublist_num)}

ListOf(e) == get_list_num(key[e])

-----------------------------------------------------------------------------
Init ==
  /\ opt_sync \in SyncModes
  /\ next = [n \in Heads \cup Elems |-> IF n \in Heads THEN n ELSE NULL]
  /\ prev = next
  /\ key \in init_list_and_ele
  /\ pc = [t \in Threads |-> IF t = Main THEN "main" ELSE "unborn"]
  /\ reg = [t \in Threads |-> SL!Idle]
  /\ locks = [l \in Lists |-> 0]
  /\ loop = [t \in Threads |-> [phase |-> "insert", i |-> 0]]
  /\ created = 0 /\ joined = 0
  /\ freed = FALSE
  /\ status = 0
  /\ exit = Running

-----------------------------------------------------------------------------
(* thread_worker()                                                         *)

(* Where the three loops stand after n turns of each.  The second starts   *)
(* from whatever is in j.                                                  *)
AfterDelete(n) == IF n < niteratns THEN [phase |-> "lookup", i |-> n]
                                   ELSE [phase |-> "returned", i |-> 0]
AfterLength(j) == IF j < sublist_num THEN [phase |-> "length", i |-> j]
                                     ELSE AfterDelete(0)
AfterInsert(n) == IF n < niteratns THEN {[phase |-> "insert", i |-> n]}
                                   ELSE {AfterLength(j) : j \in GarbageJ}

Label(place) == IF place.phase = "returned" THEN "returned" ELSE "lock"

At(t, label) == exit = Running /\ pc[t] = label

(* The list a worker's present turn is about.                              *)
list_num(t) == IF loop[t].phase = "length" THEN loop[t].i
               ELSE ListOf(Mine(t, loop[t].i))

(* lock_general(), then the call it protects.  A mutex blocks and a spin   *)
(* lock writes 1 over 1 until the holder releases it.                      *)
LockGeneral(t) ==
  LET l == list_num(t)
      e == Mine(t, loop[t].i)
  IN  /\ At(t, "lock")
      /\ l \in Lists
      /\ opt_sync # "U" => locks[l] = 0
      /\ locks' = IF opt_sync = "U" THEN locks ELSE [locks EXCEPT ![l] = 1]
      /\ \/ loop[t].phase = "insert" /\ SL!CallInsert(t, ListHead(l), e)
         \/ loop[t].phase = "length" /\ SL!CallLength(t, ListHead(l))
         \/ loop[t].phase = "lookup" /\ SL!CallLookup(t, ListHead(l), key[e])
      /\ UNCHANGED <<opt_sync, next, prev, key, loop, mainVars, exit>>

(* locks[j] and listheads[j] of a negative j: undefined.  The process dies,*)
(* or finds the memory it reads corrupted, or the turn passes unnoticed.   *)
OutOfBounds(t) ==
  /\ At(t, "lock")
  /\ loop[t].phase = "length" /\ loop[t].i < 0
  /\ \/ exit' \in {1, 2} /\ UNCHANGED <<pc, loop>>
     \/ /\ loop' = [loop EXCEPT ![t] = AfterLength(loop[t].i + 1)]
        /\ pc' = [pc EXCEPT ![t] = Label(loop'[t])]
        /\ UNCHANGED exit
  /\ UNCHANGED <<opt_sync, next, prev, key, reg, locks, mainVars>>

Call(t) == /\ exit = Running
           /\ SL!ListStep(t)
           /\ UNCHANGED <<opt_sync, locks, loop, mainVars, exit>>

(* SortedList_delete(SortedList_lookup(...)): what was found, or NULL.     *)
DeleteFound(t) ==
  /\ At(t, "ret") /\ loop[t].phase = "lookup"
  /\ SL!CallDelete(t, reg[t].ptr)
  /\ loop' = [loop EXCEPT ![t].phase = "delete"]
  /\ UNCHANGED <<opt_sync, next, prev, key, locks, mainVars, exit>>

(* A mutated Release that forgets to unlock.                               *)
ReleaseForgotten(l) == locks' = locks

(* unlock_general()                                                        *)
Release(l) == locks' = IF opt_sync = "U" THEN locks ELSE [locks EXCEPT ![l] = 0]

(* The call is over: unlock and go to the next turn.                       *)
UnlockGeneral(t) ==
  /\ At(t, "ret") /\ t # Main
  /\ \/ /\ loop[t].phase = "insert"
        /\ \E place \in AfterInsert(loop[t].i + 1) :
              loop' = [loop EXCEPT ![t] = place]
        /\ pc' = [pc EXCEPT ![t] = Label(loop'[t])]
     \/ /\ loop[t].phase = "length" /\ reg[t].ret # -1
        /\ loop' = [loop EXCEPT ![t] = AfterLength(loop[t].i + 1)]
        /\ pc' = [pc EXCEPT ![t] = Label(loop'[t])]
     \/ /\ loop[t].phase = "delete" /\ reg[t].ret = 0
        /\ loop' = [loop EXCEPT ![t] = AfterDelete(loop[t].i + 1)]
        /\ pc' = [pc EXCEPT ![t] = Label(loop'[t])]
     \/ /\ loop[t].phase = "delete" /\ reg[t].ret = 1
        /\ pc' = [pc EXCEPT ![t] = "corrupted"]
        /\ UNCHANGED loop
  /\ Release(list_num(t))
  /\ reg' = [reg EXCEPT ![t] = SL!Idle]
  /\ UNCHANGED <<opt_sync, next, prev, key, mainVars, exit>>

(* exit(2): at once for a bad length, after unlocking for a bad delete.    *)
ReportCorruption(t) ==
  /\ \/ At(t, "ret") /\ loop[t].phase = "length" /\ reg[t].ret = -1 /\ t # Main
     \/ At(t, "corrupted")
  /\ exit' = 2
  /\ UNCHANGED <<opt_sync, listVars, locks, loop, mainVars>>

(* sigsegv_handler(): a NULL pointer is dereferenced, or memory cleanup()  *)
(* has given back to the system.                                           *)
sigsegv_handler(t) ==
  /\ exit = Running
  /\ \/ SL!Faults(t)
     \/ freed /\ t # Main /\ pc[t] \notin {"unborn", "returned"}
  /\ exit' = 1
  /\ UNCHANGED <<opt_sync, listVars, locks, loop, mainVars>>

WorkerStep(t) == \/ LockGeneral(t)
                 \/ OutOfBounds(t)
                 \/ Call(t)
                 \/ DeleteFound(t)
                 \/ UnlockGeneral(t)
                 \/ ReportCorruption(t)
                 \/ SL!Faults(t) /\ sigsegv_handler(t)

-----------------------------------------------------------------------------
(* main()                                                                  *)

CreateThread ==
  /\ At(Main, "main") /\ created < nthreads
  /\ created' = created + 1
  /\ \E place \in AfterInsert(0) :
        /\ loop' = [loop EXCEPT ![created'] = place]
        /\ pc' = [pc EXCEPT ![created'] = Label(place)]
  /\ UNCHANGED <<opt_sync, next, prev, key, reg, locks, joined, freed, status,
                 exit>>

(* A mutated JoinThread that does not wait.                                *)
JoinWithoutWaiting ==
  /\ At(Main, "main") /\ created = nthreads /\ joined < nthreads
  /\ joined' = joined + 1
  /\ UNCHANGED <<opt_sync, listVars, locks, loop, created, freed, status, exit>>

JoinThread ==
  /\ At(Main, "main") /\ created = nthreads /\ joined < nthreads
  /\ pc[joined + 1] = "returned"
  /\ joined' = joined + 1
  /\ UNCHANGED <<opt_sync, listVars, locks, loop, created, freed, status, exit>>

(* SortedList_length of every list, without a lock.                        *)
MainLength ==
  /\ At(Main, "main") /\ joined = nthreads /\ loop[Main].i < sublist_num
  /\ SL!CallLength(Main, ListHead(loop[Main].i))
  /\ UNCHANGED <<opt_sync, next, prev, key, locks, loop, mainVars, exit>>

(* A mutated MainLengthReturns that only looks for a corrupted list.       *)
MainLengthIgnored ==
  /\ At(Main, "ret")
  /\ IF reg[Main].ret # -1
       THEN /\ loop' = [loop EXCEPT ![Main].i = @ + 1]
            /\ pc' = [pc EXCEPT ![Main] = "main"]
            /\ UNCHANGED status
       ELSE /\ status' = 2
            /\ pc' = [pc EXCEPT ![Main] = "cleanup"]
            /\ UNCHANGED loop
  /\ reg' = [reg EXCEPT ![Main] = SL!Idle]
  /\ UNCHANGED <<opt_sync, next, prev, key, locks, created, joined, freed, exit>>

MainLengthReturns ==
  /\ At(Main, "ret")
  /\ IF reg[Main].ret = 0
       THEN /\ loop' = [loop EXCEPT ![Main].i = @ + 1]
            /\ pc' = [pc EXCEPT ![Main] = "main"]
            /\ UNCHANGED status
       ELSE /\ status' = 2
            /\ pc' = [pc EXCEPT ![Main] = "cleanup"]
            /\ UNCHANGED loop
  /\ reg' = [reg EXCEPT ![Main] = SL!Idle]
  /\ UNCHANGED <<opt_sync, next, prev, key, locks, created, joined, freed, exit>>

n_oper == nthreads * niteratns * 3

(* printf(..., diff/n_oper, ...) traps when there was nothing to do.       *)
Report ==
  /\ At(Main, "main") /\ joined = nthreads /\ loop[Main].i = sublist_num
  /\ IF n_oper = 0
       THEN exit' = SIGFPE /\ UNCHANGED pc
       ELSE pc' = [pc EXCEPT ![Main] = "cleanup"] /\ UNCHANGED exit
  /\ UNCHANGED <<opt_sync, next, prev, key, reg, locks, loop, mainVars>>

(* handleerror(): cleanup() and exit(1), though workers may be running when *)
(* it is pthread_create that fails.  main also reads the clock, before the  *)
(* first thread and between the last join and the first length.             *)
HandleError ==
  /\ At(Main, "main")
  /\ created < nthreads \/ (joined = nthreads /\ loop[Main].i = 0)
  /\ status' = 1
  /\ pc' = [pc EXCEPT ![Main] = "cleanup"]
  /\ UNCHANGED <<opt_sync, next, prev, key, reg, locks, loop, created, joined,
                 freed, exit>>

cleanup ==
  /\ At(Main, "cleanup")
  /\ freed' = TRUE
  /\ pc' = [pc EXCEPT ![Main] = "exit"]
  /\ UNCHANGED <<opt_sync, next, prev, key, reg, locks, loop, created, joined,
                 status, exit>>

Exit ==
  /\ At(Main, "exit")
  /\ exit' = status
  /\ UNCHANGED <<opt_sync, listVars, locks, loop, mainVars>>

(* main calls only SortedList_length, which LengthNeverFaults shows never   *)
(* to raise the signal sigsegv_handler() is for.                           *)
MainStep == \/ CreateThread
            \/ JoinThread
            \/ MainLength
            \/ Call(Main)
            \/ MainLengthReturns
            \/ Report
            \/ cleanup
            \/ Exit

(* The process is gone: the only state in which nothing happens.           *)
Terminated == exit # Running /\ UNCHANGED vars

Next == \/ \E t \in Workers : WorkerStep(t)
        \/ \E t \in Workers : freed /\ sigsegv_handler(t)
        \/ MainStep
        \/ HandleError
        \/ Terminated

Spec == Init /\ [][Next]_vars

(* The operating system runs every thread that can run.                    *)
Fairness == /\ \A t \in Workers : WF_vars(WorkerStep(t))
            /\ WF_vars(MainStep)

FairSpec == Spec /\ Fairness

-----------------------------------------------------------------------------
(* Properties *)

Members(l) == SL!Members(ListHead(l), nelements)

(* A list nobody holds is a circle through both kinds of link and holds     *)
(* only elements whose keys select it.                                     *)
ListsIntact ==
  opt_sync # "U" =>
    \A l \in Lists : locks[l] = 0 =>
       /\ SL!Circular(ListHead(l), nelements)
       /\ \A e \in Members(l) : ListOf(e) = l

(* With locks, the program never reports a corrupted list, never faults,   *)
(* and never finds an element left over: the only way to fail is that a    *)
(* thread cannot be created or the clock not be read.                      *)
NoFalseAlarm ==
  opt_sync # "U" => (exit \in {1, 2} \/ status = 2 => status = 1)

(* What cleanup() frees is used by no worker, unless it is called before    *)
(* all threads are created, because one of them cannot be.                 *)
FreedWhenAlone ==
  freed /\ created = nthreads => \A t \in Workers : pc[t] = "returned"

(* A link of a list, once set, is never NULL again, even without locks:    *)
(* what a length() or lookup() has tested stays non-NULL.                  *)
NoLinkCleared ==
  \A n \in Heads \cup Elems : /\ next[n] # NULL => next'[n] # NULL
                              /\ prev[n] # NULL => prev'[n] # NULL

LinksStaySet == [][NoLinkCleared]_vars

(* main exits 0 only when it has seen every list empty.                    *)
ExitZeroMeansEmpty ==
  exit = 0 => \A l \in Lists : next[ListHead(l)] = ListHead(l)

(* Refinement: an insert takes effect when the list's prev chain reaches   *)
(* the element, a delete when it no longer does.                           *)
InsertsDone(t) ==
  IF loop[t].phase = "insert"
    THEN loop[t].i + (IF pc[t] = "ret" THEN 1 ELSE 0)
    ELSE niteratns

DeletesDone(t) ==
  CASE loop[t].phase = "lookup"   -> loop[t].i
    [] loop[t].phase = "delete"   -> loop[t].i + (IF pc[t] = "ret" THEN 1 ELSE 0)
    [] loop[t].phase = "returned" -> niteratns
    [] OTHER                      -> 0

Owner(e) == <<(e[2] \div niteratns) + 1, e[2] % niteratns>>

Owned == Workers \X (0..(niteratns - 1))

Atomic == INSTANCE AtomicList WITH
  Keys <- UNION {hash_str(l) : l \in Lists},
  keyOf <- [x \in Owned |-> key[Mine(x[1], x[2])]],
  members <- {Owner(e) : e \in UNION {Members(l) : l \in Lists}},
  inserted <- [t \in Workers |-> InsertsDone(t)],
  deleted <- [t \in Workers |-> DeletesDone(t)]

(* With locks every insert, and every lookup with the delete of what it    *)
(* found, is atomic.                                                       *)
OperationsAreAtomic == Atomic!Spec

(* With locks, and whoever deletes whose element, the lists hold as many    *)
(* elements of a key as were inserted and not yet deleted.                 *)
ElementsConserved == opt_sync # "U" => Atomic!Balanced

(* With locks, a worker that has a delete to do finds an element of its key *)
(* on the lists, although others may have deleted the one it inserted: it   *)
(* never hands SortedList_delete() a NULL pointer.                         *)
LookupsSucceed == opt_sync # "U" => Atomic!AlwaysFound

(* Whatever races do to the links, SortedList_length itself never follows  *)
(* a NULL pointer: it tests each link first, and no link becomes NULL.     *)
LengthNeverFaults ==
  \A t \in Threads : SL!Faults(t) => loop[t].phase # "length" /\ t # Main

(* With locks no worker waits for ever and no loop runs for ever.          *)
Termination == <>(exit # Running)

-----------------------------------------------------------------------------
(* What the documents say and the code does not do.                        *)

(* P2B_check.sh: a run with --sync=m or --sync=s exits 0.                  *)
SyncRunsExitZero == opt_sync # "U" /\ exit # Running => exit = 0 \/ status = 1
=============================================================================
