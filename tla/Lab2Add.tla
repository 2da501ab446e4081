------------------------------- MODULE Lab2Add -------------------------------
(***************************************************************************)
(* lab2a-mutual-exclusion/lab2_add.c: main() creates nthreads workers that  *)
(* add 1 and then -1 to the shared counter `sum', niteratns times each,     *)
(* joins them, and prints the counter.  The counter is protected by         *)
(* nothing, by a mutex, by a test-and-set spin lock or by compare-and-swap. *)
(*                                                                         *)
(* One action is one access to shared memory.  sched_yield() (--yield) only *)
(* makes an interleaving likelier that is possible without it.              *)
(***************************************************************************)
EXTENDS Integers, FiniteSetsExt

CONSTANTS nthreads,     \* --threads
          niteratns,    \* --iterations
          SyncModes     \* the values of --sync considered, "U" for none

ASSUME ThreadsAssumption == nthreads \in Nat
ASSUME IterationsAssumption == niteratns \in Nat
ASSUME SyncAssumption == SyncModes \subseteq {"U", "M", "S", "C"}

VARIABLES opt_sync,     \* the mode this process was started with
          sum,          \* the shared counter
          mutex, lock,  \* 0 free, 1 taken
          pc,           \* pc[t]: the next shared access of worker t
          seen,         \* seen[t]: the value of *pointer worker t last read
          calls,        \* calls[t]: add() calls from which t has returned
          created, joined,  \* main's loop counters
          exit          \* exit status, Running until there is one

vars == <<opt_sync, sum, mutex, lock, pc, seen, calls, created, joined, exit>>
mainVars == <<created, joined, exit>>

Threads == 1..nthreads
Running == -1
SIGFPE == 136           \* the status of a process killed by signal 8

TypeOK ==
  /\ opt_sync \in SyncModes
  /\ sum \in Int
  /\ mutex \in {0, 1} /\ lock \in {0, 1}
  /\ pc \in [Threads -> {"unborn", "lock", "read", "write", "unlock", "returned"}]
  /\ seen \in [Threads -> Int]
  /\ calls \in [Threads -> 0..(2 * niteratns)]
  /\ created \in 0..nthreads /\ joined \in 0..nthreads
  /\ exit \in {Running, 0, 1, SIGFPE}

Init ==
  /\ opt_sync \in SyncModes
  /\ sum = 0
  /\ mutex = 0 /\ lock = 0
  /\ pc = [t \in Threads |-> "unborn"]
  /\ seen = [t \in Threads |-> 0]
  /\ calls = [t \in Threads |-> 0]
  /\ created = 0 /\ joined = 0
  /\ exit = Running

-----------------------------------------------------------------------------
(* thread_worker(): two loops of niteratns calls.                          *)

Value(n) == IF n < niteratns THEN 1 ELSE -1

(* Where a worker goes that has returned from n calls of add().            *)
Resume(n) == IF n >= 2 * niteratns THEN "returned"
             ELSE IF opt_sync \in {"M", "S"} THEN "lock" ELSE "read"

At(t, label) == exit = Running /\ pc[t] = label

Goto(t, label) == pc' = [pc EXCEPT ![t] = label]

AddReturns(t) == /\ calls' = [calls EXCEPT ![t] = @ + 1]
                 /\ Goto(t, Resume(calls[t] + 1))

(* pthread_mutex_lock() blocks until the mutex is free.                    *)
MutexLock(t) ==
  /\ At(t, "lock") /\ opt_sync = "M"
  /\ mutex = 0
  /\ mutex' = 1
  /\ Goto(t, "read")
  /\ UNCHANGED <<opt_sync, sum, lock, seen, calls, mainVars>>

(* A mutated TestAndSet that does not look at the value it replaces.       *)
TestAndSetUnchecked(t) ==
  /\ At(t, "lock") /\ opt_sync = "S"
  /\ lock' = 1
  /\ Goto(t, "read")
  /\ UNCHANGED <<opt_sync, sum, mutex, seen, calls, mainVars>>

(* while (__sync_lock_test_and_set(&lock, 1)) {}: one turn of the loop.    *)
TestAndSet(t) ==
  /\ At(t, "lock") /\ opt_sync = "S"
  /\ lock' = 1
  /\ Goto(t, IF lock = 0 THEN "read" ELSE "lock")
  /\ UNCHANGED <<opt_sync, sum, mutex, seen, calls, mainVars>>

Read(t) ==
  /\ At(t, "read")
  /\ seen' = [seen EXCEPT ![t] = sum]
  /\ Goto(t, "write")
  /\ UNCHANGED <<opt_sync, sum, mutex, lock, calls, mainVars>>

(* A mutated Write that adds to the counter's value twice.                 *)
WriteTwice(t) ==
  /\ At(t, "write") /\ opt_sync # "C"
  /\ sum' = sum + seen[t] + Value(calls[t])
  /\ IF opt_sync = "U"
       THEN AddReturns(t)
       ELSE Goto(t, "unlock") /\ UNCHANGED calls
  /\ UNCHANGED <<opt_sync, mutex, lock, seen, mainVars>>

(* *pointer = sum: whatever was written since Read is lost.                *)
Write(t) ==
  /\ At(t, "write") /\ opt_sync # "C"
  /\ sum' = seen[t] + Value(calls[t])
  /\ IF opt_sync = "U"
       THEN AddReturns(t)
       ELSE Goto(t, "unlock") /\ UNCHANGED calls
  /\ UNCHANGED <<opt_sync, mutex, lock, seen, mainVars>>

(* A mutated CompareAndSwap that stores without comparing.                 *)
CompareAndSwapBlind(t) ==
  /\ At(t, "write") /\ opt_sync = "C"
  /\ sum' = seen[t] + Value(calls[t])
  /\ AddReturns(t)
  /\ UNCHANGED <<opt_sync, mutex, lock, seen, mainVars>>

(* __sync_val_compare_and_swap: the loop reads the counter again when the  *)
(* value, not the history, differs from the one read.                      *)
CompareAndSwap(t) ==
  /\ At(t, "write") /\ opt_sync = "C"
  /\ IF sum = seen[t]
       THEN /\ sum' = seen[t] + Value(calls[t])
            /\ AddReturns(t)
       ELSE /\ Goto(t, "read")
            /\ UNCHANGED <<sum, calls>>
  /\ UNCHANGED <<opt_sync, mutex, lock, seen, mainVars>>

(* A mutated Unlock that returns with the lock still taken.                *)
UnlockForgotten(t) ==
  /\ At(t, "unlock")
  /\ AddReturns(t)
  /\ UNCHANGED <<opt_sync, sum, mutex, lock, seen, mainVars>>

(* pthread_mutex_unlock() and __sync_lock_release().                       *)
Unlock(t) ==
  /\ At(t, "unlock")
  /\ mutex' = IF opt_sync = "M" THEN 0 ELSE mutex
  /\ lock' = IF opt_sync = "S" THEN 0 ELSE lock
  /\ AddReturns(t)
  /\ UNCHANGED <<opt_sync, sum, seen, mainVars>>

WorkerStep(t) == \/ MutexLock(t)
                 \/ TestAndSet(t)
                 \/ Read(t)
                 \/ Write(t)
                 \/ CompareAndSwap(t)
                 \/ Unlock(t)

-----------------------------------------------------------------------------
(* main()                                                                  *)

(* A mutated CreateThread whose loop runs once too often.                  *)
CreateThreadOnceMore ==
  /\ exit = Running
  /\ created <= nthreads
  /\ created' = created + 1
  /\ pc' = [t \in Threads |-> IF t = created + 1 THEN Resume(0) ELSE pc[t]]
  /\ UNCHANGED <<opt_sync, sum, mutex, lock, seen, calls, joined, exit>>

CreateThread ==
  /\ exit = Running
  /\ created < nthreads
  /\ created' = created + 1
  /\ Goto(created + 1, Resume(0))
  /\ UNCHANGED <<opt_sync, sum, mutex, lock, seen, calls, joined, exit>>

(* A mutated JoinThread that does not wait.                                *)
JoinWithoutWaiting ==
  /\ exit = Running
  /\ created = nthreads /\ joined < nthreads
  /\ joined' = joined + 1
  /\ UNCHANGED <<opt_sync, sum, mutex, lock, pc, seen, calls, created, exit>>

JoinThread ==
  /\ exit = Running
  /\ created = nthreads /\ joined < nthreads
  /\ pc[joined + 1] = "returned"
  /\ joined' = joined + 1
  /\ UNCHANGED <<opt_sync, sum, mutex, lock, pc, seen, calls, created, exit>>

noper == nthreads * niteratns * 2

(* printf(... diff/noper, sum): the division traps when there was nothing  *)
(* to do.                                                                  *)
Report ==
  /\ exit = Running
  /\ joined = nthreads
  /\ exit' = IF noper = 0 THEN SIGFPE ELSE 0
  /\ UNCHANGED <<opt_sync, sum, mutex, lock, pc, seen, calls, created, joined>>

(* handleerror(): pthread_create or clock_gettime fails in main, and the   *)
(* whole process exits, whatever its workers are doing.                    *)
HandleError ==
  /\ exit = Running
  /\ created < nthreads \/ joined = nthreads
  /\ exit' = 1
  /\ UNCHANGED <<opt_sync, sum, mutex, lock, pc, seen, calls, created, joined>>

MainStep == CreateThread \/ JoinThread \/ Report

(* The process is gone: the only state in which nothing happens.           *)
Terminated == exit # Running /\ UNCHANGED vars

Next == \/ \E t \in Threads : WorkerStep(t)
        \/ MainStep
        \/ HandleError
        \/ Terminated

Spec == Init /\ [][Next]_vars

(* The operating system runs every thread that can run.                    *)
Fairness == /\ \A t \in Threads : WF_vars(WorkerStep(t))
            /\ WF_vars(MainStep)

FairSpec == Spec /\ Fairness

-----------------------------------------------------------------------------
(* Between taking the lock and releasing it a worker is alone.             *)
InCriticalSection(t) == pc[t] \in {"read", "write", "unlock"}

MutualExclusion ==
  opt_sync \in {"M", "S"} =>
    \A t, u \in Threads :
       InCriticalSection(t) /\ InCriticalSection(u) => t = u

(* The result main prints: with any kind of synchronisation no update is   *)
(* lost, so the increments and decrements of all threads cancel.           *)
SynchronisedSumIsZero == exit = 0 /\ opt_sync # "U" => sum = 0

(* Additions of thread t that took effect.                                 *)
Effective(t) == calls[t] + (IF pc[t] = "unlock" THEN 1 ELSE 0)

(* The increments among them, which come first, and the decrements.        *)
Up(t) == IF Effective(t) <= niteratns THEN Effective(t) ELSE niteratns
Down(t) == Effective(t) - Up(t)

(* Even the unprotected add_none() invents nothing: an update can be lost  *)
(* but the counter stays between the decrements and the increments that    *)
(* threads have written so far.                                            *)
RaceLosesButNeverInvents ==
  sum \in -MapThenSumSet(Down, Threads) .. MapThenSumSet(Up, Threads)

(* What the atomic specification sees.  It says nothing of a run without   *)
(* synchronisation, in which it sees no addition at all.                   *)
Synchronised == opt_sync # "U"

seenSum == IF Synchronised THEN sum ELSE 0
adds == [t \in Threads |-> IF Synchronised THEN Effective(t) ELSE 0]

(* Every synchronised add() is atomic: it takes effect at its write or its *)
(* successful compare-and-swap.                                            *)
Atomic == INSTANCE AtomicAdd WITH sum <- seenSum, adds <- adds

AddIsAtomic == Atomic!Spec

(* No lock is ever left taken, and no compare-and-swap is retried for ever:*)
(* main reaches its exit.                                                  *)
Termination == <>(exit # Running)

(* Every joined worker has returned, and main exits normally only after it *)
(* joined them all: no worker touches the counter while it is printed.     *)
NoWorkerOutlivesReport ==
  exit = 0 => \A t \in Threads : pc[t] = "returned" /\ calls[t] = 2 * niteratns
=============================================================================
