---------------------------- MODULE Lab2Add_proof ----------------------------
(***************************************************************************)
(* lab2_add for any number of threads and iterations: the two locks exclude, *)
(* every synchronised add() implements the atomic one, the printed sum of a *)
(* synchronised run is 0, and a run without synchronisation loses additions *)
(* but invents none.                                                        *)
(***************************************************************************)
EXTENDS Lab2Add, FiniteSetTheorems, NaturalsInduction, WellFoundedInduction, TLAPS

(* A worker's program counter fits its mode and its progress.               *)
PcInv(t) ==
  /\ opt_sync \in {"U", "C"} => pc[t] \notin {"lock", "unlock"}
  /\ pc[t] = "unborn" => calls[t] = 0
  /\ pc[t] = "returned" => calls[t] = 2 * niteratns
  /\ pc[t] \in {"lock", "read", "write", "unlock"} => calls[t] < 2 * niteratns

(* The lock of the chosen mode is taken while a worker is inside, and only  *)
(* one is; what it read is still the value of the counter when it writes.   *)
Taken == IF opt_sync = "M" THEN mutex = 1 ELSE lock = 1

LockInv ==
  opt_sync \in {"M", "S"} =>
    /\ \A t \in Threads : InCriticalSection(t) => Taken
    /\ \A t, u \in Threads : InCriticalSection(t) /\ InCriticalSection(u) => t = u
    /\ \A t \in Threads : pc[t] = "write" => seen[t] = sum

(* How far main's loops are.                                                *)
MainInv ==
  /\ \A t \in Threads : t > created => pc[t] = "unborn"
  /\ \A t \in Threads : t <= joined => pc[t] = "returned"
  /\ joined > 0 => created = nthreads
  /\ exit = 0 => joined = nthreads

IInv == TypeOK /\ (\A t \in Threads : PcInv(t)) /\ LockInv /\ MainInv

USE ThreadsAssumption, IterationsAssumption, SyncAssumption

(* Where a worker resumes is one of its labels, and it returns exactly      *)
(* when all its calls are made.                                             *)
LEMMA ResumeLabel ==
  ASSUME NEW n \in 0..(2 * niteratns), TypeOK
  PROVE  /\ Resume(n) \in {"lock", "read", "returned"}
         /\ Resume(n) = "returned" => n = 2 * niteratns
         /\ Resume(n) # "returned" => n < 2 * niteratns
         /\ Resume(n) = "lock" => opt_sync \in {"M", "S"}
         /\ Resume(n) = "read" => opt_sync \in {"U", "C"}
BY DEF Resume, TypeOK

LEMMA InitIInv == Init => IInv
BY DEF Init, IInv, TypeOK, PcInv, LockInv, MainInv, InCriticalSection, Threads,
       Running

(* Each action of a worker preserves the inductive invariant.               *)
LEMMA WorkerKeepsIInv ==
  ASSUME IInv, NEW t \in Threads, WorkerStep(t)
  PROVE  IInv'
<1> USE DEF IInv, TypeOK, PcInv, LockInv, MainInv, InCriticalSection, Taken,
            At, Goto, mainVars
<1>1. CASE MutexLock(t)
  BY <1>1 DEF MutexLock
<1>2. CASE TestAndSet(t)
  BY <1>2 DEF TestAndSet
<1>3. CASE Read(t)
  BY <1>3 DEF Read
<1> DEFINE r == Resume(calls[t] + 1)
<1>4. pc[t] \in {"write", "unlock"} =>
        /\ calls[t] + 1 \in 0..(2 * niteratns)
        /\ r \in {"lock", "read", "returned"}
        /\ r = "returned" => calls[t] + 1 = 2 * niteratns
        /\ r # "returned" => calls[t] + 1 < 2 * niteratns
        /\ r = "lock" => opt_sync \in {"M", "S"}
        /\ r = "read" => opt_sync \in {"U", "C"}
  BY ResumeLabel
<1>5. CASE Write(t)
  <2>1. CASE opt_sync = "U"
    <3> HIDE DEF r
    <3>1. calls' = [calls EXCEPT ![t] = @ + 1] /\ pc' = [pc EXCEPT ![t] = r]
      BY <1>5, <2>1 DEF Write, AddReturns, r
    <3> QED BY <1>4, <1>5, <2>1, <3>1 DEF Write, Value
  <2>2. CASE opt_sync # "U"
    BY <1>5, <2>2 DEF Write, Value
  <2> QED BY <2>1, <2>2
<1>6. CASE CompareAndSwap(t)
  <2>1. CASE sum = seen[t]
    <3> HIDE DEF r
    <3>1. calls' = [calls EXCEPT ![t] = @ + 1] /\ pc' = [pc EXCEPT ![t] = r]
      BY <1>6, <2>1 DEF CompareAndSwap, AddReturns, r
    <3> QED BY <1>4, <1>6, <2>1, <3>1 DEF CompareAndSwap, Value
  <2>2. CASE sum # seen[t]
    BY <1>6, <2>2 DEF CompareAndSwap
  <2> QED BY <2>1, <2>2
<1>7. CASE Unlock(t)
  <2> HIDE DEF r
  <2>1. calls' = [calls EXCEPT ![t] = @ + 1] /\ pc' = [pc EXCEPT ![t] = r]
    BY <1>7 DEF Unlock, AddReturns, r
  <2> QED BY <1>4, <1>7, <2>1 DEF Unlock
<1> QED BY <1>1, <1>2, <1>3, <1>5, <1>6, <1>7 DEF WorkerStep

(* Each action of main preserves the inductive invariant.                   *)
LEMMA MainKeepsIInv ==
  ASSUME IInv, MainStep \/ HandleError
  PROVE  IInv'
<1>1. CASE CreateThread
  <2> DEFINE c == created + 1
             r == Resume(0)
  <2>1. /\ r \in {"lock", "read", "returned"}
        /\ r = "returned" => 0 = 2 * niteratns
        /\ r # "returned" => 0 < 2 * niteratns
        /\ r = "lock" => opt_sync \in {"M", "S"}
        /\ r = "read" => opt_sync \in {"U", "C"}
    BY ResumeLabel DEF IInv
  <2>2. c \in Threads /\ pc' = [pc EXCEPT ![c] = r] /\ created < nthreads
    BY <1>1 DEF CreateThread, Goto, IInv, TypeOK, Threads
  <2> HIDE DEF r
  <2> QED BY <1>1, <2>1, <2>2
          DEF CreateThread, IInv, TypeOK, PcInv, LockInv, MainInv,
              InCriticalSection, Taken, Threads, Running
<1>2. CASE JoinThread
  BY <1>2 DEF JoinThread, IInv, TypeOK, PcInv, LockInv, MainInv,
              InCriticalSection, Taken, Threads
<1>3. CASE Report
  BY <1>3 DEF Report, IInv, TypeOK, PcInv, LockInv, MainInv,
              InCriticalSection, Taken
<1>4. CASE HandleError
  BY <1>4 DEF HandleError, IInv, TypeOK, PcInv, LockInv, MainInv,
              InCriticalSection, Taken
<1> QED BY <1>1, <1>2, <1>3, <1>4 DEF MainStep

LEMMA IInvInductive == IInv /\ [Next]_vars => IInv'
<1> SUFFICES ASSUME IInv, [Next]_vars PROVE IInv'
  OBVIOUS
<1>1. ASSUME NEW t \in Threads, WorkerStep(t) PROVE IInv'
  BY <1>1, WorkerKeepsIInv
<1>2. CASE MainStep \/ HandleError
  BY <1>2, MainKeepsIInv
<1>3. CASE UNCHANGED vars
  BY <1>3 DEF vars, IInv, TypeOK, PcInv, LockInv, MainInv, InCriticalSection,
              Taken
<1> QED BY <1>1, <1>2, <1>3 DEF Next, Terminated

LEMMA Invariance == Spec => []IInv
BY InitIInv, IInvInductive, PTL DEF Spec

(* The variables keep their types for any number of threads, iterations     *)
(* and any set of synchronisation modes.                                    *)
THEOREM TypeCorrect == Spec => []TypeOK
<1>1. IInv => TypeOK
  BY DEF IInv
<1> QED BY <1>1, Invariance, PTL

(* The mutex and the spin lock admit one worker at a time.                  *)
THEOREM Exclusion == Spec => []MutualExclusion
<1>1. IInv => MutualExclusion
  BY DEF IInv, LockInv, MutualExclusion
<1> QED BY <1>1, Invariance, PTL

(* main prints only what no worker can still change.                        *)
THEOREM ReportIsLast == Spec => []NoWorkerOutlivesReport
<1>1. IInv => NoWorkerOutlivesReport
  BY DEF IInv, MainInv, PcInv, TypeOK, NoWorkerOutlivesReport, Threads
<1> QED BY <1>1, Invariance, PTL

-----------------------------------------------------------------------------
(* Refinement.                                                              *)

avars == <<seenSum, adds>>

(* The mode of a process never changes.                                     *)
LEMMA ModeIsFixed == [Next]_vars => opt_sync' = opt_sync
BY DEF Next, MainStep, WorkerStep, MutexLock, TestAndSet, Read, Write,
       CompareAndSwap, Unlock, CreateThread, JoinThread, Report, HandleError,
       Terminated, vars

(* How a step that completes t's addition, or completes none, changes the   *)
(* abstract counter of additions.                                           *)
LEMMA EffectiveStep ==
  ASSUME NEW t \in Threads, Synchronised, Synchronised',
         \A u \in Threads : u # t => Effective(u)' = Effective(u)
  PROVE  /\ Effective(t)' = Effective(t) => adds' = adds
         /\ Effective(t)' = Effective(t) + 1 => adds' = [adds EXCEPT ![t] = @ + 1]
<1> DEFINE old(u) == Effective(u)
           new(u) == Effective(u)'
<1>1. adds = [u \in Threads |-> old(u)] /\ adds' = [u \in Threads |-> new(u)]
  BY DEF adds
<1>2. \A u \in Threads : u # t => new(u) = old(u)
  OBVIOUS
<1> SUFFICES /\ new(t) = old(t) => adds' = adds
             /\ new(t) = old(t) + 1 => adds' = [adds EXCEPT ![t] = @ + 1]
  OBVIOUS
<1> HIDE DEF old, new
<1> QED BY <1>1, <1>2

(* A worker's step is one atomic addition of its next value, or none.       *)
LEMMA WorkerStepIsAtomic ==
  ASSUME IInv, Synchronised, NEW t \in Threads, WorkerStep(t)
  PROVE  Atomic!Add(t) \/ UNCHANGED avars
<1> USE DEF IInv, TypeOK, PcInv, At, Goto, avars
<1>0. Synchronised' /\ (sum' = sum => seenSum' = seenSum) /\ opt_sync # "U"
  BY ModeIsFixed DEF Next, Synchronised, seenSum
<1>1. \A u \in Threads : u # t => Effective(u)' = Effective(u)
  <2>1. \A u \in Threads : u # t => pc'[u] = pc[u] /\ calls'[u] = calls[u]
    BY DEF WorkerStep, MutexLock, TestAndSet, Read, Write, CompareAndSwap,
           Unlock, AddReturns
  <2> QED BY <2>1 DEF Effective
<1>2. CASE pc'[t] \in {"read", "write", "lock"} /\ calls' = calls /\ sum' = sum
           /\ pc[t] # "unlock"
  BY <1>1, <1>2, <1>0, EffectiveStep DEF Effective
<1>3. CASE MutexLock(t) \/ TestAndSet(t) \/ Read(t)
  BY <1>2, <1>3 DEF MutexLock, TestAndSet, Read
<1>4. ASSUME Effective(t)' = Effective(t) + 1, sum' = sum + Value(calls[t]),
             Effective(t) = calls[t], calls[t] < 2 * niteratns
      PROVE  Atomic!Add(t)
  <2>1. adds' = [adds EXCEPT ![t] = @ + 1]
    BY <1>1, <1>4, <1>0, EffectiveStep
  <2>2. adds[t] = calls[t]
    BY <1>4 DEF adds
  <2>3. seenSum' = sum' /\ seenSum = sum
    BY <1>0 DEF seenSum
  <2> QED BY <1>4, <2>1, <2>2, <2>3 DEF Atomic!Add, Atomic!Value, Value
<1>5. CASE Write(t)
  <2>1. sum' = sum + Value(calls[t])
    BY <1>0, <1>5 DEF Write, LockInv
  <2> QED BY <1>0, <1>4, <1>5, <2>1 DEF Write, Effective
<1>6. CASE CompareAndSwap(t)
  <2>1. CASE sum # seen[t]
    BY <1>2, <1>6, <2>1 DEF CompareAndSwap
  <2>2. CASE sum = seen[t]
    <3>1. Resume(calls[t] + 1) # "unlock"
      BY <1>6, ResumeLabel DEF CompareAndSwap
    <3>2. calls'[t] = calls[t] + 1 /\ pc'[t] # "unlock" /\ pc[t] = "write"
      BY <1>6, <2>2, <3>1 DEF CompareAndSwap, AddReturns
    <3> QED BY <1>4, <1>6, <2>2, <3>2 DEF CompareAndSwap, Effective
  <2> QED BY <2>1, <2>2
<1>7. CASE Unlock(t)
  <2>1. Resume(calls[t] + 1) # "unlock"
    BY <1>7, ResumeLabel DEF Unlock
  <2>2. calls'[t] = calls[t] + 1 /\ pc'[t] # "unlock" /\ pc[t] = "unlock"
    BY <1>7, <2>1 DEF Unlock, AddReturns
  <2>3. Effective(t)' = Effective(t)
    BY <2>2 DEF Effective
  <2> QED BY <1>1, <1>7, <2>3, <1>0, EffectiveStep DEF Unlock
<1> QED BY <1>3, <1>5, <1>6, <1>7 DEF WorkerStep

(* main's steps and the end of the process add nothing, and a process       *)
(* without synchronisation is not looked at.                                *)
LEMMA StepIsAtomic ==
  ASSUME IInv, [Next]_vars
  PROVE  [Atomic!Next]_avars
<1>1. CASE ~Synchronised
  <2>1. ~Synchronised'
    BY <1>1, ModeIsFixed DEF Synchronised
  <2> QED BY <1>1, <2>1 DEF avars, seenSum, adds
<1>2. CASE Synchronised
  <2>0. Synchronised'
    BY <1>2, ModeIsFixed DEF Synchronised
  <2>1. ASSUME NEW t \in Threads, WorkerStep(t) PROVE [Atomic!Next]_avars
    BY <1>2, <2>1, WorkerStepIsAtomic
       DEF Atomic!Next, Atomic!Threads, Threads
  <2>2. CASE CreateThread
    <3>1. created + 1 \in Threads
      BY <2>2 DEF CreateThread, IInv, TypeOK, Threads
    <3>2. pc[created + 1] = "unborn"
      BY <3>1, <2>2 DEF IInv, MainInv, TypeOK
    <3>3. Resume(0) # "unlock"
      BY ResumeLabel DEF IInv
    <3>4. \A u \in Threads : Effective(u)' = Effective(u)
      BY <2>2, <3>2, <3>3 DEF CreateThread, Goto, Effective, IInv, TypeOK
    <3> QED BY <1>2, <2>0, <2>2, <3>1, <3>4, EffectiveStep
            DEF CreateThread, avars, seenSum
  <2>3. CASE JoinThread \/ Report \/ HandleError \/ UNCHANGED vars
    BY <2>3 DEF JoinThread, Report, HandleError, vars, avars, adds, Effective,
                seenSum, Synchronised
  <2> QED BY <2>1, <2>2, <2>3 DEF Next, MainStep, Terminated
<1> QED BY <1>1, <1>2

LEMMA InitIsAtomic == Init => Atomic!Init
BY DEF Init, Atomic!Init, Effective, seenSum, adds, Threads, Atomic!Threads

(* lab2_add with a mutex, a spin lock or compare-and-swap implements the    *)
(* specification in which every add() is one atomic step.                   *)
THEOREM Refinement == Spec => AddIsAtomic
<1>1. IInv /\ [Next]_vars => [Atomic!Next]_(Atomic!vars)
  BY StepIsAtomic DEF Atomic!vars, avars
<1> QED BY <1>1, InitIsAtomic, Invariance, PTL DEF Spec, AddIsAtomic, Atomic!Spec

-----------------------------------------------------------------------------
(* What AtomicAdd promises, of the counter and the additions above: the sum *)
(* is always the sum of what the threads have contributed.                  *)

(* A set of naturals that has an element has a least one.                   *)
LEMMA LeastNumber ==
  ASSUME NEW S \in SUBSET Nat, S # {}
  PROVE  \E m \in S : \A n \in S : m <= n
<1>1. IsWellFoundedOn(OpToRel(<, Nat), Nat)
  BY NatLessThanWellFounded
<1>2. PICK m \in S : \A n \in S : ~(<<n, m>> \in OpToRel(<, Nat))
  BY <1>1, WFMin
<1>3. \A n \in S : ~(n < m)
  BY <1>2 DEF OpToRel
<1> QED BY <1>3

LEMMA AtomicInitTypes == Atomic!Init => Atomic!TypeOK
BY DEF Atomic!Init, Atomic!TypeOK, Atomic!Threads

LEMMA AtomicStepTypes == Atomic!TypeOK /\ [Atomic!Next]_avars => Atomic!TypeOK'
<1> SUFFICES ASSUME Atomic!TypeOK, [Atomic!Next]_avars PROVE Atomic!TypeOK'
  OBVIOUS
<1>1. ASSUME NEW t \in Atomic!Threads, Atomic!Add(t) PROVE Atomic!TypeOK'
  BY <1>1 DEF Atomic!TypeOK, Atomic!Add, Atomic!Value
<1>2. CASE UNCHANGED avars
  BY <1>2 DEF Atomic!TypeOK, avars
<1> QED BY <1>1, <1>2 DEF Atomic!Next

(* One more addition of t changes its contribution by the value it adds.    *)
LEMMA ContributionStep ==
  ASSUME NEW n \in 0..(2 * niteratns), n < 2 * niteratns
  PROVE  Atomic!Contribution(n + 1) = Atomic!Contribution(n) + Atomic!Value(n)
BY DEF Atomic!Contribution, Atomic!Value

(* The prefix sums of the threads at and after t move with the addition.    *)
LEMMA AddKeepsSum ==
  ASSUME Atomic!TypeOK, Atomic!SumOfContributions,
         NEW t \in Atomic!Threads, Atomic!Add(t)
  PROVE  Atomic!SumOfContributions'
<1>1. PICK p \in [0..nthreads -> Int] :
         /\ p[0] = 0
         /\ \A k \in Atomic!Threads : p[k] = p[k-1] + Atomic!Contribution(adds[k])
         /\ seenSum = p[nthreads]
  BY DEF Atomic!SumOfContributions
<1> DEFINE v == Atomic!Value(adds[t])
           q == [k \in 0..nthreads |-> IF k < t THEN p[k] ELSE p[k] + v]
<1>2. v \in Int
  BY DEF Atomic!Value
<1>3. q \in [0..nthreads -> Int]
  BY <1>1, <1>2
<1>4. q[0] = 0
  BY <1>1 DEF Atomic!Threads
<1>5. ASSUME NEW k \in Atomic!Threads
      PROVE  q[k] = q[k-1] + Atomic!Contribution(adds'[k])
  <2>1. p[k] = p[k-1] + Atomic!Contribution(adds[k]) /\ p[k] \in Int /\ p[k-1] \in Int
    BY <1>1 DEF Atomic!Threads
  <2>2. Atomic!Contribution(adds[k]) \in Int
    BY DEF Atomic!TypeOK, Atomic!Contribution
  <2>3. CASE k = t
    <3>1. adds'[k] = adds[k] + 1 /\ adds[k] < 2 * niteratns
      BY <2>3 DEF Atomic!Add, Atomic!TypeOK
    <3>2. Atomic!Contribution(adds'[k]) = Atomic!Contribution(adds[k]) + v
      BY <3>1, <2>3, ContributionStep DEF Atomic!TypeOK
    <3>3. q[k] = p[k] + v /\ q[k-1] = p[k-1]
      BY <2>3 DEF Atomic!Threads
    <3> HIDE DEF v, q
    <3> QED BY <3>2, <3>3, <2>1, <2>2, <1>2
  <2>4. CASE k # t
    <3>1. adds'[k] = adds[k]
      BY <2>4 DEF Atomic!Add, Atomic!TypeOK
    <3>2. \/ q[k] = p[k] + v /\ q[k-1] = p[k-1] + v
          \/ q[k] = p[k] /\ q[k-1] = p[k-1]
      BY <2>4 DEF Atomic!Threads
    <3> HIDE DEF v, q
    <3> QED BY <3>1, <3>2, <2>1, <2>2, <1>2
  <2> QED BY <2>3, <2>4
<1>6. seenSum' = q[nthreads]
  BY <1>1 DEF Atomic!Add, Atomic!Threads
<1> QED BY <1>3, <1>4, <1>5, <1>6 DEF Atomic!SumOfContributions

LEMMA AtomicInitHolds == Atomic!Init => Atomic!TypeOK /\ Atomic!SumOfContributions
<1> SUFFICES ASSUME Atomic!Init PROVE Atomic!SumOfContributions
  BY AtomicInitTypes
<1> DEFINE p == [k \in 0..nthreads |-> 0]
<1>1. p \in [0..nthreads -> Int] /\ p[0] = 0 /\ seenSum = p[nthreads]
  BY DEF Atomic!Init
<1>2. ASSUME NEW k \in Atomic!Threads PROVE p[k] = p[k-1] + Atomic!Contribution(adds[k])
  BY DEF Atomic!Init, Atomic!Threads, Atomic!Contribution
<1> QED BY <1>1, <1>2 DEF Atomic!SumOfContributions

LEMMA AtomicStepKeeps ==
  Atomic!TypeOK /\ Atomic!SumOfContributions /\ [Atomic!Next]_avars
    => Atomic!TypeOK' /\ Atomic!SumOfContributions'
<1> SUFFICES ASSUME Atomic!TypeOK, Atomic!SumOfContributions, [Atomic!Next]_avars
             PROVE  Atomic!SumOfContributions'
  BY AtomicStepTypes
<1>1. CASE Atomic!Next
  BY <1>1, AddKeepsSum DEF Atomic!Next
<1>2. CASE UNCHANGED avars
  BY <1>2 DEF Atomic!SumOfContributions, avars
<1> QED BY <1>1, <1>2

(* Completed additions contribute nothing, so all prefix sums are 0: the    *)
(* first that is not would have to differ from its predecessor.             *)
LEMMA SumImpliesCancels ==
  ASSUME Atomic!SumOfContributions
  PROVE  Atomic!Cancels
<1> SUFFICES ASSUME \A t \in Atomic!Threads : adds[t] = 2 * niteratns
             PROVE  seenSum = 0
  BY DEF Atomic!Cancels
<1>1. PICK p \in [0..nthreads -> Int] :
         /\ p[0] = 0
         /\ \A k \in Atomic!Threads : p[k] = p[k-1] + Atomic!Contribution(adds[k])
         /\ seenSum = p[nthreads]
  BY DEF Atomic!SumOfContributions
<1>2. \A k \in Atomic!Threads : p[k] = p[k-1]
  BY <1>1 DEF Atomic!Threads, Atomic!Contribution
<1> DEFINE S == {k \in 0..nthreads : p[k] # 0}
<1>3. ASSUME S # {} PROVE FALSE
  <2>0. S \in SUBSET Nat
    OBVIOUS
  <2>1. PICK m \in S : \A n \in S : m <= n
    <3> HIDE DEF S
    <3> QED BY <1>3, <2>0, LeastNumber
  <2>2. m \in Atomic!Threads /\ m - 1 \notin S /\ m - 1 \in 0..nthreads
    BY <2>1, <1>1 DEF Atomic!Threads
  <2> QED BY <2>1, <2>2, <1>2
<1> QED BY <1>1, <1>3

(* Once every atomic addition is made, the counter is 0 again.              *)
THEOREM AdditionsCancel == Atomic!Spec => []Atomic!Cancels
BY AtomicInitHolds, AtomicStepKeeps, SumImpliesCancels, PTL DEF Atomic!Spec, Atomic!vars, avars

-----------------------------------------------------------------------------
(* The invariant of the atomic specification carries over.                  *)
SumInv == Atomic!TypeOK /\ Atomic!SumOfContributions

LEMMA SumInvariance == Spec => []SumInv
<1>1. Init => SumInv
  BY InitIsAtomic, AtomicInitHolds DEF SumInv
<1>2. IInv /\ SumInv /\ [Next]_vars => SumInv'
  BY StepIsAtomic, AtomicStepKeeps DEF SumInv
<1> QED BY <1>1, <1>2, Invariance, PTL DEF Spec

(* A synchronised run of lab2_add that exits normally prints 0.             *)
THEOREM SumIsZero == Spec => []SynchronisedSumIsZero
<1>1. IInv /\ SumInv => SynchronisedSumIsZero
  <2> SUFFICES ASSUME IInv, SumInv, exit = 0, opt_sync # "U" PROVE sum = 0
    BY DEF SynchronisedSumIsZero
  <2>1. \A t \in Threads : adds[t] = 2 * niteratns
    BY DEF IInv, MainInv, PcInv, TypeOK, Threads, Effective, adds, Synchronised
  <2>2. Atomic!Cancels
    BY SumImpliesCancels DEF SumInv
  <2> QED BY <2>1, <2>2
          DEF Atomic!Cancels, Threads, Atomic!Threads, seenSum, Synchronised
<1> QED BY <1>1, Invariance, SumInvariance, PTL

-----------------------------------------------------------------------------
(* Without synchronisation: the bounds of the race.  They are sums over the *)
(* threads, which MapThenSumSet computes by recursion on the set of those   *)
(* not yet added; first, that such a recursion defines a function.          *)

(* Of the subsets of S that a non-empty X has, one has no smaller one in X. *)
LEMMA LeastSubset ==
  ASSUME NEW S, IsFiniteSet(S), NEW X \in SUBSET SUBSET S, X # {}
  PROVE  \E m \in X : \A n \in SUBSET m : n # m => n \notin X
<1>1. X \subseteq FiniteSubsetsOf(S)
  BY FS_Subset DEF FiniteSubsetsOf
<1>2. IsWellFoundedOn(StrictSubsetOrdering(S), FiniteSubsetsOf(S))
  BY FS_StrictSubsetOrderingWellFounded
<1>3. PICK m \in X : \A n \in X : ~(<<n, m>> \in StrictSubsetOrdering(S))
  BY <1>1, <1>2, WFMin
<1>4. ASSUME NEW n \in SUBSET m, n # m, n \in X
      PROVE  FALSE
  BY <1>3, <1>4 DEF StrictSubsetOrdering
<1> QED BY <1>3, <1>4

(* A fold takes the elements of S in the order in which `choose' picks them *)
(* from what is left.                                                       *)
Chooses(choose, S) == \A s \in SUBSET S : s # {} => choose[s] \in s

IsFold(g, base, op, choose, S) ==
  \A s \in SUBSET S : g[s] = IF s = {} THEN base
                             ELSE op[choose[s], g[s \ {choose[s]}]]

(* The least relation that contains what the fold computes.                 *)
Computes(Q, base, op, choose, S, V) ==
  /\ <<{}, base>> \in Q
  /\ \A s \in SUBSET S, v \in V :
        s # {} /\ <<s \ {choose[s]}, v>> \in Q => <<s, op[choose[s], v]>> \in Q

LEMMA FoldExists ==
  ASSUME NEW S, IsFiniteSet(S), NEW V, NEW base \in V, NEW op \in [S \X V -> V],
         NEW choose, Chooses(choose, S)
  PROVE  \E g \in [SUBSET S -> V] : IsFold(g, base, op, choose, S)
<1> DEFINE C(Q) == Computes(Q, base, op, choose, S, V)
           P == (SUBSET S) \X V
           R == {r \in P : \A Q \in SUBSET P : C(Q) => r \in Q}
           Single(s) == \E v \in V : <<s, v>> \in R /\ \A w \in V : <<s, w>> \in R => w = v
<1>1. C(R)
  <2>1. <<{}, base>> \in R
    BY DEF Computes
  <2>2. ASSUME NEW s \in SUBSET S, NEW v \in V, s # {}, <<s \ {choose[s]}, v>> \in R
        PROVE  <<s, op[choose[s], v]>> \in R
    <3>1. choose[s] \in S /\ op[choose[s], v] \in V
      BY <2>2 DEF Chooses
    <3>2. ASSUME NEW Q \in SUBSET P, C(Q)
          PROVE  <<s, op[choose[s], v]>> \in Q
      BY <2>2, <3>2 DEF Computes
    <3> QED BY <3>1, <3>2
  <2> HIDE DEF R
  <2> QED BY <2>1, <2>2 DEF Computes
<1>2. ASSUME NEW Q \in SUBSET P, C(Q) PROVE R \subseteq Q
  BY <1>2
<1> DEFINE X == {s \in SUBSET S : ~Single(s)}
<1>3. X = {}
  <2> SUFFICES ASSUME X # {} PROVE FALSE
    OBVIOUS
  <2>1. PICK s \in X : \A n \in SUBSET s : n # s => n \notin X
    <3>1. X \in SUBSET SUBSET S
      OBVIOUS
    <3> HIDE DEF X
    <3> QED BY <3>1, LeastSubset
  <2> HIDE DEF R
  <2>2. CASE s = {}
    <3> DEFINE Q == R \ {<<{}, w>> : w \in V \ {base}}
    <3>1. Q \in SUBSET P
      BY DEF R
    <3>2. C(Q)
      BY <1>1, <3>1 DEF Computes
    <3>3. R \subseteq Q
      <4> HIDE DEF Q, C
      <4> QED BY <1>2, <3>1, <3>2
    <3>4. <<{}, base>> \in R
      BY <1>1 DEF Computes
    <3>5. \A w \in V : <<{}, w>> \in R => w = base
      BY <3>3
    <3>6. Single(s)
      BY <2>2, <3>4, <3>5
    <3> QED BY <2>1, <3>6
  <2>3. CASE s # {}
    <3> DEFINE x == choose[s]
               t == s \ {x}
    <3>1. x \in s /\ t \in SUBSET s /\ t # s /\ t \in SUBSET S /\ x \in S
      BY <2>3 DEF Chooses
    <3>2. PICK v \in V : <<t, v>> \in R /\ \A w \in V : <<t, w>> \in R => w = v
      <4> HIDE DEF t
      <4> QED BY <2>1, <3>1
    <3>3. <<s, op[x, v]>> \in R /\ op[x, v] \in V
      BY <1>1, <2>3, <3>1, <3>2 DEF Computes
    <3> DEFINE Q == R \ {<<s, w>> : w \in V \ {op[x, v]}}
    <3>4. Q \in SUBSET P
      BY DEF R
    <3>5. <<{}, base>> \in Q
      BY <1>1, <2>3 DEF Computes
    <3>6. ASSUME NEW z \in SUBSET S, NEW w \in V, z # {}, <<z \ {choose[z]}, w>> \in Q
          PROVE  <<z, op[choose[z], w]>> \in Q
      <4>1. <<z, op[choose[z], w]>> \in R
        BY <1>1, <3>6 DEF Computes
      <4>2. z = s => w = v
        BY <3>2, <3>6
      <4> QED BY <4>1, <4>2
    <3>7. C(Q)
      <4> HIDE DEF Q
      <4> QED BY <3>5, <3>6 DEF Computes
    <3>8. R \subseteq Q
      BY <1>2, <3>4, <3>7
    <3>9. \A w \in V : <<s, w>> \in R => w = op[x, v]
      BY <3>8
    <3> QED BY <2>1, <3>3, <3>9
  <2> QED BY <2>2, <2>3
<1> DEFINE val(s) == CHOOSE v \in V : <<s, v>> \in R
           g == [s \in SUBSET S |-> val(s)]
<1>4. \A s \in SUBSET S : Single(s)
  BY <1>3
<1> HIDE DEF R
<1>5. \A s \in SUBSET S : val(s) \in V /\ <<s, val(s)>> \in R /\ \A w \in V : <<s, w>> \in R => w = val(s)
  BY <1>4
<1> HIDE DEF val
<1>6. g \in [SUBSET S -> V]
  BY <1>5
<1>7. ASSUME NEW s \in SUBSET S
      PROVE  g[s] = IF s = {} THEN base ELSE op[choose[s], g[s \ {choose[s]}]]
  <2>1. CASE s = {}
    <3>1. <<{}, base>> \in R
      BY <1>1 DEF Computes
    <3> QED BY <1>5, <2>1, <3>1
  <2>2. CASE s # {}
    <3> DEFINE t == s \ {choose[s]}
    <3>1. t \in SUBSET S /\ choose[s] \in S
      BY <2>2 DEF Chooses
    <3>2. <<t, val(t)>> \in R /\ val(t) \in V
      BY <1>5, <3>1
    <3>3. <<s, op[choose[s], val(t)]>> \in R /\ op[choose[s], val(t)] \in V
      BY <1>1, <2>2, <3>1, <3>2 DEF Computes
    <3>4. val(s) = op[choose[s], val(t)]
      BY <1>5, <3>3
    <3> QED BY <2>2, <3>1, <3>4
  <2> QED BY <2>1, <2>2
<1> HIDE DEF g
<1> QED BY <1>6, <1>7 DEF IsFold

-----------------------------------------------------------------------------
First(s) == CHOOSE x \in s : TRUE

(* g adds the values of f over sets of threads, as MapThenSumSet does.      *)
Sums(g, f) ==
  \A s \in SUBSET Threads :
     g[s] = IF s = {} THEN 0 ELSE f[First(s)] + g[s \ {First(s)}]

LEMMA ThreadsAreFinite == IsFiniteSet(Threads)
<1>1. 1 \in Int /\ nthreads \in Int
  OBVIOUS
<1> QED BY <1>1, FS_Interval, Zenon DEF Threads

LEMMA SumExists ==
  ASSUME NEW f \in [Threads -> Int]
  PROVE  \E g \in [SUBSET Threads -> Int] : Sums(g, f)
<1> DEFINE op == [p \in Threads \X Int |-> f[p[1]] + p[2]]
           choose == [s \in SUBSET Threads |-> First(s)]
<1>1. op \in [Threads \X Int -> Int]
  OBVIOUS
<1>2. \A s \in SUBSET Threads : s # {} => First(s) \in s
  BY DEF First
<1>3. Chooses(choose, Threads)
  BY <1>2 DEF Chooses
<1>a. \A x \in Threads, v \in Int : op[x, v] = f[x] + v
  OBVIOUS
<1>b. \A s \in SUBSET Threads : choose[s] = First(s)
  OBVIOUS
<1> HIDE DEF op, choose
<1>4. PICK g \in [SUBSET Threads -> Int] : IsFold(g, 0, op, choose, Threads)
  <2>1. 0 \in Int
    OBVIOUS
  <2> QED BY <1>1, <1>3, <2>1, FoldExists, ThreadsAreFinite
<1>5. ASSUME NEW s \in SUBSET Threads
      PROVE  g[s] = IF s = {} THEN 0 ELSE f[First(s)] + g[s \ {First(s)}]
  <2>1. CASE s = {}
    BY <1>4, <2>1 DEF IsFold
  <2>2. CASE s # {}
    <3>1. choose[s] = First(s) /\ First(s) \in Threads /\ g[s \ {First(s)}] \in Int
      BY <1>2, <1>b, <2>2
    <3>2. g[s] = op[choose[s], g[s \ {choose[s]}]]
      BY <1>4, <2>2 DEF IsFold
    <3>3. op[First(s), g[s \ {First(s)}]] = f[First(s)] + g[s \ {First(s)}]
      BY <1>a, <3>1
    <3> QED BY <2>2, <3>1, <3>2, <3>3
  <2> QED BY <2>1, <2>2
<1> QED BY <1>5 DEF Sums

(* One value of f changes by d, and so does its sum.                        *)
LEMMA SumStep ==
  ASSUME NEW f1 \in [Threads -> Int], NEW f2 \in [Threads -> Int], NEW d \in Int,
         NEW t \in Threads, f2[t] = f1[t] + d,
         \A u \in Threads : u # t => f2[u] = f1[u],
         NEW g1, NEW g2, Sums(g1, f1), Sums(g2, f2)
  PROVE  g1[Threads] \in Int /\ g2[Threads] = g1[Threads] + d
<1> DEFINE Good(s) == g1[s] \in Int /\ g2[s] = g1[s] + (IF t \in s THEN d ELSE 0)
           X == {s \in SUBSET Threads : ~Good(s)}
<1>1. X = {}
  <2> SUFFICES ASSUME X # {} PROVE FALSE
    OBVIOUS
  <2>1. PICK s \in X : \A n \in SUBSET s : n # s => n \notin X
    <3>1. X \in SUBSET SUBSET Threads
      OBVIOUS
    <3> HIDE DEF X
    <3> QED BY <3>1, LeastSubset, ThreadsAreFinite
  <2>2. CASE s = {}
    <3>1. g1[s] = 0 /\ g2[s] = 0
      BY <2>2 DEF Sums
    <3> QED BY <2>1, <2>2, <3>1
  <2>3. CASE s # {}
    <3>1. PICK x : x = First(s)
      OBVIOUS
    <3>2. x \in s /\ s \ {x} \in SUBSET s /\ s \ {x} # s /\ s \ {x} \in SUBSET Threads
      BY <2>1, <2>3, <3>1 DEF First
    <3>3. Good(s \ {x})
      <4> HIDE DEF Good
      <4> QED BY <2>1, <3>2
    <3>4. g1[s] = f1[x] + g1[s \ {x}] /\ g2[s] = f2[x] + g2[s \ {x}]
      BY <2>1, <2>3, <3>1 DEF Sums
    <3>5. f1[x] \in Int /\ f2[x] \in Int
      BY <3>2
    <3>6. Good(s)
      <4>1. CASE x = t
        BY <3>2, <3>3, <3>4, <3>5, <4>1
      <4>2. CASE x # t
        BY <3>2, <3>3, <3>4, <3>5, <4>2
      <4> QED BY <4>1, <4>2
    <3> QED BY <2>1, <3>6
  <2> QED BY <2>2, <2>3
<1>2. Good(Threads)
  BY <1>1
<1> QED BY <1>2

LEMMA SumOfNothing ==
  ASSUME NEW f \in [Threads -> Int], \A t \in Threads : f[t] = 0, NEW g, Sums(g, f)
  PROVE  g[Threads] = 0
<1> DEFINE X == {s \in SUBSET Threads : g[s] # 0}
<1>1. X = {}
  <2> SUFFICES ASSUME X # {} PROVE FALSE
    OBVIOUS
  <2>1. PICK s \in X : \A n \in SUBSET s : n # s => n \notin X
    <3>1. X \in SUBSET SUBSET Threads
      OBVIOUS
    <3> HIDE DEF X
    <3> QED BY <3>1, LeastSubset, ThreadsAreFinite
  <2>2. s # {}
    BY <2>1 DEF Sums
  <2>3. PICK x : x = First(s)
    OBVIOUS
  <2>4. x \in s /\ s \ {x} \in SUBSET s /\ s \ {x} # s /\ s \ {x} \in SUBSET Threads
    BY <2>1, <2>2, <2>3 DEF First
  <2>5. g[s] = f[x] + g[s \ {x}]
    BY <2>1, <2>2, <2>3 DEF Sums
  <2>6. g[s \ {x}] = 0
    BY <2>1, <2>4
  <2> QED BY <2>1, <2>4, <2>5, <2>6
<1> QED BY <1>1

Ups == [t \in Threads |-> Up(t)]
Downs == [t \in Threads |-> Down(t)]

IsSum(v, f) == \E g : Sums(g, f) /\ v = g[Threads]

UpsAreSummed == IsSum(MapThenSumSet(Up, Threads), Ups)
DownsAreSummed == IsSum(MapThenSumSet(Down, Threads), Downs)

LEMMA EffectiveIsNat == TypeOK => \A t \in Threads : Effective(t) \in Nat
BY DEF TypeOK, Effective

LEMMA UpsSum == ASSUME TypeOK PROVE UpsAreSummed
<1> DEFINE body(g) == [s \in SUBSET Threads |->
              IF s = {} THEN 0 ELSE Up(First(s)) + g[s \ {First(s)}]]
           G == CHOOSE g : g = body(g)
<1>1. Ups \in [Threads -> Int]
  <2>1. \A t \in Threads : Up(t) \in Int
    <3> TAKE t \in Threads
    <3>1. Effective(t) \in Int /\ niteratns \in Int
      BY EffectiveIsNat
    <3> QED BY <3>1 DEF Up
  <2> QED BY <2>1 DEF Ups
<1>2. PICK g \in [SUBSET Threads -> Int] : Sums(g, Ups)
  BY <1>1, SumExists
<1>3. \A s \in SUBSET Threads : s # {} => Ups[First(s)] = Up(First(s))
  BY DEF Ups, First
<1>4. \A s \in SUBSET Threads : g[s] = body(g)[s]
  BY <1>2, <1>3 DEF Sums
<1>5. g = body(g)
  <2>1. g = [s \in SUBSET Threads |-> g[s]] /\ body(g) = [s \in SUBSET Threads |-> body(g)[s]]
    OBVIOUS
  <2> HIDE DEF body
  <2> QED BY <1>4, <2>1
<1>6. G = body(G)
  <2> HIDE DEF body
  <2> QED BY <1>5
<1>7. Sums(G, Ups)
  <2> HIDE DEF G
  <2>1. \A s \in SUBSET Threads :
           body(G)[s] = IF s = {} THEN 0 ELSE Up(First(s)) + G[s \ {First(s)}]
    OBVIOUS
  <2> HIDE DEF body
  <2> QED BY <1>3, <1>6, <2>1 DEF Sums
<1>8. MapThenSumSet(Up, Threads) = G[Threads]
  BY DEF MapThenSumSet, MapThenFoldSet, First
<1> HIDE DEF G
<1> QED BY <1>7, <1>8 DEF UpsAreSummed, IsSum

LEMMA DownsSum == ASSUME TypeOK PROVE DownsAreSummed
<1> DEFINE body(g) == [s \in SUBSET Threads |->
              IF s = {} THEN 0 ELSE Down(First(s)) + g[s \ {First(s)}]]
           G == CHOOSE g : g = body(g)
<1>1. Downs \in [Threads -> Int]
  <2>1. \A t \in Threads : Down(t) \in Int
    <3> TAKE t \in Threads
    <3>1. Effective(t) \in Int /\ niteratns \in Int
      BY EffectiveIsNat
    <3> QED BY <3>1 DEF Down, Up
  <2> QED BY <2>1 DEF Downs
<1>2. PICK g \in [SUBSET Threads -> Int] : Sums(g, Downs)
  BY <1>1, SumExists
<1>3. \A s \in SUBSET Threads : s # {} => Downs[First(s)] = Down(First(s))
  BY DEF Downs, First
<1>4. \A s \in SUBSET Threads : g[s] = body(g)[s]
  BY <1>2, <1>3 DEF Sums
<1>5. g = body(g)
  <2>1. g = [s \in SUBSET Threads |-> g[s]] /\ body(g) = [s \in SUBSET Threads |-> body(g)[s]]
    OBVIOUS
  <2> HIDE DEF body
  <2> QED BY <1>4, <2>1
<1>6. G = body(G)
  <2> HIDE DEF body
  <2> QED BY <1>5
<1>7. Sums(G, Downs)
  <2> HIDE DEF G
  <2>1. \A s \in SUBSET Threads :
           body(G)[s] = IF s = {} THEN 0 ELSE Down(First(s)) + G[s \ {First(s)}]
    OBVIOUS
  <2> HIDE DEF body
  <2> QED BY <1>3, <1>6, <2>1 DEF Sums
<1>8. MapThenSumSet(Down, Threads) = G[Threads]
  BY DEF MapThenSumSet, MapThenFoldSet, First
<1> HIDE DEF G
<1> QED BY <1>7, <1>8 DEF DownsAreSummed, IsSum

Increments == MapThenSumSet(Up, Threads)
Decrements == MapThenSumSet(Down, Threads)

LEMMA CountedSums ==
  TypeOK => /\ Ups \in [Threads -> Int] /\ Downs \in [Threads -> Int]
            /\ UpsAreSummed /\ DownsAreSummed
<1> SUFFICES ASSUME TypeOK PROVE Ups \in [Threads -> Int] /\ Downs \in [Threads -> Int]
  BY UpsSum, DownsSum
<1>1. \A t \in Threads : Up(t) \in Int /\ Down(t) \in Int
  <2> TAKE t \in Threads
  <2>1. Effective(t) \in Int /\ niteratns \in Int
    BY EffectiveIsNat
  <2> QED BY <2>1 DEF Up, Down
<1> QED BY <1>1 DEF Ups, Downs

LEMMA CountedSumsNext ==
  TypeOK' => /\ Ups' \in [Threads -> Int] /\ Downs' \in [Threads -> Int]
             /\ UpsAreSummed' /\ DownsAreSummed'
<1>1. TypeOK' => (/\ Ups \in [Threads -> Int] /\ Downs \in [Threads -> Int]
                  /\ UpsAreSummed /\ DownsAreSummed)'
  BY CountedSums, PTL
<1> QED BY <1>1

LEMMA SumsMove ==
  ASSUME NEW a \in [Threads -> Int], NEW b \in [Threads -> Int], NEW d \in Int,
         NEW t \in Threads, b[t] = a[t] + d, \A u \in Threads : u # t => b[u] = a[u],
         NEW p, NEW q, IsSum(p, a), IsSum(q, b)
  PROVE  p \in Int /\ q = p + d
<1>1. PICK g : Sums(g, a) /\ p = g[Threads]
  BY DEF IsSum
<1>2. PICK k : Sums(k, b) /\ q = k[Threads]
  BY DEF IsSum
<1> QED BY <1>1, <1>2, SumStep

(* An addition that takes effect is counted on its side; nothing else is.   *)
LEMMA CountsMove ==
  ASSUME TypeOK, TypeOK', NEW t \in Threads, NEW e \in {0, 1},
         Effective(t)' = Effective(t) + e,
         \A u \in Threads : u # t => Effective(u)' = Effective(u)
  PROVE  /\ Increments \in Int /\ Decrements \in Int
         /\ e = 0 => Increments' = Increments /\ Decrements' = Decrements
         /\ e = 1 /\ Effective(t) < niteratns
              => Increments' = Increments + 1 /\ Decrements' = Decrements
         /\ e = 1 /\ ~(Effective(t) < niteratns)
              => Increments' = Increments /\ Decrements' = Decrements + 1
<1>1. PICK a, b, p, q : a = Ups /\ b = Ups' /\ p = Increments /\ q = Increments'
  OBVIOUS
<1>2. PICK c, d, r, s : c = Downs /\ d = Downs' /\ r = Decrements /\ s = Decrements'
  OBVIOUS
<1>3. /\ a \in [Threads -> Int] /\ b \in [Threads -> Int]
      /\ IsSum(p, a) /\ IsSum(q, b)
  BY <1>1, CountedSums, CountedSumsNext DEF UpsAreSummed, Increments
<1>4. /\ c \in [Threads -> Int] /\ d \in [Threads -> Int]
      /\ IsSum(r, c) /\ IsSum(s, d)
  BY <1>2, CountedSums, CountedSumsNext DEF DownsAreSummed, Decrements
<1>5. \A u \in Threads : u # t => b[u] = a[u] /\ d[u] = c[u]
  BY <1>1, <1>2 DEF Ups, Downs, Up, Down
<1>6. a[t] = Up(t) /\ c[t] = Down(t) /\ b[t] = Up(t)' /\ d[t] = Down(t)'
  BY <1>1, <1>2 DEF Ups, Downs
<1>7. Effective(t) \in Int /\ niteratns \in Int
  BY EffectiveIsNat
<1>8. ASSUME NEW m \in Int, b[t] = a[t] + m PROVE p \in Int /\ q = p + m
  BY <1>3, <1>5, <1>8, SumsMove
<1>9. ASSUME NEW m \in Int, d[t] = c[t] + m PROVE r \in Int /\ s = r + m
  BY <1>4, <1>5, <1>9, SumsMove
<1>10. CASE e = 0
  <2>1. b[t] = a[t] + 0 /\ d[t] = c[t] + 0
    BY <1>6, <1>7, <1>10 DEF Up, Down
  <2>2. p \in Int /\ q = p + 0 /\ r \in Int /\ s = r + 0
    BY <1>8, <1>9, <2>1
  <2> QED BY <1>1, <1>2, <1>10, <2>2
<1>11. CASE e = 1 /\ Effective(t) < niteratns
  <2>1. b[t] = a[t] + 1 /\ d[t] = c[t] + 0
    BY <1>6, <1>7, <1>11 DEF Up, Down
  <2>2. p \in Int /\ q = p + 1 /\ r \in Int /\ s = r + 0
    BY <1>8, <1>9, <2>1
  <2> QED BY <1>1, <1>2, <1>11, <2>2
<1>12. CASE e = 1 /\ ~(Effective(t) < niteratns)
  <2>1. b[t] = a[t] + 0 /\ d[t] = c[t] + 1
    BY <1>6, <1>7, <1>12 DEF Up, Down
  <2>2. p \in Int /\ q = p + 0 /\ r \in Int /\ s = r + 1
    BY <1>8, <1>9, <2>1
  <2> QED BY <1>1, <1>2, <1>12, <2>2
<1> QED BY <1>10, <1>11, <1>12

(* What a worker still holds of the counter is between the bounds too.      *)
RaceInv ==
  /\ Increments \in Int /\ Decrements \in Int
  /\ sum \in -Decrements..Increments
  /\ \A t \in Threads : seen[t] \in -Decrements..Increments

LEMMA InitRaceInv == Init => RaceInv
<1> SUFFICES ASSUME Init PROVE RaceInv
  OBVIOUS
<1>1. TypeOK
  BY InitIInv DEF IInv
<1>2. \A t \in Threads : Effective(t) = 0
  BY DEF Init, Effective
<1>3. \A t \in Threads : Ups[t] = 0 /\ Downs[t] = 0
  BY <1>2 DEF Ups, Downs, Up, Down
<1>4. Increments = 0
  BY <1>1, <1>3, CountedSums, SumOfNothing DEF UpsAreSummed, IsSum, Increments
<1>5. Decrements = 0
  BY <1>1, <1>3, CountedSums, SumOfNothing DEF DownsAreSummed, IsSum, Decrements
<1> QED BY <1>4, <1>5 DEF Init, RaceInv

(* What a step of a worker does to the counter, to its own last reading and *)
(* to the number of its additions.                                          *)
LEMMA WorkerEffect ==
  ASSUME IInv, NEW t \in Threads, WorkerStep(t)
  PROVE  /\ \A u \in Threads : u # t => Effective(u)' = Effective(u) /\ seen'[u] = seen[u]
         /\ \/ /\ sum' = sum /\ Effective(t)' = Effective(t)
               /\ seen'[t] \in {seen[t], sum}
            \/ /\ sum' = seen[t] + Value(Effective(t)) /\ Effective(t)' = Effective(t) + 1
               /\ seen' = seen
<1> USE DEF IInv, TypeOK, PcInv, At, Goto
<1>1. \A u \in Threads : u # t => Effective(u)' = Effective(u) /\ seen'[u] = seen[u]
  <2>1. \A u \in Threads : u # t => pc'[u] = pc[u] /\ calls'[u] = calls[u] /\ seen'[u] = seen[u]
    BY DEF WorkerStep, MutexLock, TestAndSet, Read, Write, CompareAndSwap, Unlock, AddReturns
  <2> QED BY <2>1 DEF Effective
<1>2. CASE MutexLock(t) \/ TestAndSet(t)
  BY <1>1, <1>2 DEF MutexLock, TestAndSet, Effective
<1>3. CASE Read(t)
  BY <1>1, <1>3 DEF Read, Effective
<1>4. CASE Write(t)
  <2>1. /\ sum' = seen[t] + Value(calls[t]) /\ seen' = seen /\ Effective(t) = calls[t]
        /\ calls[t] \in Int
    BY <1>4 DEF Write, Effective
  <2>2. CASE opt_sync = "U"
    <3>1. calls'[t] = calls[t] + 1 /\ pc'[t] # "unlock"
      BY <1>4, <2>2, ResumeLabel DEF Write, AddReturns
    <3> QED BY <1>1, <2>1, <3>1 DEF Effective
  <2>3. CASE opt_sync # "U"
    <3>1. calls' = calls /\ pc'[t] = "unlock"
      BY <1>4, <2>3 DEF Write
    <3> QED BY <1>1, <2>1, <3>1 DEF Effective
  <2> QED BY <2>2, <2>3
<1>5. CASE CompareAndSwap(t)
  <2>1. CASE sum # seen[t]
    BY <1>1, <1>5, <2>1 DEF CompareAndSwap, Effective
  <2>2. CASE sum = seen[t]
    <3>1. /\ calls'[t] = calls[t] + 1 /\ pc'[t] # "unlock" /\ pc[t] = "write"
          /\ sum' = seen[t] + Value(calls[t]) /\ seen' = seen /\ calls[t] \in Int
      BY <1>5, <2>2, ResumeLabel DEF CompareAndSwap, AddReturns
    <3> QED BY <1>1, <3>1 DEF Effective
  <2> QED BY <2>1, <2>2
<1>6. CASE Unlock(t)
  <2>1. /\ calls'[t] = calls[t] + 1 /\ pc'[t] # "unlock" /\ pc[t] = "unlock"
        /\ sum' = sum /\ seen' = seen
    BY <1>6, ResumeLabel DEF Unlock, AddReturns
  <2> QED BY <1>1, <2>1 DEF Effective
<1> QED BY <1>2, <1>3, <1>4, <1>5, <1>6 DEF WorkerStep

LEMMA WorkerKeepsRaceInv ==
  ASSUME IInv, RaceInv, NEW t \in Threads, WorkerStep(t)
  PROVE  RaceInv'
<1>1. TypeOK /\ TypeOK'
  <2>1. IInv'
    BY WorkerKeepsIInv
  <2> QED BY <2>1 DEF IInv
<1>2. PICK w, n, i, d, s : w = seen[t] /\ n = Effective(t) /\ i = Increments
                           /\ d = Decrements /\ s = sum
  OBVIOUS
<1>3. i \in Int /\ d \in Int /\ w \in -d..i /\ s \in -d..i /\ n \in Nat /\ niteratns \in Nat
  BY <1>1, <1>2, EffectiveIsNat DEF RaceInv
<1>4. CASE sum' = s /\ Effective(t)' = n /\ seen'[t] \in {w, s}
  <2>1. Effective(t)' = Effective(t) + 0
    BY <1>2, <1>3, <1>4
  <2>2. Increments' = i /\ Decrements' = d
    BY <1>1, <1>2, <2>1, CountsMove, WorkerEffect
  <2>3. \A u \in Threads : seen'[u] \in -d..i
    BY <1>2, <1>3, <1>4, WorkerEffect DEF RaceInv
  <2> QED BY <1>3, <1>4, <2>2, <2>3 DEF RaceInv
<1>5. CASE sum' = w + Value(n) /\ Effective(t)' = n + 1 /\ seen' = seen
  <2>1. \A u \in Threads : seen'[u] \in -d..i
    BY <1>2, <1>5 DEF RaceInv
  <2>2. CASE n < niteratns
    <3>1. Increments' = i + 1 /\ Decrements' = d
      BY <1>1, <1>2, <1>5, <2>2, CountsMove, WorkerEffect
    <3>2. sum' = w + 1
      BY <1>5, <2>2 DEF Value
    <3>3. sum' \in -d..(i + 1) /\ i + 1 \in Int /\ \A u \in Threads : seen'[u] \in -d..(i + 1)
      BY <1>3, <2>1, <3>2
    <3> QED BY <1>3, <3>1, <3>3 DEF RaceInv
  <2>3. CASE ~(n < niteratns)
    <3>1. Increments' = i /\ Decrements' = d + 1
      BY <1>1, <1>2, <1>5, <2>3, CountsMove, WorkerEffect
    <3>2. sum' = w - 1
      BY <1>3, <1>5, <2>3 DEF Value
    <3>3. sum' \in -(d + 1)..i /\ d + 1 \in Int /\ \A u \in Threads : seen'[u] \in -(d + 1)..i
      BY <1>3, <2>1, <3>2
    <3> QED BY <1>3, <3>1, <3>3 DEF RaceInv
  <2> QED BY <2>2, <2>3
<1> QED BY <1>2, <1>4, <1>5, WorkerEffect

LEMMA StepRaceInv == IInv /\ RaceInv /\ [Next]_vars => RaceInv'
<1> SUFFICES ASSUME IInv, RaceInv, [Next]_vars PROVE RaceInv'
  OBVIOUS
<1>1. ASSUME NEW t \in Threads, WorkerStep(t) PROVE RaceInv'
  BY <1>1, WorkerKeepsRaceInv
<1>2. ASSUME UNCHANGED <<sum, seen>>, \A u \in Threads : Effective(u)' = Effective(u)
      PROVE  RaceInv'
  <2>1. TypeOK /\ TypeOK'
    BY IInvInductive DEF IInv
  <2>2. Increments' = Increments /\ Decrements' = Decrements
    <3>1. CASE Threads = {}
      <4>1. Increments = 0 /\ Decrements = 0
        BY <2>1, <3>1, CountedSums, SumOfNothing
           DEF UpsAreSummed, DownsAreSummed, IsSum, Increments, Decrements
      <4>2. Increments' = 0 /\ Decrements' = 0
        BY <2>1, <3>1, CountedSumsNext, SumOfNothing
           DEF UpsAreSummed, DownsAreSummed, IsSum, Increments, Decrements
      <4> QED BY <4>1, <4>2
    <3>2. ASSUME NEW t \in Threads PROVE Increments' = Increments /\ Decrements' = Decrements
      <4>1. Effective(t)' = Effective(t) + 0
        BY <1>2, <2>1, EffectiveIsNat
      <4> QED BY <1>2, <2>1, <4>1, CountsMove
    <3> QED BY <3>1, <3>2
  <2> QED BY <1>2, <2>2 DEF RaceInv
<1>3. CASE CreateThread
  <2>1. created + 1 \in Threads
    BY <1>3 DEF CreateThread, IInv, TypeOK, Threads
  <2>2. pc[created + 1] = "unborn" /\ Resume(0) # "unlock"
    BY <1>3, <2>1, ResumeLabel DEF IInv, MainInv, TypeOK, CreateThread
  <2>3. \A u \in Threads : Effective(u)' = Effective(u)
    BY <1>3, <2>2 DEF CreateThread, Goto, Effective, IInv, TypeOK
  <2> QED BY <1>2, <1>3, <2>3 DEF CreateThread
<1>4. CASE JoinThread \/ Report \/ HandleError \/ UNCHANGED vars
  BY <1>2, <1>4 DEF JoinThread, Report, HandleError, vars, Effective
<1> QED BY <1>1, <1>3, <1>4 DEF Next, MainStep, Terminated

(* With any mode or none, the counter stays between minus the decrements    *)
(* and the increments that took effect (RaceLosesButNeverInvents).          *)
THEOREM NothingIsInvented == Spec => []RaceLosesButNeverInvents
<1>1. RaceInv => RaceLosesButNeverInvents
  BY DEF RaceInv, RaceLosesButNeverInvents, Increments, Decrements
<1> QED BY <1>1, InitRaceInv, StepRaceInv, Invariance, PTL DEF Spec
=============================================================================
