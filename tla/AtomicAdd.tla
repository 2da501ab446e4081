------------------------------ MODULE AtomicAdd ------------------------------
(***************************************************************************)
(* What the add() functions of lab2_add promise when they are synchronised: *)
(* every call of add(&sum, value) takes effect at one instant.  A thread    *)
(* performs niteratns additions of 1 and then niteratns additions of -1.    *)
(***************************************************************************)
EXTENDS Integers

CONSTANTS nthreads,     \* --threads
          niteratns     \* --iterations

VARIABLES sum,          \* the shared counter
          adds          \* adds[t]: how many additions of thread t took effect

vars == <<sum, adds>>

Threads == 1..nthreads

(* The argument of the (n+1)-th add() call a thread makes.                 *)
Value(n) == IF n < niteratns THEN 1 ELSE -1

(* What n additions of one thread leave in the counter.                    *)
Contribution(n) == IF n <= niteratns THEN n ELSE 2 * niteratns - n

Init == /\ sum = 0
        /\ adds = [t \in Threads |-> 0]

Add(t) == /\ adds[t] < 2 * niteratns
          /\ sum' = sum + Value(adds[t])
          /\ adds' = [adds EXCEPT ![t] = @ + 1]

Next == \E t \in Threads : Add(t)

Spec == Init /\ [][Next]_vars

TypeOK == /\ sum \in Int
          /\ adds \in [Threads -> 0..(2 * niteratns)]

(* p[k] is what threads 1..k have added together: the sum of the           *)
(* contributions written without recursion, so that it can be proved about *)
SumOfContributions ==
  \E p \in [0..nthreads -> Int] :
     /\ p[0] = 0
     /\ \A k \in Threads : p[k] = p[k-1] + Contribution(adds[k])
     /\ sum = p[nthreads]

(* When every thread has made all its additions, they cancel.              *)
Cancels == (\A t \in Threads : adds[t] = 2 * niteratns) => sum = 0
=============================================================================
