---------------------------- MODULE MCDequeueWait -----------------------------
(* Instances of DequeueWait for TLC. *)
EXTENDS DequeueWait

CONSTANTS p1, p2, w1, w2

\* Every waiter runs in the first process; the second only writes.
AllAtP1 == [w \in Waiters |-> p1]

\* Two goroutines compete for the mutex and for the task; on the SQL brokers one
\* caller competes with a transaction that rolls back.
Competing == [memory |-> {w1, w2}, poll |-> {w1, w2}, sql |-> {w1}]
===============================================================================
