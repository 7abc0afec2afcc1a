----------------------------- MODULE TaskLifecycle -----------------------------
(***************************************************************************)
(* What a broker promises about task statuses, with no counters, leases,   *)
(* clocks or indexes: tasks move along the legal transitions one at a time *)
(* (the reaper may move several whose workers are gone), and in the same   *)
(* step every task that is still waiting takes the status its parents      *)
(* dictate.  Because a parent exists before its children, the equation for *)
(* the waiting tasks in Consequences has exactly one solution.             *)
(***************************************************************************)
EXTENDS TaskGate

CONSTANT Tasks

VARIABLES status, parents, policy   \* partial functions on Tasks

vars == <<status, parents, policy>>

Init == status = <<>> /\ parents = <<>> /\ policy = <<>>

\* The status a waiting task must have when st gives the statuses of parents P.
Verdict(P, pol, st) ==
  IF pol = "fail_fast" /\ \E p \in P : ParentBroke(st[p]) THEN "canceled"
  ELSE IF \E p \in P : ~IsFinal(st[p]) THEN "blocked"
  ELSE "pending"

\* Every task not in X keeps its status, unless it waits for parents.
Consequences(X) ==
  \A t \in DOMAIN status \ X :
     status'[t] = IF status[t] = "blocked" THEN Verdict(parents[t], policy[t], status')
                  ELSE status[t]

Create(t) ==
  /\ t \in Tasks \ DOMAIN status
  /\ DOMAIN status' = DOMAIN status \cup {t}
  /\ DOMAIN parents' = DOMAIN status'
  /\ DOMAIN policy' = DOMAIN status'
  /\ parents'[t] \subseteq DOMAIN status
  /\ policy'[t] \in Policies
  /\ status'[t] = Verdict(parents'[t], policy'[t], status)
  /\ \A u \in DOMAIN status : /\ status'[u] = status[u]
                              /\ parents'[u] = parents[u]
                              /\ policy'[u] = policy[u]

\* The tasks of X move on their own account; a waiting task only by a cancel.
Move(X) ==
  /\ DOMAIN status' = DOMAIN status
  /\ \A t \in X : /\ CanTransition(status[t], status'[t])
                  /\ status[t] = "blocked" => status'[t] = "canceled"
  /\ Consequences(X)
  /\ UNCHANGED <<parents, policy>>

\* The reaper moves tasks whose leases ran out, none of them to completed.
Expire(X) ==
  /\ \A t \in X : status[t] = "running" /\ status'[t] \in {"pending", "failed", "canceled"}
  /\ Move(X)

Next ==
  \/ \E t \in Tasks : Create(t)
  \/ \E t \in DOMAIN status : Move({t})
  \/ \E X \in SUBSET DOMAIN status : Expire(X)

Spec == Init /\ [][Next]_vars
===============================================================================
