------------------------------- MODULE TaskGate -------------------------------
(***************************************************************************)
(* The vocabulary every part of taskgate shares: the seven task statuses,  *)
(* the table of legal transitions, the two parent-failure policies, and    *)
(* the two pure decision functions of deps.go that every broker calls to   *)
(* place a new task and to settle a child when a parent becomes final.     *)
(***************************************************************************)
EXTENDS Integers, FiniteSets, Sequences

Statuses == {"blocked", "pending", "running", "retrying",
             "completed", "failed", "canceled"}

IsFinal(s) == s \in {"completed", "failed", "canceled"}

\* A task in one of these statuses is in its queue, waiting to be claimed.
Queued(s) == s \in {"pending", "retrying"}

legalTransitions ==
  [s \in Statuses |->
     CASE s = "blocked"  -> {"pending", "canceled"}
       [] s = "pending"  -> {"running", "canceled"}
       [] s = "running"  -> {"completed", "failed", "retrying", "canceled", "pending"}
       [] s = "retrying" -> {"running", "canceled"}
       [] OTHER          -> {}]

CanTransition(from, to) == to \in legalTransitions[from]

Policies == {"fail_fast", "ignore_parent_failure"}

-------------------------------------------------------------------------------
(* DecideOnSubmit: the initial status of a task, from the states of its    *)
(* parents.  parents is a sequence of [id, status] records, one for each   *)
(* entry of DependsOn, in which the same id may appear more than once.     *)

ParentBroke(s) == s \in {"failed", "canceled"}

\* The distinct parents that are not final yet (the `seen' map of the code).
NotFinal(parents) ==
  {parents[i].id : i \in {j \in DOMAIN parents : ~IsFinal(parents[j].status)}}

\* Wrong variant of PendingCount: an id written twice is counted twice.
PendingCountNoDedup(parents) ==
  Cardinality({i \in DOMAIN parents : ~IsFinal(parents[i].status)})

PendingCount(parents) == Cardinality(NotFinal(parents))

DecideOnSubmit(parents, policy) ==
  IF /\ policy = "fail_fast"
     /\ \E i \in DOMAIN parents : ParentBroke(parents[i].status)
  THEN [status |-> "canceled", pendingParents |-> 0]
  ELSE IF NotFinal(parents) # {}
  THEN [status |-> "blocked", pendingParents |-> PendingCount(parents)]
  ELSE [status |-> "pending", pendingParents |-> 0]

-------------------------------------------------------------------------------
(* DecideOnParentFinal: what a parent that became final does to one child. *)

Satisfied(parentStatus, policy) ==
  parentStatus = "completed" \/ policy = "ignore_parent_failure"

DecideOnParentFinal(parentStatus, childStatus, policy, pendingParents) ==
  LET left == IF pendingParents > 0 THEN pendingParents - 1 ELSE 0
  IN  IF IsFinal(childStatus) \/ ~IsFinal(parentStatus)
      THEN [pendingParents |-> pendingParents, action |-> "none"]
      ELSE IF ~Satisfied(parentStatus, policy)
      THEN [pendingParents |-> pendingParents, action |-> "cancel"]
      ELSE [pendingParents |-> left,
            action |-> IF left = 0 /\ childStatus = "blocked" THEN "wake" ELSE "none"]
===============================================================================
