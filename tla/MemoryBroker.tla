----------------------------- MODULE MemoryBroker -----------------------------
(***************************************************************************)
(* memorybroker: the in-process broker, the reference implementation of    *)
(* the broker contract.  Every method runs in one critical section of b.mu *)
(* so every method is one action; a call that returns an error changes     *)
(* nothing and is left to stuttering.                                      *)
(*                                                                         *)
(* Abstracted: payloads, results, error texts, the task type and the       *)
(* CreatedAt/StartedAt/FinishedAt stamps (nothing in the broker branches   *)
(* on them); the children index of a record, which Enqueue keeps equal to  *)
(* the inverse of dependsOn.  setStatus's legality check is not a guard    *)
(* here: the property LegalTransitions shows that it never refuses.        *)
(***************************************************************************)
EXTENDS TaskGate, Functions

CONSTANTS
  Tasks,         \* execution ids, ordered like ULIDs
  Keys, NoKey,   \* business keys, and the absence of one
  Queues,        \* queue names
  LeaseTTL,      \* [Queues -> lease length]  (ttlFor)
  LeaseLostMax, ThrottledMax,
  MaxRetries,    \* the MaxRetry values a submitter may ask for
  Delays,        \* distances from now of a RunAt or a retryAt
  Submissions,   \* what submitters ask for: DependsOn lists, policies and keys
  MaxTime,       \* bound: the clock
  MaxClaims      \* bound: lease tokens handed out

ASSUME ConstantsAssumption ==
  /\ Tasks \subseteq Nat \ {0} /\ IsFiniteSet(Tasks)
  /\ NoKey \notin Keys
  /\ LeaseTTL \in [Queues -> Nat \ {0}]
  /\ LeaseLostMax \in Nat \ {0} /\ ThrottledMax \in Nat \ {0}
  /\ MaxRetries \subseteq Nat /\ Delays \subseteq Nat
  /\ Submissions \subseteq [deps : Seq(Tasks), policy : Policies, key : Keys \cup {NoKey}]
  /\ MaxTime \in Nat /\ MaxClaims \in Nat

NoID    == 0
NoToken == 0

VARIABLES
  recs,       \* id -> record, a partial function on Tasks
  chains,     \* business key -> its executions, oldest first
  replayed,   \* the executions that have been replayed
  now,        \* the broker's clock, in milliseconds
  lastToken,  \* lease tokens are 1, 2, 3, ... (fresh ULIDs)
  closed

vars == <<recs, chains, replayed, now, lastToken, closed>>

Record == [status : Statuses, dependsOn : Seq(Tasks), policy : Policies,
           key : Keys \cup {NoKey}, replayOf : Tasks \cup {NoID},
           queue : Queues, maxRetry : Nat, runAt : Nat,
           attempts : Nat, leaseLost : Nat, throttled : Nat,
           pendingParents : Nat, leaseToken : Nat, leaseUntil : Nat,
           cancelRequested : BOOLEAN]

Init ==
  /\ recs = <<>>
  /\ chains = [k \in Keys |-> <<>>]
  /\ replayed = {}
  /\ now = 0
  /\ lastToken = NoToken
  /\ closed = FALSE

-------------------------------------------------------------------------------
(* Records and leases.                                                     *)

Put(id, r) == [t \in DOMAIN recs \cup {id} |-> IF t = id THEN r ELSE recs[t]]

\* The id the ULID generator yields next: above every id in use.
IsFreshID(id) == id \notin DOMAIN recs /\ \A t \in Tasks : t < id => t \in DOMAIN recs

Parents(r) == Range(r.dependsOn)

ClearLease(r) == [r EXCEPT !.leaseToken = NoToken, !.leaseUntil = 0]

HoldsLease(id, token) ==
  /\ id \in DOMAIN recs
  /\ recs[id].status = "running"
  /\ token # NoToken /\ recs[id].leaseToken = token

\* A record that leaves running for a final status.
Finished(r, s) == [ClearLease(r) EXCEPT !.status = s, !.cancelRequested = FALSE]

-------------------------------------------------------------------------------
(* Dependency propagation.  The code walks a work queue of records that    *)
(* became final and settles their direct children; Propagate states the    *)
(* result of the walk: Cascade is the least set of children it cancels,    *)
(* and every other child is settled once against all the parents that      *)
(* became final.  Module Propagation checks the walk against it.           *)

\* What propagateFinal cancels: not final, and running is only flagged.
Cancelable(r) ==
  r.policy = "fail_fast" /\ r.status # "running" /\ CanTransition(r.status, "canceled")

Broken(rs, R) == {p \in R : ParentBroke(rs[p].status)}

CascadeClosed(rs, B, S) ==
  \A c \in DOMAIN rs :
     Cancelable(rs[c]) /\ Parents(rs[c]) \cap (B \cup S) # {} => c \in S

Cascade(rs, R) ==
  {c \in DOMAIN rs :
     \A S \in SUBSET DOMAIN rs : CascadeClosed(rs, Broken(rs, R), S) => c \in S}

\* Wrong variant of Settle: the first parent that ends wakes the child.
SettleEager(r, n, broken) ==
  [r EXCEPT !.pendingParents = IF r.pendingParents > n THEN r.pendingParents - n ELSE 0,
            !.status = IF n > 0 /\ r.status = "blocked" THEN "pending" ELSE @]

\* Child r, n of whose parents became final and count as satisfied; broken
\* when one of the others failed or was canceled under fail_fast.
Settle(r, n, broken) ==
  LET left == IF r.pendingParents > n THEN r.pendingParents - n ELSE 0
  IN  [r EXCEPT !.pendingParents = left,
                !.status = IF n > 0 /\ left = 0 /\ r.status = "blocked" THEN "pending" ELSE @,
                !.cancelRequested = @ \/ (broken /\ r.status = "running")]

\* Wrong variant of Propagate: only the direct children are settled.
PropagateOneLevel(rs, R) ==
  [c \in DOMAIN rs |->
     IF Cancelable(rs[c]) /\ Parents(rs[c]) \cap Broken(rs, R) # {}
     THEN [ClearLease(rs[c]) EXCEPT !.status = "canceled"]
     ELSE IF IsFinal(rs[c].status) THEN rs[c]
     ELSE Settle(rs[c],
                 Cardinality({p \in Parents(rs[c]) \cap R : Satisfied(rs[p].status, rs[c].policy)}),
                 FALSE)]

\* rs: the records with R just written final.
Propagate(rs, R) ==
  LET K == Cascade(rs, R)
      new(c) == Parents(rs[c]) \cap (R \cup K)
      good(c) == {p \in new(c) :
                    Satisfied(IF p \in K THEN "canceled" ELSE rs[p].status, rs[c].policy)}
  IN  [c \in DOMAIN rs |->
         IF c \in K THEN [ClearLease(rs[c]) EXCEPT !.status = "canceled"]
         ELSE IF IsFinal(rs[c].status) THEN rs[c]
         ELSE Settle(rs[c], Cardinality(good(c)), new(c) # good(c))]

-------------------------------------------------------------------------------
(* Submission.                                                             *)

ParentStates(rs, deps) ==
  [i \in DOMAIN deps |-> [id |-> deps[i], status |-> rs[deps[i]].status]]

NewRecord(dec, deps, policy, key, replayOf, queue, maxRetry, runAt) ==
  [status |-> dec.status, dependsOn |-> deps, policy |-> policy,
   key |-> key, replayOf |-> replayOf, queue |-> queue,
   maxRetry |-> maxRetry, runAt |-> runAt,
   attempts |-> 0, leaseLost |-> 0, throttled |-> 0,
   pendingParents |-> dec.pendingParents,
   leaseToken |-> NoToken, leaseUntil |-> 0, cancelRequested |-> FALSE]

Link(key, id) == IF key = NoKey THEN chains ELSE [chains EXCEPT ![key] = Append(@, id)]

\* Wrong variant of KeyIsFree: a key is free again once its newest execution ended.
KeyIsFreeAgain(key) ==
  key # NoKey /\ chains[key] # <<>> =>
     IsFinal(recs[chains[key][Len(chains[key])]].status)

\* A key that has any execution, whatever its status, is refused.
KeyIsFree(key) == key # NoKey => chains[key] = <<>>

Enqueue(id, deps, policy, key, queue, maxRetry, delay) ==
  /\ ~closed
  /\ KeyIsFree(key)
  /\ IsFreshID(id)
  /\ Range(deps) \subseteq DOMAIN recs
  /\ recs' = Put(id, NewRecord(DecideOnSubmit(ParentStates(recs, deps), policy),
                               deps, policy, key, NoID, queue, maxRetry, now + delay))
  /\ chains' = Link(key, id)
  /\ UNCHANGED <<replayed, now, lastToken, closed>>

-------------------------------------------------------------------------------
(* Claiming.                                                               *)

Ready(Q) ==
  {t \in DOMAIN recs : /\ recs[t].queue \in Q
                       /\ Queued(recs[t].status)
                       /\ recs[t].runAt <= now}

\* pickReady's order: earliest RunAt first, then the smallest id.
Earlier(t, u) ==
  recs[t].runAt < recs[u].runAt \/ (recs[t].runAt = recs[u].runAt /\ t < u)

\* Wrong variant of Claimed: one token for all claims of the process.
ClaimedOneToken(r) ==
  [r EXCEPT !.status = "running",
            !.leaseToken = 1,
            !.leaseUntil = now + LeaseTTL[r.queue]]

Claimed(r) ==
  [r EXCEPT !.status = "running",
            !.leaseToken = lastToken + 1,
            !.leaseUntil = now + LeaseTTL[r.queue]]

Dequeue(Q) ==
  /\ ~closed
  /\ lastToken < MaxClaims
  /\ \E t \in Ready(Q) :
       /\ \A u \in Ready(Q) \ {t} : Earlier(t, u)
       /\ recs' = [recs EXCEPT ![t] = Claimed(recs[t])]
  /\ lastToken' = lastToken + 1
  /\ UNCHANGED <<chains, replayed, now, closed>>

-------------------------------------------------------------------------------
(* The holder of a lease reports back.                                     *)

\* Task id goes final as r and its children are settled, in one critical section.
GoFinal(id, r) == recs' = Propagate([recs EXCEPT ![id] = r], {id})

Ack(id, token) ==
  /\ ~closed
  /\ HoldsLease(id, token)
  /\ GoFinal(id, Finished(recs[id], "completed"))
  /\ UNCHANGED <<chains, replayed, now, lastToken, closed>>

FailKinds == {"business", "throttled", "skip"}

\* The record with the counter of this kind of failure moved.
Counted(r, kind) ==
  [r EXCEPT !.attempts  = IF kind = "business" THEN @ + 1 ELSE @,
            !.throttled = IF kind = "throttled" THEN @ + 1 ELSE @]

\* Wrong variant of Exhausted: the throttling limit is off by one.
ExhaustedLate(r, kind) ==
  CASE kind = "business"  -> r.attempts > r.maxRetry
    [] kind = "throttled" -> r.throttled > ThrottledMax
    [] kind = "skip"      -> TRUE

Exhausted(r, kind) ==
  CASE kind = "business"  -> r.attempts > r.maxRetry
    [] kind = "throttled" -> r.throttled >= ThrottledMax
    [] kind = "skip"      -> TRUE

Fail(id, token, kind, delay) ==
  /\ ~closed
  /\ HoldsLease(id, token)
  /\ LET r == Counted(recs[id], kind)
     IN  IF Exhausted(r, kind)
         THEN GoFinal(id, Finished(r, "failed"))
         ELSE recs' = [recs EXCEPT ![id] =
                         [ClearLease(r) EXCEPT !.status = "retrying", !.runAt = now + delay]]
  /\ UNCHANGED <<chains, replayed, now, lastToken, closed>>

\* A worker that was told of the cancellation ends the task.
FinishCanceled(id, token) ==
  /\ ~closed
  /\ HoldsLease(id, token)
  /\ GoFinal(id, Finished(recs[id], "canceled"))
  /\ UNCHANGED <<chains, replayed, now, lastToken, closed>>

Returned(r) == [ClearLease(r) EXCEPT !.status = "pending", !.cancelRequested = FALSE]

\* A worker that shuts down gives the task back, at no cost to its counters.
Requeue(id, token) ==
  /\ ~closed
  /\ HoldsLease(id, token)
  /\ recs' = [recs EXCEPT ![id] = Returned(recs[id])]
  /\ UNCHANGED <<chains, replayed, now, lastToken, closed>>

\* The lease is renewed whether or not the answer is ErrTaskCanceled.
Heartbeat(id, token) ==
  /\ ~closed
  /\ HoldsLease(id, token)
  /\ recs' = [recs EXCEPT ![id].leaseUntil = now + LeaseTTL[recs[id].queue]]
  /\ UNCHANGED <<chains, replayed, now, lastToken, closed>>

-------------------------------------------------------------------------------
(* Cancellation and replay, asked for by anyone.                           *)

\* Wrong variant of Cancel: a final task is canceled as well.
CancelAlways(id) ==
  /\ ~closed
  /\ id \in DOMAIN recs
  /\ IF recs[id].status = "running"
     THEN recs' = [recs EXCEPT ![id].cancelRequested = TRUE]
     ELSE GoFinal(id, [ClearLease(recs[id]) EXCEPT !.status = "canceled"])
  /\ UNCHANGED <<chains, replayed, now, lastToken, closed>>

\* A running task is flagged, any other that is not final ends here.
Cancel(id) ==
  /\ ~closed
  /\ id \in DOMAIN recs
  /\ ~IsFinal(recs[id].status)
  /\ IF recs[id].status = "running"
     THEN recs' = [recs EXCEPT ![id].cancelRequested = TRUE]
     ELSE GoFinal(id, [ClearLease(recs[id]) EXCEPT !.status = "canceled"])
  /\ UNCHANGED <<chains, replayed, now, lastToken, closed>>

\* Wrong variant of Replayable: an execution may be replayed twice.
ReplayableTwice(target, allowCompleted) ==
  /\ IsFinal(recs[target].status)
  /\ recs[target].status = "completed" => allowCompleted

Replayable(target, allowCompleted) ==
  /\ IsFinal(recs[target].status)
  /\ target \notin replayed
  /\ recs[target].status = "completed" => allowCompleted

\* The new execution of target: same key, no parents, due at once.
ReplayTarget(id, target, allowCompleted) ==
  /\ ~closed
  /\ target \in DOMAIN recs
  /\ Replayable(target, allowCompleted)
  /\ IsFreshID(id)
  /\ recs' = Put(id, NewRecord([status |-> "pending", pendingParents |-> 0], <<>>,
                               recs[target].policy, recs[target].key, target,
                               recs[target].queue, recs[target].maxRetry, now))
  /\ chains' = Link(recs[target].key, id)
  /\ replayed' = replayed \cup {target}
  /\ UNCHANGED <<now, lastToken, closed>>

ReplayByID(id, target, allowCompleted) == ReplayTarget(id, target, allowCompleted)

\* By key, the target is the newest execution of the chain.
ReplayByKey(id, key, allowCompleted) ==
  /\ chains[key] # <<>>
  /\ ReplayTarget(id, chains[key][Len(chains[key])], allowCompleted)

-------------------------------------------------------------------------------
(* The reaper.                                                             *)

IsExpired(r) == r.status = "running" /\ r.leaseUntil < now

\* Wrong variant of Reaped: the cancellation flag is dropped with the lease.
ReapedForgetful(r) ==
  [Finished(r, IF r.leaseLost + 1 >= LeaseLostMax THEN "failed" ELSE "pending")
     EXCEPT !.leaseLost = @ + 1]

\* A cancellation asked for is carried out; otherwise the loss is counted.
Reaped(r) ==
  IF r.cancelRequested THEN Finished(r, "canceled")
  ELSE [Finished(r, IF r.leaseLost + 1 >= LeaseLostMax THEN "failed" ELSE "pending")
          EXCEPT !.leaseLost = @ + 1]

\* The expired leases are taken back and the children settled.
ReapLeases(rs) ==
  LET E  == {t \in DOMAIN rs : IsExpired(rs[t])}
      r1 == [t \in DOMAIN rs |-> IF t \in E THEN Reaped(rs[t]) ELSE rs[t]]
  IN  Propagate(r1, {t \in E : IsFinal(r1[t].status)})

\* The defensive pass over blocked tasks: each is decided again from its parents.
Repair(rs) ==
  LET B  == {t \in DOMAIN rs : rs[t].status = "blocked" /\ Parents(rs[t]) \subseteq DOMAIN rs}
      r1 == [t \in DOMAIN rs |->
               IF t \notin B THEN rs[t]
               ELSE LET dec == DecideOnSubmit(ParentStates(rs, rs[t].dependsOn), rs[t].policy)
                    IN  [rs[t] EXCEPT !.status = dec.status,
                                      !.pendingParents = IF dec.status = "canceled" THEN @
                                                         ELSE dec.pendingParents]]
  IN  Propagate(r1, {t \in B : r1[t].status = "canceled"})

ReapExpired ==
  /\ ~closed
  /\ recs' = Repair(ReapLeases(recs))
  /\ UNCHANGED <<chains, replayed, now, lastToken, closed>>

Close ==
  /\ closed' = TRUE
  /\ UNCHANGED <<recs, chains, replayed, now, lastToken>>

\* Time passes.
Tick ==
  /\ now < MaxTime
  /\ now' = now + 1
  /\ UNCHANGED <<recs, chains, replayed, lastToken, closed>>

-------------------------------------------------------------------------------
Submit ==
  \E id \in Tasks, s \in Submissions, queue \in Queues, maxRetry \in MaxRetries, delay \in Delays :
     Enqueue(id, s.deps, s.policy, s.key, queue, maxRetry, delay)

\* Any token ever handed out may come back, however late.
Report ==
  \E id \in Tasks, token \in 1..lastToken :
     \/ Ack(id, token)
     \/ \E kind \in FailKinds, delay \in Delays : Fail(id, token, kind, delay)
     \/ FinishCanceled(id, token)
     \/ Requeue(id, token)
     \/ Heartbeat(id, token)

Replay ==
  \E id \in Tasks, allowCompleted \in BOOLEAN :
     \/ \E target \in Tasks : ReplayByID(id, target, allowCompleted)
     \/ \E key \in Keys : ReplayByKey(id, key, allowCompleted)

Next ==
  \/ Submit
  \/ \E Q \in SUBSET Queues \ {{}} : Dequeue(Q)
  \/ Report
  \/ \E id \in Tasks : Cancel(id)
  \/ Replay
  \/ ReapExpired
  \/ Close
  \/ Tick

Spec == Init /\ [][Next]_vars

-------------------------------------------------------------------------------
(* Properties.                                                             *)

\* A partial function from ids to records in which every parent has a record.
IsStore(rs) ==
  /\ DOMAIN rs \subseteq Tasks
  /\ rs \in [DOMAIN rs -> Record]
  /\ \A t \in DOMAIN rs : Parents(rs[t]) \subseteq DOMAIN rs

\* Every record has the fields of the Go struct with values of their types, and
\* parents, chains and replays only mention ids that have a record.
TypeOK ==
  /\ IsStore(recs)
  /\ chains \in [Keys -> Seq(DOMAIN recs)]
  /\ replayed \subseteq DOMAIN recs
  /\ now \in Nat /\ lastToken \in Nat /\ closed \in BOOLEAN

\* The parents of t that are not final, counted once each.
OpenParents(rs, t) == {p \in Parents(rs[t]) : ~IsFinal(rs[p].status)}

\* No lost wake-up: whatever sequence of acks, failures, cancels and reaps led
\* here, a blocked task still waits for somebody, its counter is exactly the
\* number of distinct parents that are not final, and none of its parents has
\* broken it (Enqueue's count against propagateFinal's decrements).
PendingParentsExact ==
  \A t \in DOMAIN recs :
     recs[t].status = "blocked" =>
       /\ recs[t].pendingParents = Cardinality(OpenParents(recs, t))
       /\ OpenParents(recs, t) # {}
       /\ recs[t].policy = "fail_fast" =>
            \A p \in Parents(recs[t]) : ~ParentBroke(recs[p].status)

\* No task is queued or run before its parents allow it: every task that is
\* neither blocked nor canceled has only final parents, and under fail_fast
\* only completed ones.
DepsSatisfied ==
  \A t \in DOMAIN recs :
     recs[t].status \notin {"blocked", "canceled"} =>
       \A p \in Parents(recs[t]) :
          /\ p \in DOMAIN recs
          /\ IsFinal(recs[p].status)
          /\ recs[t].policy = "fail_fast" => recs[p].status = "completed"

\* The defensive pass of ReapExpired never has anything to repair: every
\* operation leaves the dependency graph settled by itself.
RepairIsNoOp == Repair(recs) = recs

\* Leases: exactly the running tasks carry a token, no two tasks share one and
\* none is from the future; a queued or blocked task never carries the
\* cancellation flag of an earlier run, except a task in retrying.
LeaseConsistent ==
  \A t \in DOMAIN recs :
     /\ (recs[t].leaseToken # NoToken) <=> (recs[t].status = "running")
     /\ recs[t].leaseToken <= lastToken
     /\ recs[t].cancelRequested => recs[t].status \in {"running", "retrying", "canceled"}
     /\ \A u \in DOMAIN recs \ {t} :
          recs[t].leaseToken # NoToken => recs[t].leaseToken # recs[u].leaseToken

\* No counter of a task that may still run has reached its limit: the limits
\* of Fail and ReapExpired end the task in the very step that reaches them.
BudgetRespected ==
  \A t \in DOMAIN recs :
     ~IsFinal(recs[t].status) =>
       /\ recs[t].attempts <= recs[t].maxRetry
       /\ recs[t].throttled < ThrottledMax
       /\ recs[t].leaseLost < LeaseLostMax

\* Identity: the chain of a key lists exactly its executions; each is the
\* replay of the one before it, and all but the newest are final.  So a key
\* has at most one execution that is not final, and the history never forks.
ChainsLinear ==
  /\ \A k \in Keys :
       /\ Range(chains[k]) = {t \in DOMAIN recs : recs[t].key = k}
       /\ \A i \in DOMAIN chains[k] :
            /\ recs[chains[k][i]].replayOf = IF i = 1 THEN NoID ELSE chains[k][i-1]
            /\ i < Len(chains[k]) => IsFinal(recs[chains[k][i]].status)
  /\ \A t, u \in DOMAIN recs :
       t # u /\ recs[t].replayOf # NoID => recs[t].replayOf # recs[u].replayOf

\* Only legal transitions happen, so setStatus never refuses a write the model
\* makes, final records are never rewritten, and no record disappears.
LegalTransitions ==
  [][\A t \in DOMAIN recs :
       /\ t \in DOMAIN recs'
       /\ recs'[t].status = recs[t].status \/ CanTransition(recs[t].status, recs'[t].status)
       /\ IsFinal(recs[t].status) => recs'[t] = recs[t]]_recs

\* A cancellation asked for is never forgotten because the worker died: a
\* flagged task that leaves running without its holder saying so is canceled,
\* and the flag outlives a retry.
CancelSurvives ==
  [][\A t \in DOMAIN recs :
       recs[t].cancelRequested /\ ~recs'[t].cancelRequested =>
          \/ IsFinal(recs'[t].status)
          \/ /\ recs'[t].status = "pending"     \* Requeue by the holder
             /\ recs'[t].leaseLost = recs[t].leaseLost]_recs

\* The broker implements the abstract lifecycle: its counters, its decrements
\* and its cascades together give every waiting task, in every state, exactly
\* the status its parents dictate, atomically with the parent's own change.
Lifecycle ==
  INSTANCE TaskLifecycle
    WITH status  <- [t \in DOMAIN recs |-> recs[t].status],
         parents <- [t \in DOMAIN recs |-> Parents(recs[t])],
         policy  <- [t \in DOMAIN recs |-> recs[t].policy]

ImplementsLifecycle == Lifecycle!Spec
===============================================================================
