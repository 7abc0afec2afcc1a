------------------------------ MODULE RedisBroker ------------------------------
(***************************************************************************)
(* redisbroker: the broker on Redis.  Every operation is one Lua script,   *)
(* which Redis runs as one step, so every operation is one action here.    *)
(* What distinguishes it from MemoryBroker is that a task is kept in       *)
(* several places: its hash (recs, with the records of MemoryBroker), a    *)
(* list and a sorted set per queue, the sorted set of leases, the index of *)
(* statuses and the statistics.  The scripts update them one command at a  *)
(* time; nothing but the care of each script keeps them in agreement.      *)
(*                                                                         *)
(* Each script gets the time from its caller, who read its clock before    *)
(* the call and may have a slow clock: the time `at' of a script may be    *)
(* behind now, and behind the time of scripts that ran before it.          *)
(*                                                                         *)
(* Abstracted, besides what MemoryBroker leaves out: the task type (one),  *)
(* the children sets, equal to the inverse of dependsOn; a Dequeue of      *)
(* several queues at once, which claimLoop never makes; wake-up signals; a *)
(* closed client, which simply makes no more calls.                        *)
(***************************************************************************)
EXTENDS MemoryBroker, SequencesExt

CONSTANT MaxLag  \* bound: how far a caller's time is behind

ASSUME RedisAssumption == MaxLag \in Nat

VARIABLES
  db,      \* the keys beside the hashes and the business-key lists
  resent   \* claims sent again so far

redisVars == <<vars, db, resent>>

EmptyDB == [pending  |-> [q \in Queues |-> <<>>],         \* lists
            delayed  |-> [q \in Queues |-> [t \in {} |-> 0]], \* id -> score
            inflight |-> [t \in {} |-> 0],                \* id -> score
            index    |-> [s \in Statuses |-> {}],
            stats    |-> [s \in Statuses |-> 0]]

RedisInit == Init /\ db = EmptyDB /\ resent = 0

\* The times a caller may have read.
Times == {n \in 0..now : now <= n + MaxLag}

-------------------------------------------------------------------------------
(* common.lua: the commands every script is made of.                       *)

ZAdd(z, id, score) == [t \in DOMAIN z \cup {id} |-> IF t = id THEN score ELSE z[t]]

ZRem(z, S) == Restrict(z, DOMAIN z \ S)

\* LREM with count 0: the list without id, wherever it stands.
LRem(list, id) ==
  LET kept[n \in 0..Len(list)] ==
        IF n = 0 THEN <<>>
        ELSE IF list[n] = id THEN kept[n - 1] ELSE Append(kept[n - 1], list[n])
  IN  kept[Len(list)]

\* Wrong variant of moveStatus: the old status keeps its count.
moveStatusUncounted(d, id, from, to) ==
  [d EXCEPT !.index[from] = @ \ {id}, !.index[to] = @ \cup {id},
            !.stats[to] = @ + 1]

moveStatus(d, id, from, to) ==
  [d EXCEPT !.index[from] = @ \ {id}, !.index[to] = @ \cup {id},
            !.stats[from] = @ - 1, !.stats[to] = @ + 1]

removeFromQueue(d, id, q) ==
  [d EXCEPT !.pending[q] = LRem(@, id), !.delayed[q] = ZRem(@, {id})]

placeInQueue(d, id, q, runAt, at) ==
  IF runAt > at THEN [d EXCEPT !.delayed[q] = ZAdd(@, id, runAt)]
                ELSE [d EXCEPT !.pending[q] = Append(@, id)]

Watch(d, id, until) == [d EXCEPT !.inflight = ZAdd(@, id, until)]

Unwatch(d, id) == [d EXCEPT !.inflight = ZRem(@, {id})]

\* Wrong variant of forceCancel: the task stays in its queue.
forceCancelQueued(d, id, r) ==
  moveStatus(Unwatch(d, id), id, r.status, "canceled")

\* The structures, when task id with hash r is canceled.
forceCancel(d, id, r) ==
  moveStatus(Unwatch(removeFromQueue(d, id, r.queue), id), id, r.status, "canceled")

\* A running task leaves for another status.
LeaveRunning(d, id, to) == moveStatus(Unwatch(d, id), id, "running", to)

\* Task id, whose hash goes from r to s, is woken, canceled or taken back.  A task
\* that is taken back was due when it was claimed: it goes to the list, whatever
\* its run_at.
Moved(d, id, r, s, at) ==
  CASE s.status = "canceled" -> forceCancel(d, id, r)
    [] s.status = "failed"   -> LeaveRunning(d, id, "failed")
    [] s.status = "pending" /\ r.status = "running" ->
         LeaveRunning([d EXCEPT !.pending[r.queue] = Append(@, id)], id, "pending")
    [] s.status = "pending" /\ r.status = "blocked" ->
         moveStatus(placeInQueue(d, id, r.queue, r.runAt, at), id, "blocked", "pending")

\* The structures d after the tasks of order moved, one after the other.
MovedInOrder(d, rs, rs2, at, order) ==
  LET after[n \in 0..Len(order)] ==
        IF n = 0 THEN d
        ELSE Moved(after[n - 1], order[n], rs[order[n]], rs2[order[n]], at)
  IN  after[Len(order)]

\* d2: the structures d after the hashes rs became rs2, the tasks that change being
\* met in any order, the one of the walk (breadth first, children sorted) included.
AllMoved(d, rs, rs2, at, d2) ==
  \E order \in SetToSeqs({t \in DOMAIN rs : rs2[t].status # rs[t].status}) :
     d2 = MovedInOrder(d, rs, rs2, at, order)

-------------------------------------------------------------------------------
(* enqueue.lua and replay.lua.                                             *)

\* The structures of a new task.
Created(id, r, at) ==
  LET d == IF r.status = "pending" THEN placeInQueue(db, id, r.queue, r.runAt, at) ELSE db
  IN  [d EXCEPT !.index[r.status] = @ \cup {id}, !.stats[r.status] = @ + 1]

enqueue(id, deps, policy, key, queue, maxRetry, delay, at) ==
  LET r == NewRecord(DecideOnSubmit(ParentStates(recs, deps), policy),
                     deps, policy, key, NoID, queue, maxRetry, at + delay)
  IN  /\ KeyIsFree(key)
      /\ IsFreshID(id)
      /\ Range(deps) \subseteq DOMAIN recs
      /\ recs' = Put(id, r)
      /\ chains' = Link(key, id)
      /\ db' = Created(id, r, at)
      /\ UNCHANGED <<replayed, now, lastToken, closed, resent>>

replay(id, target, allowCompleted, at) ==
  LET r == NewRecord([status |-> "pending", pendingParents |-> 0], <<>>,
                     recs[target].policy, recs[target].key, target,
                     recs[target].queue, recs[target].maxRetry, at)
  IN  /\ Replayable(target, allowCompleted)
      /\ IsFreshID(id)
      /\ recs' = Put(id, r)
      /\ chains' = Link(r.key, id)
      /\ replayed' = replayed \cup {target}
      /\ db' = Created(id, r, at)
      /\ UNCHANGED <<now, lastToken, closed, resent>>

-------------------------------------------------------------------------------
(* claim.lua.                                                              *)

\* The delayed tasks that are due, in the order of the sorted set.
Due(z, at) ==
  {due \in SetToSeqs({t \in DOMAIN z : z[t] <= at}) :
     \A i, j \in DOMAIN due :
        i < j => \/ z[due[i]] < z[due[j]]
                 \/ z[due[i]] = z[due[j]] /\ due[i] < due[j]}

MoveDue(d, q, due) ==
  [d EXCEPT !.pending[q] = @ \o due, !.delayed[q] = ZRem(@, Range(due))]

IsQueued(id) == id \in DOMAIN recs /\ Queued(recs[id].status)

\* The places in a list of the tasks that can run.
CanRun(list, at) == {i \in DOMAIN list : IsQueued(list[i]) /\ recs[list[i]].runAt <= at}

\* How far the list is popped: to the first task that can run, or to its end.
PopCount(list, at) == IF CanRun(list, at) = {} THEN Len(list) ELSE Min(CanRun(list, at))

\* What is popped on the way: entries of no queued task are dropped, tasks that
\* are not due go to the sorted set.
Pop(d, q, at) ==
  LET n     == PopCount(d.pending[q], at)
      early == {t \in Range(SubSeq(d.pending[q], 1, n)) : IsQueued(t) /\ recs[t].runAt > at}
  IN  [d EXCEPT !.pending[q] = SubSeq(@, n + 1, Len(@)),
                !.delayed[q] = [t \in DOMAIN @ \cup early |->
                                  IF t \in early THEN recs[t].runAt ELSE @[t]]]

\* The first task of list that can run gets the lease, if there is one; d are the
\* structures from which it was popped.  token is fresh, except when the client
\* library sends the script again.
Take(d, list, q, token, at) ==
  LET id    == list[PopCount(list, at)]
      until == at + LeaseTTL[q]
  IN  IF CanRun(list, at) = {}
      THEN db' = d /\ recs' = recs /\ lastToken' = lastToken
      ELSE /\ recs' = [recs EXCEPT ![id].status = "running", ![id].leaseToken = token,
                                   ![id].leaseUntil = until]
           /\ db' = moveStatus(Watch(d, id, until), id, recs[id].status, "running")
           /\ lastToken' = IF token > lastToken THEN token ELSE lastToken

claim(q, token, at) ==
  /\ \E due \in Due(db.delayed[q], at) :
       LET d == MoveDue(db, q, due)
       IN  Take(Pop(d, q, at), d.pending[q], q, token, at)
  /\ UNCHANGED <<chains, replayed, now, closed>>

Dequeued(q, at) ==
  /\ lastToken + resent < MaxClaims
  /\ claim(q, lastToken + 1, at)
  /\ resent' = resent

\* The answer to a claim was lost and the client library makes the call again.
ClaimResent(q, at) ==
  /\ lastToken + resent < MaxClaims
  /\ \E token \in 1..lastToken : claim(q, token, at)
  /\ resent' = resent + 1

-------------------------------------------------------------------------------
(* finish.lua and heartbeat.lua.                                           *)

\* Task id goes final as r; d are the structures without its old status.
FinalInRedis(id, r, d, at) ==
  LET rs == [recs EXCEPT ![id] = r]
  IN  /\ recs' = Propagate(rs, {id})
      /\ AllMoved(d, rs, recs', at, db')

ack(id, at) == FinalInRedis(id, Finished(recs[id], "completed"), LeaveRunning(db, id, "completed"), at)

fail(id, kind, delay, at) ==
  LET r == Counted(recs[id], kind)
      s == [ClearLease(r) EXCEPT !.status = "retrying", !.runAt = at + delay]
  IN  IF Exhausted(r, kind)
      THEN FinalInRedis(id, Finished(r, "failed"), LeaveRunning(db, id, "failed"), at)
      ELSE /\ recs' = [recs EXCEPT ![id] = s]
           /\ db' = LeaveRunning(placeInQueue(db, id, s.queue, s.runAt, at), id, "retrying")

finish_canceled(id, at) ==
  FinalInRedis(id, Finished(recs[id], "canceled"), forceCancel(db, id, recs[id]), at)

requeue(id, at) ==
  /\ recs' = [recs EXCEPT ![id] = Returned(recs[id])]
  /\ db' = LeaveRunning(placeInQueue(db, id, recs[id].queue, recs[id].runAt, at), id, "pending")

\* Wrong variant of heartbeat: only the hash is renewed.
heartbeatHash(id, at) ==
  /\ recs' = [recs EXCEPT ![id].leaseUntil = at + LeaseTTL[recs[id].queue]]
  /\ db' = db

heartbeat(id, at) ==
  LET until == at + LeaseTTL[recs[id].queue]
  IN  /\ recs' = [recs EXCEPT ![id].leaseUntil = until]
      /\ db' = Watch(db, id, until)

\* Any token ever handed out may come back, however late.
ReportToRedis(id, token, at) ==
  /\ HoldsLease(id, token)
  /\ \/ ack(id, at)
     \/ \E kind \in FailKinds, delay \in Delays : fail(id, kind, delay, at)
     \/ finish_canceled(id, at)
     \/ requeue(id, at)
     \/ heartbeat(id, at)
  /\ UNCHANGED <<chains, replayed, now, lastToken, closed, resent>>

\* Wrong variant of cancel: the children are not told.
cancelAlone(id, at) ==
  /\ ~IsFinal(recs[id].status)
  /\ IF recs[id].status = "running"
     THEN recs' = [recs EXCEPT ![id].cancelRequested = TRUE] /\ db' = db
     ELSE /\ recs' = [recs EXCEPT ![id] = [ClearLease(recs[id]) EXCEPT !.status = "canceled"]]
          /\ db' = forceCancel(db, id, recs[id])
  /\ UNCHANGED <<chains, replayed, now, lastToken, closed, resent>>

\* A running task is flagged, any other that is not final ends here.
cancel(id, at) ==
  /\ ~IsFinal(recs[id].status)
  /\ IF recs[id].status = "running"
     THEN recs' = [recs EXCEPT ![id].cancelRequested = TRUE] /\ db' = db
     ELSE FinalInRedis(id, [ClearLease(recs[id]) EXCEPT !.status = "canceled"],
                       forceCancel(db, id, recs[id]), at)
  /\ UNCHANGED <<chains, replayed, now, lastToken, closed, resent>>

-------------------------------------------------------------------------------
(* reap.lua.                                                               *)

\* The leases the sorted set calls overdue, and those the hash does.
OverdueEntries(at) == {t \in DOMAIN db.inflight : db.inflight[t] < at}

Overdue(at) ==
  {t \in OverdueEntries(at) \cap DOMAIN recs :
     recs[t].status = "running" /\ recs[t].leaseUntil < at}

\* Entries that disagree with the hash are only removed.  Then the defensive pass.
reap(at) ==
  LET X  == Overdue(at)
      rs == [t \in DOMAIN recs |-> IF t \in X THEN Reaped(recs[t]) ELSE recs[t]]
  IN  /\ recs' = Repair(Propagate(rs, {t \in X : IsFinal(rs[t].status)}))
      /\ AllMoved([db EXCEPT !.inflight = ZRem(@, OverdueEntries(at) \ X)], recs, recs', at, db')
      /\ UNCHANGED <<chains, replayed, now, lastToken, closed, resent>>

RedisTick == Tick /\ UNCHANGED <<db, resent>>

-------------------------------------------------------------------------------
SubmitToRedis(at) ==
  \E id \in Tasks, s \in Submissions, queue \in Queues, maxRetry \in MaxRetries, delay \in Delays :
     enqueue(id, s.deps, s.policy, s.key, queue, maxRetry, delay, at)

\* By id, or by key: the newest execution of the chain.
ReplayOnRedis(at) ==
  \E id \in Tasks, allowCompleted \in BOOLEAN :
     \/ \E target \in DOMAIN recs : replay(id, target, allowCompleted, at)
     \/ \E key \in Keys : /\ chains[key] # <<>>
                          /\ replay(id, Last(chains[key]), allowCompleted, at)

RedisNext ==
  \/ \E at \in Times :
       \/ SubmitToRedis(at)
       \/ ReplayOnRedis(at)
       \/ \E q \in Queues : Dequeued(q, at) \/ ClaimResent(q, at)
       \/ \E id \in Tasks, token \in 1..lastToken : ReportToRedis(id, token, at)
       \/ \E id \in DOMAIN recs : cancel(id, at)
       \/ reap(at)
  \/ RedisTick

RedisSpec == RedisInit /\ [][RedisNext]_redisVars

-------------------------------------------------------------------------------
(* Properties.                                                             *)

\* How often task t stands in the list and the sorted set of queue q.
Places(t, q) ==
  Cardinality({i \in DOMAIN db.pending[q] : db.pending[q][i] = t})
    + (IF t \in DOMAIN db.delayed[q] THEN 1 ELSE 0)

\* Every queued task stands exactly once in its queue, in the list or in the
\* sorted set, and nothing else stands in any queue: no task is lost to the
\* claimers, none is offered twice, and QueueLen (LLEN + ZCARD) is exact.
QueuesExact ==
  \A t \in Tasks, q \in Queues :
     Places(t, q) = IF IsQueued(t) /\ recs[t].queue = q THEN 1 ELSE 0

\* Every running task has an entry in the sorted set of leases with the deadline
\* of its hash, and nothing else has one: reap finds every lease that runs out,
\* and never takes the entry of a live one for a left-over.
LeasesWatched ==
  /\ DOMAIN db.inflight = {t \in DOMAIN recs : recs[t].status = "running"}
  /\ \A t \in DOMAIN db.inflight : db.inflight[t] = recs[t].leaseUntil

\* The indexes partition the tasks by status and the statistics count them.
IndexesExact ==
  \A s \in Statuses :
     /\ db.index[s] = {t \in DOMAIN recs : recs[t].status = s}
     /\ db.stats[s] = Cardinality(db.index[s])
================================================================================
