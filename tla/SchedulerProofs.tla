---------------------------- MODULE SchedulerProofs ----------------------------
(***************************************************************************)
(* What module Scheduler checks on one or two tasks, proved for any number *)
(* of tasks, workers, claims and lost calls:                               *)
(*   SlotsAccounted, NothingIsLeft, InterruptionsNeverFail,                *)
(*   CancellationsAreAsked, FinishedWorkIsKept, SkipsAreNeverRetried,      *)
(*   HandlesAreCurrent, DrainReachesHolders.                               *)
(*                                                                         *)
(* The inductive invariant SchedInv has one part per kind of knowledge:    *)
(*   StoreOK     the broker's records: no task depends on another one;     *)
(*   ControlOK   claim loop, Run and Shutdown, and the slots;              *)
(*   HandlesOK   each execution by itself: its flags, outcome and receipt; *)
(*   TrackedOK   s.tasks and Shutdown's sweep against the executions;      *)
(*   AskedOK     who was asked to be canceled;                             *)
(*   LeasesOK    each execution against the lease of its task;             *)
(*   HoldersOK   under PromptStart, what s.tasks and the sweep know of     *)
(*               the executions that hold their lease.                     *)
(***************************************************************************)
EXTENDS Scheduler, MemoryBrokerProofs, SequenceTheorems

StoreOK ==
  /\ recs \in [Tasks -> Record]
  /\ \A t \in Tasks : /\ recs[t].dependsOn = <<>>
                      /\ recs[t].status # "blocked"
                      /\ recs[t].leaseToken <= lastToken
  /\ now \in Nat /\ lastToken \in Nat /\ closed = FALSE

ControlOK ==
  /\ run \in {"idle", "active"} /\ claim \in {"exited", "acquire", "token", "dequeue"}
  /\ shut \in {"none", "flagged", "waiting", "sweeping", "draining", "returned"}
  /\ stopped \in BOOLEAN /\ draining \in BOOLEAN /\ slots \in Nat /\ faults \in Nat
  /\ DOMAIN exec \subseteq 1..lastToken
  /\ run = "idle" => DOMAIN exec = {} /\ claim = "exited"
  /\ shut = "returned" => run = "idle"
  /\ SlotAccounting

\* One execution by itself.  What canceled its context left a mark before, and
\* the receipt was chosen by the switch of execute.
HandleOK(x) ==
  /\ x.ctxDone => x.leaseLost \/ x.canceled \/ x.requeue
  /\ x.phase \in {"spawned", "running", "returned"} => x.receipt = "none"
  /\ x.phase \in {"spawned", "running"} => x.outcome = NoOutcome
  /\ x.outcome = Interrupted => x.ctxDone
  /\ x.receipt = "Fail" => x.outcome # Interrupted
  /\ x.receipt = "drop" => x.leaseLost
  /\ x.receipt = "FinishCanceled" => x.canceled
  /\ x.phase \in {"decided", "reported"} => x.receipt # "none"
  /\ x.phase \in {"decided", "reported"} /\ x.outcome.kind = "ok" =>
       x.receipt \in {"drop", "FinishCanceled", "Ack"}

HandlesOK ==
  /\ exec \in [DOMAIN exec -> Exec]
  /\ \A k \in DOMAIN exec : HandleOK(exec[k])

\* s.tasks names live executions of the right task; so does what is left of a
\* sweep, which holds the lock; and a canceled handle was marked first.
TrackedOK ==
  /\ DOMAIN tasks \subseteq Tasks /\ tasks \in [DOMAIN tasks -> Nat]
  /\ \A t \in DOMAIN tasks : /\ tasks[t] \in DOMAIN exec
                             /\ exec[tasks[t]].id = t
                             /\ exec[tasks[t]].phase # "spawned"
  /\ \A k \in toSweep : /\ k \in DOMAIN exec /\ exec[k].phase # "spawned"
                        /\ shut = "sweeping"
  /\ toCancel \subseteq 1..lastToken
  /\ \A k \in toCancel \cap DOMAIN exec : exec[k].canceled
  /\ shut \in {"sweeping", "draining"} => draining

AskedOK ==
  /\ canceling \subseteq asked /\ asked \subseteq Tasks
  /\ \A t \in Tasks : recs[t].cancelRequested \/ recs[t].status = "canceled" => t \in asked
  /\ \A k \in DOMAIN exec : exec[k].canceled => exec[k].id \in asked

\* Execution k against the record r of its task.
LeaseOK(k, x, r) ==
  /\ x.leaseLost => ~(r.status = "running" /\ r.leaseToken = k)
  /\ k = lastToken /\ r.status = "running" => r.leaseToken = k
  /\ k = lastToken /\ r.status = "retrying" =>
       x.phase = "reported" /\ x.receipt = "Fail" /\ "skip" \notin x.outcome.err
  /\ faults = 0 /\ x.id \notin asked =>
       \/ r.leaseLost > 0
       \/ x.phase # "reported" /\ r.status = "running" /\ r.leaseToken = k
       \/ x.phase = "reported" /\ (x.outcome.kind = "ok" => r.status = "completed")

LeasesOK ==
  /\ \A k \in DOMAIN exec : LeaseOK(k, exec[k], recs[exec[k].id])
  /\ faults = 0 => \A t \in Tasks : recs[t].status = "running" =>
       /\ recs[t].leaseToken \in DOMAIN exec
       /\ exec[recs[t].leaseToken].id = t /\ exec[recs[t].leaseToken].phase # "reported"

\* Once claims start promptly, an execution that is not tracked yet holds its
\* lease, and one that runs under its lease is the one s.tasks names and the
\* one the sweep reaches.
HolderOK(k, x, r) ==
  /\ x.phase = "spawned" => r.status = "running" /\ r.leaseToken = k /\ r.leaseUntil >= now
  /\ x.phase = "running" /\ r.status = "running" /\ r.leaseToken = k =>
       /\ x.id \in DOMAIN tasks /\ tasks[x.id] = k
       /\ shut = "sweeping" => k \in toSweep \/ x.ctxDone
       /\ shut = "draining" => x.ctxDone

HoldersOK == PromptStart => \A k \in DOMAIN exec : HolderOK(k, exec[k], recs[exec[k].id])

SchedInv == StoreOK /\ ControlOK /\ HandlesOK /\ TrackedOK /\ AskedOK /\ LeasesOK /\ HoldersOK

-------------------------------------------------------------------------------
(* The broker, when no task depends on another one.                        *)

\* A store without dependencies.
Flat(rs) ==
  /\ rs \in [Tasks -> Record]
  /\ \A t \in Tasks : rs[t].dependsOn = <<>> /\ rs[t].status # "blocked"

\* Nobody waits for anybody: propagateFinal finds no children.
LEMMA FlatPropagate ==
  ASSUME NEW rs, Flat(rs), NEW R
  PROVE  Propagate(rs, R) = rs
<1> DEFINE K == Cascade(rs, R)
           new(c) == Parents(rs[c]) \cap (R \cup K)
           good(c) == {p \in new(c) :
                         Satisfied(IF p \in K THEN "canceled" ELSE rs[p].status, rs[c].policy)}
           cancel(c) == [ClearLease(rs[c]) EXCEPT !.status = "canceled"]
           settle(c) == Settle(rs[c], Cardinality(good(c)), new(c) # good(c))
<1>1. DOMAIN rs = Tasks /\ \A c \in Tasks : rs[c] \in Record /\ Parents(rs[c]) = {}
  BY EmptySeq DEF Flat, Parents, Range
<1>2. K = {}
  <2>1. CascadeClosed(rs, Broken(rs, R), {})
    BY <1>1 DEF CascadeClosed
  <2> QED BY <2>1 DEF Cascade
<1>3. Propagate(rs, R) = [c \in DOMAIN rs |-> IF c \in K THEN cancel(c)
                                             ELSE IF IsFinal(rs[c].status) THEN rs[c]
                                             ELSE settle(c)]
  BY Zenon DEF Propagate
<1>4. ASSUME NEW c \in Tasks PROVE settle(c) = rs[c]
  <2>1. new(c) = {} /\ good(c) = {}
    BY <1>1
  <2>2. Cardinality({}) = 0
    BY FS_EmptySet
  <2>3. settle(c) = Settle(rs[c], 0, FALSE)
    <3>1. Cardinality(good(c)) = 0
      BY <2>1, <2>2, Zenon
    <3>2. (new(c) # good(c)) = FALSE
      BY <2>1
    <3> QED BY <3>1, <3>2
  <2>4. PICK r \in Record : r = rs[c]
    BY <1>1
  <2>5. Settle(r, 0, FALSE) = r
    <3> DEFINE left == IF r.pendingParents > 0 THEN r.pendingParents - 0 ELSE 0
               st == IF 0 > 0 /\ left = 0 /\ r.status = "blocked" THEN "pending" ELSE r.status
               flag == r.cancelRequested \/ (FALSE /\ r.status = "running")
    <3>1. Settle(r, 0, FALSE) = [r EXCEPT !.pendingParents = left, !.status = st, !.cancelRequested = flag]
      BY Zenon DEF Settle
    <3>2. left = r.pendingParents /\ st = r.status
      BY DEF Record
    <3>3. flag = r.cancelRequested
      <4>1. r.cancelRequested \in BOOLEAN
        BY DEF Record
      <4> QED BY <4>1, Zenon
    <3> HIDE DEF left, st, flag
    <3> QED BY <3>1, <3>2, <3>3 DEF Record
  <2> QED BY <2>3, <2>4, <2>5
<1> HIDE DEF K, settle, cancel
<1>5. Propagate(rs, R) = [c \in DOMAIN rs |-> rs[c]]
  BY <1>1, <1>2, <1>3, <1>4
<1> QED BY <1>1, <1>5 DEF Flat

\* ... and the reaper's repair pass finds nothing blocked.
LEMMA FlatRepair ==
  ASSUME NEW rs, Flat(rs)
  PROVE  Repair(rs) = rs
<1>1. DOMAIN rs = Tasks /\ \A c \in Tasks : rs[c] \in Record /\ Parents(rs[c]) = {}
  BY EmptySeq DEF Flat, Parents, Range
<1>2. IsStore(rs) /\ Settled(rs)
  BY <1>1 DEF IsStore, Settled, WaitsRightly, RunsRightly, Flat
<1> QED BY <1>2, RepairOfSettled

\* Record r of a task leaves running or its queue as s: the lease is gone.
Leaves(r, s) ==
  /\ s \in Record /\ s.dependsOn = r.dependsOn
  /\ s.status \notin {"blocked", "running"} /\ s.leaseToken = NoToken
  /\ s.cancelRequested => r.cancelRequested

\* Writing one record of a flat store that does not become blocked.
LEMMA FlatWrite ==
  ASSUME NEW rs, Flat(rs), NEW t \in Tasks, NEW s \in Record,
         s.dependsOn = rs[t].dependsOn, s.status # "blocked"
  PROVE  Flat([rs EXCEPT ![t] = s])
<1> DEFINE new == [rs EXCEPT ![t] = s]
<1>1. new \in [Tasks -> Record] /\ \A u \in Tasks : new[u] = IF u = t THEN s ELSE rs[u]
  BY DEF Flat
<1> HIDE DEF new
<1>2. Flat(new)
  BY <1>1 DEF Flat
<1> QED BY <1>2 DEF new

\* A task of the queue ends: only its own record changes.
LEMMA FlatGoFinal ==
  ASSUME Flat(recs), NEW t \in Tasks, NEW s \in Record, s.dependsOn = recs[t].dependsOn,
         s.status # "blocked", GoFinal(t, s)
  PROVE  recs' = [recs EXCEPT ![t] = s]
<1>1. PICK rs : rs = [recs EXCEPT ![t] = s]
  OBVIOUS
<1>2. Flat(rs)
  BY <1>1, FlatWrite
<1>3. recs' = Propagate(rs, {t})
  BY <1>1 DEF GoFinal
<1> QED BY <1>1, <1>2, <1>3, FlatPropagate

\* Finished and Returned clear the lease and nothing else that counts here.
LEMMA FinishedLeaves ==
  ASSUME NEW r \in Record, NEW s \in {"completed", "failed", "canceled"}
  PROVE  /\ Leaves(r, Finished(r, s)) /\ Finished(r, s).status = s
         /\ Finished(r, s).leaseLost = r.leaseLost
         /\ ~Finished(r, s).cancelRequested
         /\ Leaves(r, Returned(r)) /\ Returned(r).status = "pending"
         /\ Returned(r).leaseLost = r.leaseLost
         /\ ~Returned(r).cancelRequested
<1>1. Finished(r, s) \in Record /\ Returned(r) \in Record
  BY StatusWritesType DEF Statuses
<1> DEFINE f == Finished(r, s)
           q == Returned(r)
<1>2. f.status = s /\ f.leaseToken = NoToken /\ f.cancelRequested = FALSE
      /\ f.dependsOn = r.dependsOn /\ f.leaseLost = r.leaseLost
  BY DEF Finished, ClearLease, Record
<1>3. q.status = "pending" /\ q.leaseToken = NoToken /\ q.cancelRequested = FALSE
      /\ q.dependsOn = r.dependsOn /\ q.leaseLost = r.leaseLost
  BY DEF Returned, ClearLease, Record
<1>4. f \in Record /\ q \in Record
  BY <1>1
<1> HIDE DEF f, q
<1>5. Leaves(r, f) /\ Leaves(r, q)
  BY <1>2, <1>3, <1>4 DEF Leaves
<1> QED BY <1>2, <1>3, <1>5 DEF f, q

\* The holder of task t's lease reports with receipt c: the record becomes s.
ReportOf(c, err, r, s) ==
  /\ Leaves(r, s) /\ s.leaseLost = r.leaseLost
  /\ s.status = "canceled" => c = "FinishCanceled"
  /\ s.status = "retrying" => c = "Fail" /\ "skip" \notin err
  /\ c = "Ack" => s.status = "completed"

\* What Fail with this kind of error may make of task t.
FailResult(t, kind, err) ==
  \E s : /\ ReportOf("Fail", err, recs[t], s) /\ recs' = [recs EXCEPT ![t] = s]
         /\ kind = "skip" => s.status = "failed"

\* Fail of the holder, with the kind failTask chose for err.
LEMMA FailWrites ==
  ASSUME Flat(recs), now \in Nat, NEW t \in Tasks, NEW k, NEW kind \in FailKinds, NEW d \in Nat,
         NEW err, kind # "skip" => "skip" \notin err, Fail(t, k, kind, d)
  PROVE  FailResult(t, kind, err)
<1>1. PICK r0 \in Record : r0 = recs[t]
  BY DEF Flat
<1> DEFINE a == IF kind = "business" THEN r0.attempts + 1 ELSE r0.attempts
           c == IF kind = "throttled" THEN r0.throttled + 1 ELSE r0.throttled
           r == [r0 EXCEPT !.attempts = a, !.throttled = c]
<1>2. a \in Nat /\ c \in Nat
  BY DEF Record
<1>3. Counted(recs[t], kind) = r
  BY <1>1 DEF Counted
<1> HIDE DEF a, c
<1>4. r \in Record /\ r.dependsOn = r0.dependsOn /\ r.leaseLost = r0.leaseLost
      /\ r.cancelRequested = r0.cancelRequested /\ r0.dependsOn = <<>>
  BY <1>1, <1>2 DEF Record, Flat
<1> HIDE DEF r
<1>5. CASE Exhausted(r, kind)
  <2> DEFINE f == Finished(r, "failed")
  <2>1. Leaves(r, f) /\ f.status = "failed" /\ f.leaseLost = r.leaseLost /\ ~f.cancelRequested
    BY <1>4, FinishedLeaves
  <2>2. GoFinal(t, f)
    BY <1>3, <1>5 DEF Fail
  <2> HIDE DEF f
  <2>3. recs' = [recs EXCEPT ![t] = f]
    BY <1>1, <1>4, <2>1, <2>2, FlatGoFinal DEF Leaves
  <2>4. ReportOf("Fail", err, recs[t], f)
    BY <1>1, <1>4, <2>1 DEF ReportOf, Leaves
  <2> QED BY <2>1, <2>3, <2>4 DEF FailResult
<1>6. CASE ~Exhausted(r, kind)
  <2>0. PICK at \in Nat : at = now + d
    OBVIOUS
  <2> DEFINE f == [ClearLease(r) EXCEPT !.status = "retrying", !.runAt = at]
  <2>1. kind # "skip"
    BY <1>6 DEF Exhausted
  <2>2. recs' = [recs EXCEPT ![t] = f]
    BY <1>3, <1>6, <2>0 DEF Fail
  <2>3. f \in Record /\ f.status = "retrying" /\ f.leaseToken = NoToken /\ f.dependsOn = r.dependsOn
        /\ f.leaseLost = r.leaseLost /\ f.cancelRequested = r.cancelRequested
    BY <1>4, <2>0 DEF ClearLease, Record, Statuses, NoToken
  <2> HIDE DEF f
  <2>4. ReportOf("Fail", err, recs[t], f)
    BY <1>1, <1>4, <2>1, <2>3 DEF ReportOf, Leaves
  <2> QED BY <2>1, <2>2, <2>4 DEF FailResult
<1> QED BY <1>5, <1>6

\* The rest of the broker's state stays.
StoreFrame == UNCHANGED <<chains, replayed, now, lastToken, closed>>

\* What StoreOK says of one record.
LEMMA StoreHas ==
  ASSUME StoreOK
  PROVE  /\ Flat(recs) /\ DOMAIN recs = Tasks /\ now \in Nat /\ lastToken \in Nat
         /\ \A t \in Tasks : recs[t] \in Record /\ recs[t].leaseToken \in Nat /\ recs[t].leaseLost \in Nat
                             /\ recs[t].cancelRequested \in BOOLEAN
BY DEF StoreOK, Flat, Record

\* The receipt of execution k, sent by the holder of the lease.
LEMMA SendWrites ==
  ASSUME StoreOK, NEW k \in DOMAIN exec, exec[k] \in Exec, Send(k)
  PROVE  /\ HoldsLease(exec[k].id, k) /\ StoreFrame
         /\ \E s : /\ ReportOf(exec[k].receipt, exec[k].outcome.err, recs[exec[k].id], s)
                   /\ recs' = [recs EXCEPT ![exec[k].id] = s]
<1>1. PICK t \in Tasks : t = exec[k].id
  BY DEF Exec
<1>2. PICK r \in Record : r = recs[t]
  BY StoreHas
<1>3. Flat(recs) /\ now \in Nat /\ r.dependsOn = <<>>
  BY <1>1, <1>2, StoreHas DEF Flat
<1>4. CASE exec[k].receipt = "FinishCanceled" /\ FinishCanceled(t, k)
  <2>1. PICK s : s = Finished(r, "canceled")
    OBVIOUS
  <2>2. Leaves(r, s) /\ s.status = "canceled" /\ s.leaseLost = r.leaseLost
    BY <2>1, FinishedLeaves
  <2>3. GoFinal(t, s) /\ HoldsLease(t, k) /\ StoreFrame
    BY <1>2, <1>4, <2>1 DEF FinishCanceled, StoreFrame
  <2>4. recs' = [recs EXCEPT ![t] = s]
    BY <1>2, <1>3, <2>2, <2>3, FlatGoFinal DEF Leaves
  <2>5. ReportOf(exec[k].receipt, exec[k].outcome.err, r, s)
    BY <1>4, <2>2 DEF ReportOf
  <2> QED BY <1>1, <1>2, <2>3, <2>4, <2>5
<1>5. CASE exec[k].receipt = "Ack" /\ Ack(t, k)
  <2>1. PICK s : s = Finished(r, "completed")
    OBVIOUS
  <2>2. Leaves(r, s) /\ s.status = "completed" /\ s.leaseLost = r.leaseLost
    BY <2>1, FinishedLeaves
  <2>3. GoFinal(t, s) /\ HoldsLease(t, k) /\ StoreFrame
    BY <1>2, <1>5, <2>1 DEF Ack, StoreFrame
  <2>4. recs' = [recs EXCEPT ![t] = s]
    BY <1>2, <1>3, <2>2, <2>3, FlatGoFinal DEF Leaves
  <2>5. ReportOf(exec[k].receipt, exec[k].outcome.err, r, s)
    BY <1>5, <2>2 DEF ReportOf
  <2> QED BY <1>1, <1>2, <2>3, <2>4, <2>5
<1>6. CASE exec[k].receipt = "Requeue" /\ Requeue(t, k)
  <2>1. PICK s : s = Returned(r)
    OBVIOUS
  <2>2. Leaves(r, s) /\ s.status = "pending" /\ s.leaseLost = r.leaseLost
    BY <2>1, FinishedLeaves
  <2>3. recs' = [recs EXCEPT ![t] = s] /\ HoldsLease(t, k) /\ StoreFrame
    BY <1>2, <1>6, <2>1 DEF Requeue, StoreFrame
  <2>5. ReportOf(exec[k].receipt, exec[k].outcome.err, r, s)
    BY <1>6, <2>2 DEF ReportOf
  <2> QED BY <1>1, <1>2, <2>3, <2>5
<1>7. CASE exec[k].receipt = "Fail" /\ \E d \in Delays : Fail(t, k, FailKind(exec[k].outcome.err), d)
  <2>1. PICK d \in Delays : Fail(t, k, FailKind(exec[k].outcome.err), d)
    BY <1>7
  <2>2. PICK err, kind : err = exec[k].outcome.err /\ kind = FailKind(err)
    OBVIOUS
  <2>3. kind \in FailKinds /\ (kind # "skip" => "skip" \notin err) /\ d \in Nat
    BY <2>2, ConstantsAssumption DEF FailKind, FailKinds
  <2>4. Fail(t, k, kind, d)
    BY <2>1, <2>2
  <2>5. HoldsLease(t, k) /\ StoreFrame
    BY <2>4 DEF Fail, StoreFrame
  <2>6. \E s : ReportOf("Fail", err, recs[t], s) /\ recs' = [recs EXCEPT ![t] = s]
    <3>1. FailResult(t, kind, err)
      <4>1. Flat(recs) /\ now \in Nat
        BY <1>3
      <4>2. kind # "skip" => "skip" \notin err
        BY <2>3
      <4> QED BY <2>3, <2>4, <4>1, <4>2, FailWrites, Zenon
    <3> QED BY <3>1, Zenon DEF FailResult
  <2> QED BY <1>1, <1>7, <2>2, <2>5, <2>6
<1> QED BY <1>1, <1>4, <1>5, <1>6, <1>7 DEF Send

\* A queued record r that is claimed becomes s, under a fresh token.
ClaimOf(r, s) ==
  /\ r.status \in {"pending", "retrying"}
  /\ s \in Record /\ s.dependsOn = r.dependsOn /\ s.status = "running"
  /\ s.leaseToken = lastToken + 1 /\ s.leaseUntil >= now
  /\ s.cancelRequested = r.cancelRequested /\ s.leaseLost = r.leaseLost

\* What Dequeue does when no task depends on another: one claim under a fresh token.
LEMMA DequeueWrites ==
  ASSUME StoreOK, Dequeue({Queue})
  PROVE  /\ lastToken' = lastToken + 1 /\ UNCHANGED <<chains, replayed, now, closed>>
         /\ \E t \in Tasks : \E s : ClaimOf(recs[t], s) /\ recs' = [recs EXCEPT ![t] = s]
<1>1. PICK t \in Ready({Queue}) : recs' = [recs EXCEPT ![t] = Claimed(recs[t])]
  BY DEF Dequeue
<1>2. t \in Tasks /\ recs[t].status \in {"pending", "retrying"}
  BY <1>1, StoreHas DEF Ready, Queued
<1>3. PICK r \in Record : r = recs[t]
  BY <1>2, StoreHas
<1>4. PICK token \in Nat, until \in Nat : token = lastToken + 1 /\ until = now + LeaseTTL[r.queue]
  BY StoreHas, ConstantsAssumption, SMTT(60) DEF Record
<1>5. until >= now
  BY <1>4, StoreHas, ConstantsAssumption, SMTT(60) DEF Record
<1> DEFINE s == [r EXCEPT !.status = "running", !.leaseToken = token, !.leaseUntil = until]
<1>6. recs' = [recs EXCEPT ![t] = s]
  BY <1>1, <1>3, <1>4 DEF Claimed
<1>7. s \in Record /\ s.dependsOn = r.dependsOn /\ s.status = "running" /\ s.leaseToken = token
      /\ s.leaseUntil = until /\ s.cancelRequested = r.cancelRequested /\ s.leaseLost = r.leaseLost
  BY DEF Record, Statuses
<1> HIDE DEF s
<1>8. ClaimOf(recs[t], s)
  BY <1>2, <1>3, <1>4, <1>5, <1>7 DEF ClaimOf
<1> QED BY <1>2, <1>6, <1>8 DEF Dequeue

\* A heartbeat of the holder moves the end of the lease, not back before now.
BeatOf(r, s) ==
  /\ s \in Record /\ s.dependsOn = r.dependsOn /\ s.status = r.status
  /\ s.leaseToken = r.leaseToken /\ s.leaseUntil >= now
  /\ s.cancelRequested = r.cancelRequested /\ s.leaseLost = r.leaseLost

\* Heartbeat touches the record of the caller's task only, and only for the holder.
LEMMA HeartbeatWrites ==
  ASSUME StoreOK, NEW t \in Tasks, NEW k, Heartbeat(t, k)
  PROVE  /\ HoldsLease(t, k) /\ StoreFrame
         /\ \E s : BeatOf(recs[t], s) /\ recs' = [recs EXCEPT ![t] = s]
<1>1. PICK r \in Record : r = recs[t]
  BY StoreHas
<1>0. LeaseTTL[r.queue] \in Nat /\ now \in Nat
  BY StoreHas, ConstantsAssumption DEF Record
<1>2. PICK until \in Nat : until = now + LeaseTTL[r.queue]
  BY <1>0
<1>3. until >= now
  BY <1>0, <1>2
<1> DEFINE s == [r EXCEPT !.leaseUntil = until]
<1>4. recs' = [recs EXCEPT ![t] = s]
  BY <1>1, <1>2, StoreHas DEF Heartbeat
<1>5. s \in Record /\ s.dependsOn = r.dependsOn /\ s.status = r.status /\ s.leaseToken = r.leaseToken
      /\ s.leaseUntil = until /\ s.cancelRequested = r.cancelRequested /\ s.leaseLost = r.leaseLost
  BY DEF Record
<1> HIDE DEF s
<1>6. BeatOf(recs[t], s)
  BY <1>1, <1>3, <1>5 DEF BeatOf
<1> QED BY <1>4, <1>6 DEF Heartbeat, StoreFrame

\* Cancel flags a running task and ends one that waits in the queue.
CancelOf(r, s) ==
  /\ s \in Record /\ s.dependsOn = r.dependsOn /\ s.leaseLost = r.leaseLost
  /\ \/ /\ r.status = "running" /\ s.status = "running"
        /\ s.leaseToken = r.leaseToken /\ s.leaseUntil = r.leaseUntil
     \/ /\ r.status \in {"pending", "retrying"} /\ s.status = "canceled"
        /\ s.leaseToken = NoToken

\* The in-memory broker's Cancel, without a cascade.
LEMMA CancelWrites ==
  ASSUME StoreOK, NEW t \in Tasks, Cancel(t)
  PROVE  StoreFrame /\ \E s : CancelOf(recs[t], s) /\ recs' = [recs EXCEPT ![t] = s]
<1>1. PICK r \in Record : r = recs[t]
  BY StoreHas
<1>2. ~IsFinal(r.status) /\ r.status # "blocked" /\ r.dependsOn = <<>> /\ Flat(recs)
  BY <1>1, StoreHas DEF Cancel, Flat
<1>3. CASE r.status = "running"
  <2> DEFINE s == [r EXCEPT !.cancelRequested = TRUE]
  <2>1. recs' = [recs EXCEPT ![t] = s]
    BY <1>1, <1>3, StoreHas DEF Cancel
  <2>2. s \in Record /\ s.dependsOn = r.dependsOn /\ s.status = r.status /\ s.leaseToken = r.leaseToken
        /\ s.leaseUntil = r.leaseUntil /\ s.leaseLost = r.leaseLost
    BY DEF Record
  <2> HIDE DEF s
  <2>3. CancelOf(recs[t], s)
    BY <1>1, <1>3, <2>2 DEF CancelOf
  <2> QED BY <2>1, <2>3 DEF Cancel, StoreFrame
<1>4. CASE r.status # "running"
  <2> DEFINE s == [ClearLease(r) EXCEPT !.status = "canceled"]
  <2>1. GoFinal(t, s)
    BY <1>1, <1>4 DEF Cancel
  <2>2. s \in Record /\ s.dependsOn = r.dependsOn /\ s.status = "canceled" /\ s.leaseToken = NoToken
        /\ s.leaseLost = r.leaseLost
    BY DEF ClearLease, Record, Statuses, NoToken
  <2> HIDE DEF s
  <2>3. r.status \in {"pending", "retrying"}
    BY <1>2, <1>4 DEF Record, Statuses, IsFinal
  <2>4. CancelOf(recs[t], s)
    BY <1>1, <2>2, <2>3 DEF CancelOf
  <2>5. recs' = [recs EXCEPT ![t] = s]
    BY <1>1, <1>2, <2>1, <2>2, FlatGoFinal
  <2> QED BY <2>4, <2>5 DEF Cancel, StoreFrame
<1> QED BY <1>3, <1>4

\* The reaper takes back the lease of record r: a cancellation is carried out,
\* any other loss is counted.
ReapOf(r, s) ==
  /\ Leaves(r, s) /\ s.status # "retrying"
  /\ r.status = "running" /\ ~(r.leaseUntil >= now)
  /\ s.status = "canceled" => r.cancelRequested
  /\ ~r.cancelRequested => s.leaseLost > 0
  /\ r.leaseLost > 0 => s.leaseLost > 0

\* One pass of ReapExpired: every record is left alone or taken back.
LEMMA ReapWritesFlat ==
  ASSUME StoreOK, ReapExpired
  PROVE  /\ StoreFrame
         /\ recs' \in [Tasks -> Record]
         /\ \A t \in Tasks : recs'[t] = recs[t] \/ ReapOf(recs[t], recs'[t])
<1> DEFINE E == {t \in DOMAIN recs : IsExpired(recs[t])}
           r1 == [t \in DOMAIN recs |-> IF t \in E THEN Reaped(recs[t]) ELSE recs[t]]
           R == {t \in E : IsFinal(r1[t].status)}
<1>1. ReapLeases(recs) = Propagate(r1, R)
  BY Zenon DEF ReapLeases
<1>2. ASSUME NEW t \in Tasks, IsExpired(recs[t]) PROVE ReapOf(recs[t], Reaped(recs[t]))
  <2>1. PICK r \in Record : r = recs[t] /\ r.status = "running" /\ r.leaseUntil < now
    BY <1>2, StoreHas DEF IsExpired
  <2>2. r.leaseLost \in Nat /\ r.leaseUntil \in Nat /\ now \in Nat /\ ~(r.leaseUntil >= now)
    BY <2>1, StoreHas DEF Record
  <2>3. CASE r.cancelRequested
    <3>1. PICK s : s = Finished(r, "canceled")
      OBVIOUS
    <3>2. Leaves(r, s) /\ s.status = "canceled" /\ s.leaseLost = r.leaseLost
      BY <3>1, FinishedLeaves
    <3>3. Reaped(r) = s
      BY <2>3, <3>1 DEF Reaped
    <3> QED BY <2>1, <2>2, <2>3, <3>2, <3>3 DEF ReapOf
  <2>4. CASE ~r.cancelRequested
    <3> DEFINE st == IF r.leaseLost + 1 >= LeaseLostMax THEN "failed" ELSE "pending"
               f == Finished(r, st)
    <3>1. Reaped(r) = [f EXCEPT !.leaseLost = @ + 1]
      BY <2>4 DEF Reaped
    <3>2. st \in {"failed", "pending"}
      OBVIOUS
    <3> HIDE DEF st
    <3>3. f \in Record /\ f.status = st /\ f.leaseToken = NoToken /\ f.cancelRequested = FALSE
          /\ f.dependsOn = r.dependsOn /\ f.leaseLost = r.leaseLost
      BY <3>2 DEF Finished, ClearLease, Record, Statuses, NoToken
    <3> HIDE DEF f
    <3>4. PICK n \in Nat : n = f.leaseLost + 1 /\ n > 0
      BY <2>2, <3>3
    <3> DEFINE s == [f EXCEPT !.leaseLost = n]
    <3>5. Reaped(r) = s
      BY <3>1, <3>4
    <3>6. s \in Record /\ s.status = st /\ s.leaseToken = NoToken /\ s.cancelRequested = FALSE
          /\ s.dependsOn = r.dependsOn /\ s.leaseLost = n
      BY <3>3 DEF Record
    <3> HIDE DEF s
    <3>7. Leaves(r, s) /\ s.status \notin {"retrying", "canceled"}
      BY <3>2, <3>6 DEF Leaves
    <3>8. ReapOf(r, s)
      BY <2>1, <2>2, <3>4, <3>6, <3>7 DEF ReapOf
    <3> QED BY <2>1, <3>5, <3>8
  <2> QED BY <2>3, <2>4
<1>3. /\ DOMAIN r1 = Tasks
      /\ \A t \in Tasks : r1[t] = IF IsExpired(recs[t]) THEN Reaped(recs[t]) ELSE recs[t]
  BY StoreHas
<1>4. \A t \in Tasks : r1[t] = recs[t] \/ ReapOf(recs[t], r1[t])
  BY <1>2, <1>3
<1> HIDE DEF r1, R
<1>5. \A t \in Tasks : r1[t] \in Record /\ r1[t].dependsOn = <<>> /\ r1[t].status # "blocked"
  BY <1>4, StoreHas DEF ReapOf, Leaves, StoreOK
<1>6. r1 \in [Tasks -> Record]
  <2>1. r1 = [t \in Tasks |-> r1[t]]
    BY <1>3 DEF r1
  <2> QED BY <1>5, <2>1
<1>7. Flat(r1)
  BY <1>5, <1>6 DEF Flat
<1>8. recs' = r1
  <2>1. PICK q, S : q = r1 /\ S = R
    OBVIOUS
  <2>2. Propagate(q, S) = q /\ Repair(q) = q
    BY <1>7, <2>1, FlatPropagate, FlatRepair
  <2> QED BY <1>1, <2>1, <2>2 DEF ReapExpired
<1> QED BY <1>4, <1>6, <1>8 DEF ReapExpired, StoreFrame

-------------------------------------------------------------------------------
(* One execution: what its steps do to the handle.                         *)

\* Handle x becomes y without being tracked, reported or ended: the marks only
\* grow, and what was reported stays.
HandleMove(x, y) ==
  /\ y \in Exec /\ HandleOK(y) /\ y.id = x.id
  /\ x.canceled => y.canceled
  /\ x.ctxDone => y.ctxDone
  /\ y.phase = x.phase \/ (y.phase \in {"returned", "decided"} /\ x.phase \in {"running", "returned"})
  /\ y.phase = x.phase => y.receipt = x.receipt /\ y.outcome = x.outcome

\* The kinds of marks: canceled, leaseLost, requeue and the context.
LEMMA MarkMoves ==
  ASSUME NEW x \in Exec, HandleOK(x)
  PROVE  /\ HandleMove(x, [x EXCEPT !.canceled = TRUE])
         /\ HandleMove(x, [x EXCEPT !.requeue = TRUE])
         /\ x.canceled \/ x.requeue => HandleMove(x, [x EXCEPT !.ctxDone = TRUE])
         /\ HandleMove(x, [x EXCEPT !.canceled = TRUE, !.ctxDone = TRUE])
         /\ HandleMove(x, [x EXCEPT !.leaseLost = TRUE, !.ctxDone = TRUE])
<1>1. HandleMove(x, [x EXCEPT !.canceled = TRUE])
  <2> DEFINE y == [x EXCEPT !.canceled = TRUE]
  <2>1. y \in Exec /\ y.id = x.id /\ y.phase = x.phase /\ y.canceled = TRUE /\ y.leaseLost = x.leaseLost
        /\ y.requeue = x.requeue /\ y.ctxDone = x.ctxDone /\ y.outcome = x.outcome /\ y.receipt = x.receipt
    BY DEF Exec
  <2> HIDE DEF y
  <2>2. HandleMove(x, y)
    BY <2>1, Zenon DEF HandleMove, HandleOK
  <2> QED BY <2>2 DEF y
<1>2. HandleMove(x, [x EXCEPT !.requeue = TRUE])
  <2> DEFINE y == [x EXCEPT !.requeue = TRUE]
  <2>1. y \in Exec /\ y.id = x.id /\ y.phase = x.phase /\ y.canceled = x.canceled /\ y.leaseLost = x.leaseLost
        /\ y.requeue = TRUE /\ y.ctxDone = x.ctxDone /\ y.outcome = x.outcome /\ y.receipt = x.receipt
    BY DEF Exec
  <2> HIDE DEF y
  <2>2. HandleMove(x, y)
    BY <2>1, Zenon DEF HandleMove, HandleOK
  <2> QED BY <2>2 DEF y
<1>3. ASSUME x.canceled \/ x.requeue PROVE HandleMove(x, [x EXCEPT !.ctxDone = TRUE])
  <2> DEFINE y == [x EXCEPT !.ctxDone = TRUE]
  <2>1. y \in Exec /\ y.id = x.id /\ y.phase = x.phase /\ y.canceled = x.canceled /\ y.leaseLost = x.leaseLost
        /\ y.requeue = x.requeue /\ y.ctxDone = TRUE /\ y.outcome = x.outcome /\ y.receipt = x.receipt
    BY DEF Exec
  <2> HIDE DEF y
  <2>2. HandleMove(x, y)
    BY <1>3, <2>1, Zenon DEF HandleMove, HandleOK
  <2> QED BY <2>2 DEF y
<1>4. HandleMove(x, [x EXCEPT !.canceled = TRUE, !.ctxDone = TRUE])
  <2> DEFINE y == [x EXCEPT !.canceled = TRUE, !.ctxDone = TRUE]
  <2>1. y \in Exec /\ y.id = x.id /\ y.phase = x.phase /\ y.canceled = TRUE /\ y.leaseLost = x.leaseLost
        /\ y.requeue = x.requeue /\ y.ctxDone = TRUE /\ y.outcome = x.outcome /\ y.receipt = x.receipt
    BY DEF Exec
  <2> HIDE DEF y
  <2>2. HandleMove(x, y)
    BY <2>1, Zenon DEF HandleMove, HandleOK
  <2> QED BY <2>2 DEF y
<1>5. HandleMove(x, [x EXCEPT !.leaseLost = TRUE, !.ctxDone = TRUE])
  <2> DEFINE y == [x EXCEPT !.leaseLost = TRUE, !.ctxDone = TRUE]
  <2>1. y \in Exec /\ y.id = x.id /\ y.phase = x.phase /\ y.canceled = x.canceled /\ y.leaseLost = TRUE
        /\ y.requeue = x.requeue /\ y.ctxDone = TRUE /\ y.outcome = x.outcome /\ y.receipt = x.receipt
    BY DEF Exec
  <2> HIDE DEF y
  <2>2. HandleMove(x, y)
    BY <2>1, Zenon DEF HandleMove, HandleOK
  <2> QED BY <2>2 DEF y
<1> QED BY <1>1, <1>2, <1>3, <1>4, <1>5

\* The handler returns, on its own account or because its context is done; the
\* receipt is chosen from the marks: never Fail for an interruption.
LEMMA ReturnMoves ==
  ASSUME NEW x \in Exec, HandleOK(x)
  PROVE  /\ \A o \in Outcomes : x.phase = "running" =>
              HandleMove(x, [x EXCEPT !.phase = "returned", !.outcome = o])
         /\ x.phase = "running" /\ x.ctxDone =>
              HandleMove(x, [x EXCEPT !.phase = "returned", !.outcome = Interrupted])
         /\ x.phase = "returned" =>
              HandleMove(x, [x EXCEPT !.phase = "decided", !.receipt = ReceiptFor(x)])
<1>1. ASSUME NEW o \in Outcomes \cup {Interrupted}, x.phase = "running", o = Interrupted => x.ctxDone
      PROVE  HandleMove(x, [x EXCEPT !.phase = "returned", !.outcome = o])
  <2> DEFINE y == [x EXCEPT !.phase = "returned", !.outcome = o]
  <2>1. y \in Exec /\ y.id = x.id /\ y.phase = "returned" /\ y.canceled = x.canceled /\ y.leaseLost = x.leaseLost
        /\ y.requeue = x.requeue /\ y.ctxDone = x.ctxDone /\ y.outcome = o /\ y.receipt = x.receipt
    BY DEF Exec, Phases
  <2> HIDE DEF y
  <2>2. x.receipt = "none"
    BY <1>1 DEF HandleOK
  <2>3. HandleOK(y)
    BY <1>1, <2>1, <2>2 DEF HandleOK
  <2>4. HandleMove(x, y)
    BY <1>1, <2>1, <2>3 DEF HandleMove
  <2> QED BY <2>4 DEF y
<1>2. ASSUME x.phase = "returned"
      PROVE  HandleMove(x, [x EXCEPT !.phase = "decided", !.receipt = ReceiptFor(x)])
  <2>1. PICK c : c = ReceiptFor(x)
    OBVIOUS
  <2>2. /\ c \in {"drop", "FinishCanceled", "Ack", "Requeue", "Fail"}
        /\ c = "drop" => x.leaseLost
        /\ c = "FinishCanceled" => x.canceled
        /\ c = "Fail" => x.outcome # Interrupted
        /\ x.outcome.kind = "ok" => c \in {"drop", "FinishCanceled", "Ack"}
    <3>1. x.outcome = Interrupted => x.ctxDone /\ (x.leaseLost \/ x.canceled \/ x.requeue)
      BY DEF HandleOK
    <3> QED BY <2>1, <3>1 DEF ReceiptFor
  <2> DEFINE y == [x EXCEPT !.phase = "decided", !.receipt = c]
  <2>3. y \in Exec /\ y.id = x.id /\ y.phase = "decided" /\ y.canceled = x.canceled /\ y.leaseLost = x.leaseLost
        /\ y.requeue = x.requeue /\ y.ctxDone = x.ctxDone /\ y.outcome = x.outcome /\ y.receipt = c
    BY <2>2 DEF Exec, Phases, Receipts
  <2> HIDE DEF y
  <2>4. HandleOK(y)
    BY <2>2, <2>3 DEF HandleOK
  <2>5. HandleMove(x, y)
    BY <1>2, <2>3, <2>4 DEF HandleMove
  <2> QED BY <2>1, <2>5 DEF y
<1>3. \A o \in Outcomes : o # Interrupted
  BY DEF Outcomes, Interrupted
<1> QED BY <1>1, <1>2, <1>3

\* Handle x is tracked while the Gate drains (d) or not; and it is reported.
TrackedAs(x, d, y) ==
  /\ y \in Exec /\ HandleOK(y) /\ y.id = x.id /\ y.phase = "running"
  /\ y.canceled = x.canceled /\ y.leaseLost = x.leaseLost /\ y.ctxDone = d

ReportedAs(x, y) ==
  /\ y \in Exec /\ HandleOK(y) /\ y.id = x.id /\ y.phase = "reported"
  /\ y.canceled = x.canceled /\ y.leaseLost = x.leaseLost
  /\ y.receipt = x.receipt /\ y.outcome = x.outcome

\* What Track and Receipt do to the handle of their execution.
LEMMA TrackMoves ==
  ASSUME NEW x \in Exec, HandleOK(x), NEW d \in BOOLEAN
  PROVE  /\ x.phase = "spawned" =>
              TrackedAs(x, d, [x EXCEPT !.phase = "running", !.requeue = d, !.ctxDone = d])
         /\ x.phase = "decided" => ReportedAs(x, [x EXCEPT !.phase = "reported"])
<1>1. ASSUME x.phase = "spawned"
      PROVE  TrackedAs(x, d, [x EXCEPT !.phase = "running", !.requeue = d, !.ctxDone = d])
  <2> DEFINE y == [x EXCEPT !.phase = "running", !.requeue = d, !.ctxDone = d]
  <2>1. y \in Exec /\ y.id = x.id /\ y.phase = "running" /\ y.canceled = x.canceled /\ y.leaseLost = x.leaseLost
        /\ y.requeue = d /\ y.ctxDone = d /\ y.outcome = x.outcome /\ y.receipt = x.receipt
    BY DEF Exec, Phases
  <2> HIDE DEF y
  <2>2. x.receipt = "none" /\ x.outcome = NoOutcome /\ NoOutcome # Interrupted
    BY <1>1 DEF HandleOK, NoOutcome, Interrupted
  <2>3. HandleOK(y)
    BY <2>1, <2>2 DEF HandleOK
  <2>4. TrackedAs(x, d, y)
    BY <2>1, <2>3 DEF TrackedAs
  <2> QED BY <2>4 DEF y
<1>2. ASSUME x.phase = "decided"
      PROVE  ReportedAs(x, [x EXCEPT !.phase = "reported"])
  <2> DEFINE y == [x EXCEPT !.phase = "reported"]
  <2>1. y \in Exec /\ y.id = x.id /\ y.phase = "reported" /\ y.canceled = x.canceled /\ y.leaseLost = x.leaseLost
        /\ y.requeue = x.requeue /\ y.ctxDone = x.ctxDone /\ y.outcome = x.outcome /\ y.receipt = x.receipt
    BY DEF Exec, Phases
  <2> HIDE DEF y
  <2>2. HandleOK(y)
    BY <1>2, <2>1 DEF HandleOK
  <2>3. ReportedAs(x, y)
    BY <2>1, <2>2 DEF ReportedAs
  <2> QED BY <2>3 DEF y
<1> QED BY <1>1, <1>2

-------------------------------------------------------------------------------
(* The steps.                                                              *)

\* What the broker's state shares with its next one when no lease changes hands:
\* each record is the same, up to a renewal of its lease.
StoreKept ==
  /\ recs' \in [Tasks -> Record]
  /\ \A t \in Tasks : recs'[t] = recs[t] \/ BeatOf(recs[t], recs'[t])
  /\ StoreFrame

\* A store that is kept still satisfies its part of the invariant, and every
\* lease has the same holder.
LEMMA KeptStore ==
  ASSUME StoreOK, StoreKept
  PROVE  /\ StoreOK'
         /\ \A t \in Tasks : /\ recs'[t].status = recs[t].status
                             /\ recs'[t].leaseToken = recs[t].leaseToken
                             /\ recs'[t].cancelRequested = recs[t].cancelRequested
                             /\ recs'[t].leaseLost = recs[t].leaseLost
                             /\ recs[t].leaseUntil >= now => recs'[t].leaseUntil >= now
<1>1. \A t \in Tasks : /\ recs'[t].status = recs[t].status
                       /\ recs'[t].dependsOn = recs[t].dependsOn
                       /\ recs'[t].leaseToken = recs[t].leaseToken
                       /\ recs'[t].cancelRequested = recs[t].cancelRequested
                       /\ recs'[t].leaseLost = recs[t].leaseLost
                       /\ recs[t].leaseUntil >= now => recs'[t].leaseUntil >= now
  BY DEF StoreKept, BeatOf
<1>2. StoreOK'
  BY <1>1 DEF StoreOK, StoreKept, StoreFrame
<1> QED BY <1>1, <1>2

\* A step of execution k, of its heartbeat, of Gate.Cancel or of the sweep that
\* only marks the handle or moves it on to its receipt.
MarksHandle(k, y) ==
  /\ HandleMove(exec[k], y)
  /\ exec' = [exec EXCEPT ![k] = y]
  /\ y.canceled => exec[k].canceled \/ exec[k].id \in asked
  /\ y.leaseLost => exec[k].leaseLost \/ ~(recs[exec[k].id].status = "running"
                                           /\ recs[exec[k].id].leaseToken = k)
  /\ StoreKept
  /\ UNCHANGED <<run, stopped, claim, slots, tasks, shut, draining, asked, faults>>
  /\ canceling' \subseteq canceling
  /\ \A j \in toCancel' : j \in toCancel \/ (j = k /\ y.canceled)
  /\ toSweep' = toSweep \/ (toSweep' = toSweep \ {k} /\ y.ctxDone)

\* Such a step preserves the invariant.
LEMMA MarkKeeps ==
  ASSUME SchedInv, NEW k \in DOMAIN exec, NEW y, MarksHandle(k, y)
  PROVE  SchedInv'
<1>1. PICK x : x = exec[k]
  OBVIOUS
<1>2. x \in Exec /\ x.id \in Tasks /\ HandleOK(x) /\ HandleMove(x, y) /\ k \in 1..lastToken
      /\ y \in Exec /\ y.id = x.id
  BY <1>1 DEF SchedInv, HandlesOK, ControlOK, MarksHandle, HandleMove, Exec
<1>3. /\ DOMAIN exec' = DOMAIN exec /\ exec'[k] = y
      /\ \A j \in DOMAIN exec : j # k => exec'[j] = exec[j]
      /\ exec' \in [DOMAIN exec -> Exec]
  BY <1>2 DEF MarksHandle, SchedInv, HandlesOK
<1>4. \A j \in DOMAIN exec : exec'[j].id = exec[j].id /\ exec[j].id \in Tasks
  BY <1>1, <1>2, <1>3 DEF SchedInv, HandlesOK, Exec
<1>5. StoreOK /\ StoreKept
  BY DEF SchedInv, MarksHandle
<1>6. StoreOK'
  BY <1>5, KeptStore
<1>7. \A t \in Tasks : /\ recs'[t].status = recs[t].status
                       /\ recs'[t].leaseToken = recs[t].leaseToken
                       /\ recs'[t].cancelRequested = recs[t].cancelRequested
                       /\ recs'[t].leaseLost = recs[t].leaseLost
                       /\ recs[t].leaseUntil >= now => recs'[t].leaseUntil >= now
  BY <1>5, KeptStore
<1>8. /\ lastToken' = lastToken /\ now' = now
      /\ run' = run /\ stopped' = stopped /\ claim' = claim /\ slots' = slots /\ tasks' = tasks
      /\ shut' = shut /\ draining' = draining /\ asked' = asked /\ faults' = faults
  BY DEF MarksHandle, StoreKept, StoreFrame
<1>9. ControlOK'
  BY <1>3, <1>8 DEF SchedInv, ControlOK, SlotAccounting
<1>10. HandlesOK'
  BY <1>2, <1>3 DEF SchedInv, HandlesOK, HandleMove
<1>11. TrackedOK'
  <2>1. \A j \in DOMAIN exec : /\ exec[j].phase # "spawned" => exec'[j].phase # "spawned"
                               /\ exec[j].canceled => exec'[j].canceled
    BY <1>1, <1>2, <1>3 DEF HandleMove
  <2>2. \A j \in toSweep' : j \in toSweep
    BY DEF MarksHandle
  <2>3. \A j \in toCancel' : j \in toCancel \/ (j = k /\ y.canceled)
    BY DEF MarksHandle
  <2> QED BY <1>2, <1>3, <1>4, <1>8, <2>1, <2>2, <2>3 DEF SchedInv, TrackedOK
<1>12. AskedOK'
  <2>1. \A j \in DOMAIN exec : exec'[j].canceled => exec[j].canceled \/ exec[j].id \in asked
    BY <1>3 DEF MarksHandle
  <2>2. canceling' \subseteq canceling
    BY DEF MarksHandle
  <2> QED BY <1>3, <1>4, <1>7, <1>8, <2>1, <2>2 DEF SchedInv, AskedOK
<1>13. LeasesOK'
  <2>1. ASSUME NEW j \in DOMAIN exec PROVE LeaseOK(j, exec[j], recs[exec[j].id])'
    <3>1. PICK t \in Tasks : t = exec[j].id /\ t = exec'[j].id
      BY <1>4
    <3>2. LeaseOK(j, exec[j], recs[t])
      BY <3>1 DEF SchedInv, LeasesOK
    <3>3. CASE j # k
      BY <1>3, <1>7, <1>8, <3>1, <3>2, <3>3 DEF LeaseOK
    <3>4. CASE j = k
      <4>1. y.leaseLost => ~(recs[t].status = "running" /\ recs[t].leaseToken = k)
        BY <1>1, <3>1, <3>2, <3>4 DEF MarksHandle, LeaseOK
      <4>2. /\ y.phase = "reported" <=> x.phase = "reported"
            /\ x.phase = "reported" => y.receipt = x.receipt /\ y.outcome = x.outcome
        BY <1>2 DEF HandleMove
      <4> QED BY <1>1, <1>2, <1>3, <1>7, <1>8, <3>1, <3>2, <3>4, <4>1, <4>2 DEF LeaseOK
    <3> QED BY <3>3, <3>4
  <2>2. \A j \in DOMAIN exec : exec'[j].phase = "reported" => exec[j].phase = "reported"
    BY <1>1, <1>2, <1>3 DEF HandleMove
  <2> QED BY <1>3, <1>4, <1>7, <1>8, <2>1, <2>2 DEF SchedInv, LeasesOK
<1>14. HoldersOK'
  <2>1. ASSUME PromptStart, NEW j \in DOMAIN exec PROVE HolderOK(j, exec[j], recs[exec[j].id])'
    <3>1. PICK t \in Tasks : t = exec[j].id /\ t = exec'[j].id
      BY <1>4
    <3>2. HolderOK(j, exec[j], recs[t])
      BY <2>1, <3>1 DEF SchedInv, HoldersOK
    <3>3. /\ exec'[j].phase = "spawned" => exec[j].phase = "spawned"
          /\ exec'[j].phase = "running" => exec[j].phase = "running"
          /\ exec[j].ctxDone => exec'[j].ctxDone
          /\ j \in toSweep => j \in toSweep' \/ exec'[j].ctxDone
      BY <1>1, <1>2, <1>3 DEF HandleMove, MarksHandle
    <3> QED BY <1>7, <1>8, <3>1, <3>2, <3>3 DEF HolderOK
  <2> QED BY <1>3, <2>1 DEF HoldersOK
<1> QED BY <1>6, <1>9, <1>10, <1>11, <1>12, <1>13, <1>14 DEF SchedInv

\* A store nobody writes to is kept.
LEMMA SameStore ==
  ASSUME StoreOK, UNCHANGED vars
  PROVE  StoreKept
BY DEF StoreOK, StoreKept, StoreFrame, vars

\* HandlerReturns, HandlerInterrupted and Decide preserve the invariant.
LEMMA HandlerKeeps ==
  ASSUME SchedInv, NEW k \in DOMAIN exec,
         HandlerReturns(k) \/ HandlerInterrupted(k) \/ Decide(k)
  PROVE  SchedInv'
<1>1. PICK x \in Exec : x = exec[k] /\ HandleOK(x)
  BY DEF SchedInv, HandlesOK
<1>2. \E y : HandleMove(x, y) /\ exec' = [exec EXCEPT ![k] = y]
             /\ y.canceled = x.canceled /\ y.leaseLost = x.leaseLost
  <2>1. CASE HandlerReturns(k)
    <3>1. PICK o \in Outcomes : exec' = [exec EXCEPT ![k].phase = "returned", ![k].outcome = o]
      BY <2>1 DEF HandlerReturns
    <3> DEFINE y == [x EXCEPT !.phase = "returned", !.outcome = o]
    <3>2. HandleMove(x, y)
      BY <1>1, <2>1, ReturnMoves DEF HandlerReturns
    <3>3. exec' = [exec EXCEPT ![k] = y] /\ y.canceled = x.canceled /\ y.leaseLost = x.leaseLost
      BY <1>1, <3>1 DEF Exec
    <3> QED BY <3>2, <3>3
  <2>2. CASE HandlerInterrupted(k)
    <3> DEFINE y == [x EXCEPT !.phase = "returned", !.outcome = Interrupted]
    <3>2. HandleMove(x, y)
      BY <1>1, <2>2, ReturnMoves DEF HandlerInterrupted
    <3>3. exec' = [exec EXCEPT ![k] = y] /\ y.canceled = x.canceled /\ y.leaseLost = x.leaseLost
      BY <1>1, <2>2 DEF Exec, HandlerInterrupted
    <3> QED BY <3>2, <3>3, ZenonT(60)
  <2>3. CASE Decide(k)
    <3> DEFINE y == [x EXCEPT !.phase = "decided", !.receipt = ReceiptFor(x)]
    <3>2. HandleMove(x, y)
      BY <1>1, <2>3, ReturnMoves, ZenonT(60) DEF Decide
    <3>3. exec' = [exec EXCEPT ![k] = y] /\ y.canceled = x.canceled /\ y.leaseLost = x.leaseLost
      BY <1>1, <2>3 DEF Exec, Decide
    <3> QED BY <3>2, <3>3
  <2> QED BY <2>1, <2>2, <2>3
<1>3. PICK y : HandleMove(x, y) /\ exec' = [exec EXCEPT ![k] = y]
               /\ y.canceled = x.canceled /\ y.leaseLost = x.leaseLost
  BY <1>2
<1>4. UNCHANGED vars /\ UNCHANGED execOnly /\ UNCHANGED <<tasks, slots, faults>>
  BY DEF HandlerReturns, HandlerInterrupted, Decide
<1>5. StoreKept
  BY <1>4, SameStore DEF SchedInv
<1>6. MarksHandle(k, y)
  BY <1>1, <1>3, <1>4, <1>5 DEF MarksHandle, execOnly
<1> QED BY <1>6, MarkKeeps

\* A heartbeat, automatic or called by the handler, preserves the invariant.
LEMMA RenewKeeps ==
  ASSUME SchedInv, NEW k \in DOMAIN exec, Renew(k)
  PROVE  SchedInv'
<1>1. PICK x \in Exec : x = exec[k] /\ HandleOK(x)
  BY DEF SchedInv, HandlesOK
<1>2. PICK t \in Tasks : t = x.id
  BY DEF Exec
<1>3. k \in 1..lastToken /\ lastToken \in Nat /\ NoToken = 0 /\ k # NoToken
  BY DEF SchedInv, ControlOK, StoreOK, NoToken
<1>4. UNCHANGED execOnly /\ UNCHANGED <<tasks, slots, faults>>
  BY DEF Renew
<1>5. CASE HoldsLease(t, k)
  <2>1. Heartbeat(t, k)
    BY <1>1, <1>2, <1>5 DEF Renew, Holds
  <2>2. PICK s : BeatOf(recs[t], s) /\ recs' = [recs EXCEPT ![t] = s]
    BY <2>1, HeartbeatWrites DEF SchedInv
  <2>3. StoreFrame
    BY <2>1, HeartbeatWrites DEF SchedInv
  <2>4. StoreKept
    BY <2>2, <2>3 DEF StoreKept, BeatOf, SchedInv, StoreOK
  <2>5. \E y : HandleMove(x, y) /\ exec' = [exec EXCEPT ![k] = y]
               /\ (y.canceled => x.canceled \/ t \in asked) /\ y.leaseLost = x.leaseLost
    <3>1. CASE recs[t].cancelRequested
      <4> DEFINE y == [x EXCEPT !.canceled = TRUE, !.ctxDone = TRUE]
      <4>1. HandleMove(x, y)
        BY <1>1, MarkMoves
      <4>2. exec' = [exec EXCEPT ![k] = y]
        BY <1>1, <1>2, <1>5, <3>1 DEF Renew, Holds, Exec
      <4>3. y.leaseLost = x.leaseLost /\ t \in asked
        BY <3>1 DEF Exec, SchedInv, AskedOK
      <4> QED BY <4>1, <4>2, <4>3
    <3>2. CASE ~recs[t].cancelRequested
      <4>1. HandleMove(x, x)
        BY <1>1 DEF HandleMove
      <4>2. exec' = [exec EXCEPT ![k] = x]
        BY <1>1, <1>2, <1>5, <3>2 DEF Renew, Holds, SchedInv, HandlesOK
      <4> QED BY <4>1, <4>2
    <3> QED BY <3>1, <3>2
  <2>6. PICK y : HandleMove(x, y) /\ exec' = [exec EXCEPT ![k] = y]
                 /\ (y.canceled => x.canceled \/ t \in asked) /\ y.leaseLost = x.leaseLost
    BY <2>5
  <2>7. MarksHandle(k, y)
    BY <1>1, <1>2, <1>4, <2>4, <2>6 DEF MarksHandle, execOnly
  <2> QED BY <2>7, MarkKeeps
<1>6. CASE ~HoldsLease(t, k)
  <2> DEFINE y == [x EXCEPT !.leaseLost = TRUE, !.ctxDone = TRUE]
  <2>1. HandleMove(x, y)
    BY <1>1, MarkMoves
  <2>2. exec' = [exec EXCEPT ![k] = y] /\ y.canceled = x.canceled
    BY <1>1, <1>2, <1>6 DEF Renew, Holds, Exec
  <2>3. StoreKept
    BY <1>1, <1>2, <1>6, SameStore DEF Renew, Holds, SchedInv
  <2>4. ~(recs[t].status = "running" /\ recs[t].leaseToken = k)
    BY <1>3, <1>6, StoreHas DEF HoldsLease, SchedInv
  <2> HIDE DEF y
  <2>5. MarksHandle(k, y)
    BY <1>1, <1>2, <1>4, <2>1, <2>2, <2>3, <2>4 DEF MarksHandle, execOnly
  <2> QED BY <2>5, MarkKeeps
<1> QED BY <1>5, <1>6

\* A step that leaves executions, leases and s.tasks alone: what is left to show
\* is the part about Run, the claim loop and Shutdown, and how the sweep sees it.
LEMMA QuietKeeps ==
  ASSUME SchedInv, StoreKept, UNCHANGED <<exec, tasks, asked, faults>>,
         ControlOK', TrackedOK', HoldersOK', canceling' \subseteq canceling
  PROVE  SchedInv'
<1>1. StoreOK'
  BY KeptStore DEF SchedInv
<1>2. \A t \in Tasks : /\ recs'[t].status = recs[t].status
                       /\ recs'[t].leaseToken = recs[t].leaseToken
                       /\ recs'[t].cancelRequested = recs[t].cancelRequested
                       /\ recs'[t].leaseLost = recs[t].leaseLost
  BY KeptStore DEF SchedInv
<1>3. HandlesOK'
  BY DEF SchedInv, HandlesOK
<1>4. AskedOK'
  BY <1>2 DEF SchedInv, AskedOK
<1>5. LeasesOK'
  <2>1. ASSUME NEW j \in DOMAIN exec PROVE LeaseOK(j, exec[j], recs[exec[j].id])'
    <3>1. exec[j].id \in Tasks /\ lastToken' = lastToken
      BY DEF SchedInv, HandlesOK, Exec, StoreKept, StoreFrame
    <3>2. LeaseOK(j, exec[j], recs[exec[j].id])
      BY DEF SchedInv, LeasesOK
    <3> QED BY <1>2, <3>1, <3>2 DEF LeaseOK
  <2> QED BY <1>2, <2>1 DEF SchedInv, LeasesOK
<1> QED BY <1>1, <1>3, <1>4, <1>5 DEF SchedInv

\* cancelLocal, the cancellation of the context and the sweep of Shutdown
\* preserve the invariant; the goroutine may be gone by then.
LEMMA CancelLocalKeeps ==
  ASSUME SchedInv, NEW id \in Tasks, CancelLocal(id)
  PROVE  SchedInv'
<1>1. StoreKept
  BY SameStore DEF SchedInv, CancelLocal
<1>2. CASE id \in DOMAIN tasks
  <2>1. PICK k : k = tasks[id]
    OBVIOUS
  <2>2. k \in DOMAIN exec /\ exec[k].id = id
    BY <1>2, <2>1 DEF SchedInv, TrackedOK
  <2>3. PICK x \in Exec : x = exec[k] /\ HandleOK(x)
    BY <2>2, SMTT(60) DEF SchedInv, HandlesOK
  <2> DEFINE y == [x EXCEPT !.canceled = TRUE]
  <2>4. HandleMove(x, y)
    BY <2>3, MarkMoves
  <2>5. exec' = [exec EXCEPT ![k] = y] /\ y.leaseLost = x.leaseLost /\ y.canceled
    BY <1>2, <2>1, <2>3 DEF CancelLocal, Exec
  <2> HIDE DEF y
  <2>6. id \in asked
    BY DEF CancelLocal, SchedInv, AskedOK
  <2>7. MarksHandle(k, y)
    BY <1>1, <1>2, <2>1, <2>2, <2>3, <2>4, <2>5, <2>6 DEF MarksHandle, CancelLocal
  <2> QED BY <2>2, <2>7, MarkKeeps
<1>3. CASE id \notin DOMAIN tasks
  <2>2. UNCHANGED <<vars, run, stopped, claim, slots, exec, tasks, shut, draining, toSweep, toCancel, asked, faults>>
        /\ canceling' \subseteq canceling
    BY <1>3 DEF CancelLocal
  <2>3. ControlOK' /\ TrackedOK' /\ HoldersOK'
    BY <2>2 DEF vars, SchedInv, ControlOK, SlotAccounting, TrackedOK, HoldersOK, HolderOK
  <2> QED BY <1>1, <2>2, <2>3, QuietKeeps
<1> QED BY <1>2, <1>3

\* The context of a canceled handle, whose goroutine may be gone, is canceled.
LEMMA CancelCtxKeeps ==
  ASSUME SchedInv, NEW k \in toCancel, CancelCtx(k)
  PROVE  SchedInv'
<1>1. StoreKept
  BY SameStore DEF SchedInv, CancelCtx
<1>2. CASE k \in DOMAIN exec
  <2>1. PICK x \in Exec : x = exec[k] /\ HandleOK(x) /\ x.canceled
    BY <1>2, SMTT(60) DEF SchedInv, HandlesOK, TrackedOK
  <2> DEFINE y == [x EXCEPT !.ctxDone = TRUE]
  <2>2. HandleMove(x, y)
    BY <2>1, MarkMoves
  <2>3. exec' = [exec EXCEPT ![k] = y] /\ y.leaseLost = x.leaseLost /\ y.canceled = x.canceled
    BY <1>2, <2>1 DEF CancelCtx, Exec
  <2> HIDE DEF y
  <2>4. MarksHandle(k, y)
    BY <1>1, <2>1, <2>2, <2>3 DEF MarksHandle, CancelCtx
  <2> QED BY <1>2, <2>4, MarkKeeps
<1>3. CASE k \notin DOMAIN exec
  <2>1. UNCHANGED <<vars, run, stopped, claim, slots, exec, tasks, shut, draining, toSweep, canceling, asked, faults>>
        /\ toCancel' \subseteq toCancel
    BY <1>3 DEF CancelCtx
  <2>2. ControlOK' /\ TrackedOK' /\ HoldersOK'
    BY <2>1 DEF vars, SchedInv, ControlOK, SlotAccounting, TrackedOK, HoldersOK, HolderOK
  <2> QED BY <1>1, <2>1, <2>2, QuietKeeps
<1> QED BY <1>2, <1>3

\* One of the two writes of the sweep: the mark first, then the context.
LEMMA SweepKeeps ==
  ASSUME SchedInv, NEW k \in toSweep, Sweep(k)
  PROVE  SchedInv'
<1>1. StoreKept
  BY SameStore DEF SchedInv, Sweep, shutOnly
<1>2. k \in DOMAIN exec
  BY DEF SchedInv, TrackedOK
<1>3. PICK x \in Exec : x = exec[k] /\ HandleOK(x)
  BY <1>2 DEF SchedInv, HandlesOK
<1>4. UNCHANGED <<run, stopped, claim, slots, tasks, shut, draining, canceling, toCancel, asked, faults>>
  BY DEF Sweep, shutOnly
<1>5. CASE ~x.requeue
  <2> DEFINE y == [x EXCEPT !.requeue = TRUE]
  <2>1. HandleMove(x, y)
    BY <1>3, MarkMoves
  <2>2. exec' = [exec EXCEPT ![k] = y] /\ y.leaseLost = x.leaseLost /\ y.canceled = x.canceled
        /\ toSweep' = toSweep
    BY <1>3, <1>5 DEF Sweep, Exec
  <2> HIDE DEF y
  <2>3. MarksHandle(k, y)
    BY <1>1, <1>3, <1>4, <2>1, <2>2, SMTT(60) DEF MarksHandle
  <2> QED BY <1>2, <2>3, MarkKeeps, SMTT(60)
<1>6. CASE x.requeue
  <2> DEFINE y == [x EXCEPT !.ctxDone = TRUE]
  <2>1. HandleMove(x, y)
    BY <1>3, <1>6, MarkMoves
  <2>2. exec' = [exec EXCEPT ![k] = y] /\ y.leaseLost = x.leaseLost /\ y.canceled = x.canceled
        /\ toSweep' = toSweep \ {k} /\ y.ctxDone
    BY <1>3, <1>6 DEF Sweep, Exec
  <2> HIDE DEF y
  <2>3. MarksHandle(k, y)
    BY <1>1, <1>3, <1>4, <2>1, <2>2 DEF MarksHandle
  <2> QED BY <1>2, <2>3, MarkKeeps
<1> QED BY <1>5, <1>6

\* There are finitely many execute goroutines: each has a token of its own.
LEMMA ExecFinite ==
  ASSUME SchedInv
  PROVE  IsFiniteSet(DOMAIN exec) /\ Cardinality(DOMAIN exec) \in Nat
<1>1. IsFiniteSet(1..lastToken)
  BY FS_Interval DEF SchedInv, StoreOK
<1> QED BY <1>1, FS_Subset, FS_CardinalityType DEF SchedInv, ControlOK

\* Run, the claim loop's waits and Shutdown: no execution and no lease changes.
LEMMA RunKeeps ==
  ASSUME SchedInv, RunStart \/ RunCtxDone \/ RunExit
  PROVE  SchedInv'
<1>1. StoreKept
  BY SameStore DEF SchedInv, RunStart, RunCtxDone, RunExit
<1>2. UNCHANGED <<vars, exec, tasks, shut, draining, toSweep, canceling, toCancel, asked, faults>>
  BY DEF RunStart, RunCtxDone, RunExit
<1>3. TrackedOK' /\ HoldersOK'
  BY <1>2 DEF vars, SchedInv, TrackedOK, HoldersOK, HolderOK
<1>4. ControlOK'
  <2>1. CASE RunStart
    <3>1. Cardinality(DOMAIN exec) = 0
      BY <2>1, FS_EmptySet DEF SchedInv, ControlOK, RunStart
    <3>2. Workers \in Nat /\ slots' = Workers /\ claim' = "acquire" /\ exec' = exec
      BY <2>1, SchedulerAssumption DEF RunStart
    <3>3. SlotAccounting'
      BY <3>1, <3>2 DEF SlotAccounting
    <3> QED BY <1>2, <2>1, <3>2, <3>3 DEF vars, SchedInv, ControlOK, RunStart
  <2>2. CASE RunCtxDone
    BY <1>2, <2>2 DEF vars, SchedInv, ControlOK, SlotAccounting, RunCtxDone
  <2>3. CASE RunExit
    <3>1. DOMAIN exec = {}
      BY <2>3, EmptySeq DEF RunExit
    <3> QED BY <1>2, <2>3, <3>1 DEF vars, SchedInv, ControlOK, SlotAccounting, RunExit
  <2> QED BY <2>1, <2>2, <2>3
<1> QED BY <1>1, <1>2, <1>3, <1>4, QuietKeeps

\* The claim loop takes a slot, waits for a token, or gives up and gives the
\* slot back.
LEMMA WaitKeeps ==
  ASSUME SchedInv, AcquireSlot \/ WaitToken
  PROVE  SchedInv'
<1>1. UNCHANGED <<vars, claimOnly, faults>>
  BY DEF AcquireSlot, WaitToken
<1>2. StoreKept
  BY <1>1, SameStore DEF SchedInv
<1>3. TrackedOK' /\ HoldersOK'
  BY <1>1 DEF vars, claimOnly, SchedInv, TrackedOK, HoldersOK, HolderOK
<1>4. ControlOK'
  <2>0. PICK n : n = Cardinality(DOMAIN exec)
    OBVIOUS
  <2>1. n \in Nat
    BY <2>0, ExecFinite
  <2>2. run = "active"
    BY DEF SchedInv, ControlOK, AcquireSlot, WaitToken
  <2>3. slots + n + (IF claim \in {"token", "dequeue"} THEN 1 ELSE 0) = Workers /\ slots \in Nat
    BY <2>0, <2>2 DEF SchedInv, ControlOK, SlotAccounting
  <2>4. /\ slots' \in Nat /\ claim' \in {"exited", "acquire", "token", "dequeue"}
        /\ slots' + n + (IF claim' \in {"token", "dequeue"} THEN 1 ELSE 0) = Workers
    BY <2>1, <2>3 DEF AcquireSlot, WaitToken
  <2> QED BY <1>1, <2>0, <2>2, <2>4 DEF vars, claimOnly, SchedInv, ControlOK, SlotAccounting
<1> QED BY <1>1, <1>2, <1>3, <1>4, QuietKeeps DEF claimOnly

\* The steps of Shutdown other than the writes of its sweep.  When the sweep
\* starts, tasksMu is held and every handle that counts is in s.tasks.
LEMMA ShutdownKeeps ==
  ASSUME SchedInv,
         ShutdownCall \/ ShutdownStop \/ ShutdownTimeout \/ SweepEnd \/ ShutdownReturn
  PROVE  SchedInv'
<1>1. UNCHANGED shutOnly /\ exec' = exec
  BY DEF ShutdownCall, ShutdownStop, ShutdownTimeout, SweepEnd, ShutdownReturn
<1>2. StoreKept
  BY <1>1, SameStore DEF SchedInv, shutOnly
<1>3. ControlOK'
  BY <1>1 DEF vars, shutOnly, SchedInv, ControlOK, SlotAccounting,
              ShutdownCall, ShutdownStop, ShutdownTimeout, SweepEnd, ShutdownReturn
<1>4. CASE ShutdownTimeout
  <2>1. toSweep' = {tasks[t] : t \in DOMAIN tasks} /\ shut' = "sweeping" /\ draining'
    BY <1>4 DEF ShutdownTimeout, Range
  <2>2. TrackedOK'
    BY <1>1, <2>1 DEF vars, shutOnly, SchedInv, TrackedOK
  <2>3. HoldersOK'
    BY <1>1, <2>1 DEF vars, shutOnly, SchedInv, HoldersOK, HolderOK
  <2> QED BY <1>1, <1>2, <1>3, <2>2, <2>3, QuietKeeps DEF shutOnly
<1>5. CASE SweepEnd
  <2>1. TrackedOK'
    BY <1>1, <1>5 DEF vars, shutOnly, SchedInv, TrackedOK, SweepEnd
  <2>2. HoldersOK'
    BY <1>1, <1>5 DEF vars, shutOnly, SchedInv, HoldersOK, HolderOK, SweepEnd
  <2> QED BY <1>1, <1>2, <1>3, <2>1, <2>2, QuietKeeps DEF shutOnly
<1>6. CASE ShutdownCall \/ ShutdownStop \/ ShutdownReturn
  <2>1. /\ shut' \in {"flagged", "waiting", "returned"} /\ toSweep' = toSweep /\ draining' = draining
        /\ shut # "sweeping"
    BY <1>6 DEF ShutdownCall, ShutdownStop, ShutdownReturn
  <2>2. TrackedOK'
    BY <1>1, <2>1 DEF vars, shutOnly, SchedInv, TrackedOK
  <2>3. HoldersOK'
    BY <1>1, <2>1 DEF vars, shutOnly, SchedInv, HoldersOK, HolderOK
  <2> QED BY <1>1, <1>2, <1>3, <2>2, <2>3, QuietKeeps DEF shutOnly
<1> QED BY <1>4, <1>5, <1>6

\* Time passes: under PromptStart not while an execution waits to be tracked.
LEMMA TimeKeeps ==
  ASSUME SchedInv, Time
  PROVE  SchedInv'
<1>1. UNCHANGED schedVars /\ UNCHANGED <<recs, chains, replayed, lastToken, closed>> /\ now' = now + 1
  BY DEF Time, Tick
<1>2. StoreOK'
  BY <1>1 DEF SchedInv, StoreOK
<1>3. ControlOK' /\ HandlesOK' /\ TrackedOK' /\ AskedOK'
  BY <1>1 DEF schedVars, SchedInv, ControlOK, SlotAccounting, HandlesOK, TrackedOK, AskedOK
<1>4. LeasesOK'
  BY <1>1 DEF schedVars, SchedInv, LeasesOK, LeaseOK
<1>5. HoldersOK'
  BY <1>1 DEF schedVars, SchedInv, HoldersOK, HolderOK, Time
<1> QED BY <1>2, <1>3, <1>4, <1>5 DEF SchedInv

\* Execution k is tracked: its handle replaces the one of an older execution,
\* and once the Gate drains it is interrupted at once.
LEMMA TrackKeeps ==
  ASSUME SchedInv, NEW k \in DOMAIN exec, Track(k)
  PROVE  SchedInv'
<1>1. PICK x \in Exec : x = exec[k] /\ HandleOK(x) /\ x.phase = "spawned"
  BY DEF SchedInv, HandlesOK, Track
<1>2. PICK t \in Tasks : t = x.id
  BY DEF Exec
<1>3. PICK d \in BOOLEAN : d = draining
  BY DEF SchedInv, ControlOK
<1> DEFINE y == [x EXCEPT !.phase = "running", !.requeue = d, !.ctxDone = d]
<1>4. /\ y \in Exec /\ HandleOK(y) /\ y.id = t /\ y.phase = "running"
      /\ y.canceled = x.canceled /\ y.leaseLost = x.leaseLost /\ y.ctxDone = d
  <2>1. TrackedAs(x, d, y)
    BY <1>1, TrackMoves
  <2> QED BY <1>2, <2>1 DEF TrackedAs
<1>5. exec' = [exec EXCEPT ![k] = y]
  BY <1>1, <1>3 DEF Track
<1> HIDE DEF y
<1>6. /\ DOMAIN exec' = DOMAIN exec /\ exec'[k] = y
      /\ \A j \in DOMAIN exec : j # k => exec'[j] = exec[j]
      /\ exec' \in [DOMAIN exec -> Exec]
  BY <1>4, <1>5 DEF SchedInv, HandlesOK
<1>7. \A j \in DOMAIN exec : exec'[j].id = exec[j].id /\ exec[j].id \in Tasks
  BY <1>1, <1>2, <1>4, <1>6 DEF SchedInv, HandlesOK, Exec
<1>8. /\ UNCHANGED <<vars, execOnly, slots, faults>> /\ shut # "sweeping"
      /\ DOMAIN tasks' = DOMAIN tasks \cup {t} /\ tasks'[t] = k
      /\ \A u \in DOMAIN tasks : u # t => tasks'[u] = tasks[u]
  BY <1>1, <1>2 DEF Track, tasksMuFree
<1>8a. tasks' \in [DOMAIN tasks' -> Nat]
  <2>1. k \in Nat
    BY DEF SchedInv, ControlOK
  <2> QED BY <1>1, <1>2, <2>1 DEF Track, SchedInv, TrackedOK
<1>9. StoreOK' /\ ControlOK'
  BY <1>6, <1>8 DEF vars, execOnly, SchedInv, StoreOK, ControlOK, SlotAccounting
<1>10. HandlesOK'
  BY <1>4, <1>6 DEF SchedInv, HandlesOK
<1>11. TrackedOK'
  <2>1. \A j \in DOMAIN exec : /\ exec[j].phase # "spawned" => exec'[j].phase # "spawned"
                               /\ exec[j].canceled => exec'[j].canceled
    BY <1>1, <1>4, <1>6
  <2>2. exec'[k].phase # "spawned" /\ exec'[k].id = t
    BY <1>4, <1>6
  <2> QED BY <1>6, <1>7, <1>8, <1>8a, <2>1, <2>2 DEF vars, execOnly, SchedInv, TrackedOK
<1>12. AskedOK'
  <2>1. \A j \in DOMAIN exec : exec'[j].canceled => exec[j].canceled
    BY <1>1, <1>4, <1>6
  <2> QED BY <1>6, <1>7, <1>8, <2>1 DEF vars, execOnly, SchedInv, AskedOK
<1>13. LeasesOK'
  <2>1. ASSUME NEW j \in DOMAIN exec PROVE LeaseOK(j, exec[j], recs[exec[j].id])'
    <3>1. LeaseOK(j, exec[j], recs[exec[j].id])
      BY DEF SchedInv, LeasesOK
    <3>2. CASE j # k
      BY <1>6, <1>8, <3>1, <3>2 DEF vars, execOnly, LeaseOK
    <3>3. CASE j = k
      BY <1>1, <1>2, <1>4, <1>6, <1>8, <3>1, <3>3 DEF vars, execOnly, LeaseOK
    <3> QED BY <3>2, <3>3
  <2>2. \A j \in DOMAIN exec : exec'[j].phase = "reported" => exec[j].phase = "reported"
    BY <1>4, <1>6
  <2> QED BY <1>6, <1>7, <1>8, <2>1, <2>2 DEF vars, execOnly, SchedInv, LeasesOK
<1>14. HoldersOK'
  <2>1. ASSUME PromptStart, NEW j \in DOMAIN exec PROVE HolderOK(j, exec[j], recs[exec[j].id])'
    <3>1. HolderOK(j, exec[j], recs[exec[j].id]) /\ HolderOK(k, exec[k], recs[exec[k].id])
      BY <2>1 DEF SchedInv, HoldersOK
    <3>2. CASE j = k
      <4>1. shut = "draining" => d
        BY <1>3 DEF SchedInv, TrackedOK
      <4> QED BY <1>4, <1>6, <1>8, <3>2, <4>1 DEF vars, execOnly, HolderOK
    <3>3. CASE j # k
      <4>1. recs[t].leaseToken = k
        BY <1>1, <1>2, <3>1 DEF HolderOK
      <4> QED BY <1>6, <1>8, <3>1, <3>3, <4>1 DEF vars, execOnly, HolderOK
    <3> QED BY <3>2, <3>3
  <2> QED BY <1>6, <2>1 DEF HoldersOK
<1> QED BY <1>9, <1>10, <1>11, <1>12, <1>13, <1>14 DEF SchedInv

\* Execution k reports to the broker, or fails to: only the holder of the lease
\* changes the record of its task, and a lost call is counted.
ReportStep(k) ==
  /\ StoreFrame /\ asked' = asked /\ faults' \in {faults, faults + 1}
  /\ \/ recs' = recs
     \/ /\ recs[exec[k].id].status = "running" /\ recs[exec[k].id].leaseToken = k
        /\ \E s : /\ Leaves(recs[exec[k].id], s) /\ s.leaseLost = recs[exec[k].id].leaseLost
                  /\ s.status = "canceled" => exec[k].id \in asked
                  /\ recs' = [recs EXCEPT ![exec[k].id] = s]

\* What such a report means for the store and for the other executions, older
\* ones of the same task included.
LEMMA ReportOthers ==
  ASSUME SchedInv, NEW k \in DOMAIN exec, ReportStep(k)
  PROVE  /\ StoreOK'
         /\ \A t \in Tasks : recs'[t].cancelRequested \/ recs'[t].status = "canceled" => t \in asked
         /\ \A t \in Tasks : t # exec[k].id => recs'[t] = recs[t]
         /\ \A t \in Tasks : recs'[t].status = "running" => recs'[t] = recs[t]
         /\ \A j \in DOMAIN exec : j # k =>
              /\ recs[exec[j].id].leaseToken = j => recs'[exec[j].id] = recs[exec[j].id]
              /\ exec'[j] = exec[j] => LeaseOK(j, exec[j], recs[exec[j].id])'
<1>0. /\ StoreOK /\ lastToken' = lastToken /\ now' = now /\ closed' = closed
      /\ lastToken \in Nat /\ NoToken = 0 /\ faults \in Nat /\ faults' \in Nat /\ (faults' = 0 => faults = 0)
      /\ asked' = asked
  BY DEF SchedInv, ReportStep, StoreFrame, StoreOK, ControlOK, NoToken
<1>1. /\ \A j \in DOMAIN exec : exec[j].id \in Tasks /\ LeaseOK(j, exec[j], recs[exec[j].id])
      /\ \A t \in Tasks : recs[t].cancelRequested \/ recs[t].status = "canceled" => t \in asked
  BY DEF SchedInv, HandlesOK, Exec, LeasesOK, AskedOK
<1>2. CASE recs' = recs
  <2>1. StoreOK'
    BY <1>0, <1>2 DEF StoreOK
  <2>2. ASSUME NEW j \in DOMAIN exec, exec'[j] = exec[j]
        PROVE  LeaseOK(j, exec[j], recs[exec[j].id])'
    BY <1>0, <1>1, <1>2, <2>2 DEF LeaseOK
  <2> QED BY <1>1, <1>2, <2>1, <2>2
<1>3. CASE recs' # recs
  <2>1. PICK t \in Tasks : t = exec[k].id
    BY <1>1
  <2>2. PICK s : /\ Leaves(recs[t], s) /\ s.leaseLost = recs[t].leaseLost
                 /\ s.status = "canceled" => t \in asked
                 /\ recs' = [recs EXCEPT ![t] = s]
    BY <1>3, <2>1 DEF ReportStep
  <2>3. recs[t].status = "running" /\ recs[t].leaseToken = k
    BY <1>3, <2>1 DEF ReportStep
  <2>4. /\ recs' \in [Tasks -> Record] /\ recs'[t] = s /\ s \in Record
        /\ \A u \in Tasks : u # t => recs'[u] = recs[u]
    BY <1>0, <2>2 DEF StoreOK, Leaves
  <2>5. /\ s.status \notin {"running", "blocked"} /\ s.leaseToken = 0 /\ s.dependsOn = recs[t].dependsOn
        /\ s.cancelRequested => recs[t].cancelRequested
    BY <1>0, <2>2 DEF Leaves
  <2>6. StoreOK'
    BY <1>0, <2>4, <2>5 DEF StoreOK
  <2>7. ASSUME NEW j \in DOMAIN exec, j # k, exec'[j] = exec[j]
        PROVE  LeaseOK(j, exec[j], recs[exec[j].id])'
    <3>1. CASE exec[j].id # t
      BY <1>0, <1>1, <2>4, <2>7, <3>1 DEF LeaseOK
    <3>2. CASE exec[j].id = t
      <4>1. LeaseOK(j, exec[j], recs[t])
        BY <1>1, <3>2
      <4>2. j # lastToken
        BY <2>3, <2>7, <4>1 DEF LeaseOK
      <4> QED BY <1>0, <2>2, <2>3, <2>4, <2>5, <2>7, <3>2, <4>1, <4>2 DEF LeaseOK
    <3> QED BY <3>1, <3>2
  <2>8. \A u \in Tasks : recs'[u].cancelRequested \/ recs'[u].status = "canceled" => u \in asked
    BY <1>1, <2>2, <2>4, <2>5
  <2>9. \A u \in Tasks : recs'[u].status = "running" => recs'[u] = recs[u]
    BY <2>4, <2>5
  <2>10. \A j \in DOMAIN exec : j # k /\ recs[exec[j].id].leaseToken = j => recs'[exec[j].id] = recs[exec[j].id]
    BY <1>1, <2>3, <2>4
  <2> QED BY <2>1, <2>4, <2>6, <2>7, <2>8, <2>9, <2>10
<1> QED BY <1>2, <1>3

\* Receipt: the result is reported, dropped with the lease, or lost.
LEMMA ReceiptKeeps ==
  ASSUME SchedInv, NEW k \in DOMAIN exec, Receipt(k)
  PROVE  SchedInv'
<1>1. PICK x \in Exec : x = exec[k] /\ HandleOK(x) /\ x.phase = "decided"
  BY DEF SchedInv, HandlesOK, Receipt
<1>2. PICK t \in Tasks : t = x.id
  BY DEF Exec
<1> DEFINE y == [x EXCEPT !.phase = "reported"]
<1>3. ReportedAs(x, y)
  BY <1>1, TrackMoves
<1>4. exec' = [exec EXCEPT ![k] = y]
  BY <1>1 DEF Receipt
<1> HIDE DEF y
<1>5. /\ DOMAIN exec' = DOMAIN exec /\ exec'[k] = y
      /\ \A j \in DOMAIN exec : j # k => exec'[j] = exec[j]
      /\ exec' \in [DOMAIN exec -> Exec]
  BY <1>3, <1>4 DEF SchedInv, HandlesOK, ReportedAs
<1>6. \A j \in DOMAIN exec : exec'[j].id = exec[j].id /\ exec[j].id \in Tasks
  BY <1>1, <1>2, <1>3, <1>5 DEF SchedInv, HandlesOK, Exec, ReportedAs
<1>7. UNCHANGED execOnly /\ tasks' = tasks /\ slots' = slots
  BY DEF Receipt
<1>8. k \in 1..lastToken /\ lastToken \in Nat /\ NoToken = 0 /\ k # NoToken /\ DOMAIN recs = Tasks /\ faults \in Nat
  BY DEF SchedInv, ControlOK, StoreOK, NoToken
<1>9. Holds(k) <=> recs[t].status = "running" /\ recs[t].leaseToken = k
  BY <1>1, <1>2, <1>8 DEF Holds, HoldsLease
<1>10. LeaseOK(k, x, recs[t])
  BY <1>1, <1>2 DEF SchedInv, LeasesOK
<1>11. \/ /\ Holds(k) /\ faults' = faults /\ StoreFrame
          /\ \E s : ReportOf(x.receipt, x.outcome.err, recs[t], s) /\ recs' = [recs EXCEPT ![t] = s]
       \/ ~Holds(k) /\ UNCHANGED vars /\ faults' = faults
       \/ Holds(k) /\ UNCHANGED vars /\ faults' = faults + 1
  <2>1. CASE Send(k) /\ faults' = faults
    <3>1. StoreOK /\ exec[k] \in Exec
      BY <1>1 DEF SchedInv
    <3>2. HoldsLease(exec[k].id, k) /\ StoreFrame
          /\ \E s : /\ ReportOf(exec[k].receipt, exec[k].outcome.err, recs[exec[k].id], s)
                    /\ recs' = [recs EXCEPT ![exec[k].id] = s]
      BY <2>1, <3>1, SendWrites
    <3> QED BY <1>1, <1>2, <2>1, <3>2 DEF Holds
  <2>2. CASE (exec[k].receipt = "drop" \/ ~Holds(k)) /\ UNCHANGED <<vars, faults>>
    <3>1. ~Holds(k)
      BY <1>1, <1>9, <1>10, <2>2 DEF LeaseOK, HandleOK
    <3> QED BY <2>2, <3>1
  <2>3. CASE Holds(k) /\ faults' = faults + 1 /\ UNCHANGED vars
    BY <2>3
  <2> QED BY <2>1, <2>2, <2>3 DEF Receipt
<1>12. ReportStep(k)
  <2>1. x.receipt = "FinishCanceled" => t \in asked
    BY <1>1, <1>2 DEF HandleOK, SchedInv, AskedOK
  <2>2. asked' = asked
    BY <1>7 DEF execOnly
  <2>3. CASE UNCHANGED vars /\ faults' \in {faults, faults + 1}
    BY <2>2, <2>3 DEF vars, ReportStep, StoreFrame
  <2>4. CASE /\ Holds(k) /\ faults' = faults /\ StoreFrame
             /\ \E s : ReportOf(x.receipt, x.outcome.err, recs[t], s) /\ recs' = [recs EXCEPT ![t] = s]
    <3>1. PICK s : ReportOf(x.receipt, x.outcome.err, recs[t], s) /\ recs' = [recs EXCEPT ![t] = s]
      BY <2>4
    <3> QED BY <1>1, <1>2, <1>9, <2>1, <2>2, <2>4, <3>1 DEF ReportStep, ReportOf
  <2> QED BY <1>11, <2>3, <2>4
<1>13. StoreOK'
  BY <1>12, ReportOthers
<1>14. ControlOK'
  <2>1. faults' \in Nat /\ lastToken' = lastToken
    BY <1>8, <1>12 DEF ReportStep, StoreFrame
  <2> QED BY <1>5, <1>7, <2>1 DEF execOnly, SchedInv, ControlOK, SlotAccounting
<1>15. HandlesOK'
  BY <1>3, <1>5 DEF SchedInv, HandlesOK, ReportedAs
<1>16. TrackedOK'
  <2>1. \A j \in DOMAIN exec : /\ exec[j].phase # "spawned" => exec'[j].phase # "spawned"
                               /\ exec[j].canceled => exec'[j].canceled
    BY <1>1, <1>3, <1>5 DEF ReportedAs
  <2>2. lastToken' = lastToken
    BY <1>12 DEF ReportStep, StoreFrame
  <2> QED BY <1>5, <1>6, <1>7, <2>1, <2>2 DEF execOnly, SchedInv, TrackedOK
<1>17. AskedOK'
  <2>1. \A j \in DOMAIN exec : exec'[j].canceled => exec[j].canceled
    BY <1>1, <1>3, <1>5 DEF ReportedAs
  <2>2. \A u \in Tasks : recs'[u].cancelRequested \/ recs'[u].status = "canceled" => u \in asked
    BY <1>12, ReportOthers
  <2> QED BY <1>5, <1>6, <1>7, <2>1, <2>2 DEF execOnly, SchedInv, AskedOK
<1>18. LeasesOK'
  <2>1. \A j \in DOMAIN exec : j # k => LeaseOK(j, exec[j], recs[exec[j].id])'
    BY <1>5, <1>12, ReportOthers
  <2>2. LeaseOK(k, exec[k], recs[exec[k].id])'
    <3>0. /\ lastToken' = lastToken /\ asked' = asked /\ exec'[k].id = t /\ exec'[k] = y
          /\ y.id = t /\ y.phase = "reported" /\ y.receipt = x.receipt /\ y.outcome = x.outcome
          /\ y.leaseLost = x.leaseLost
      BY <1>2, <1>3, <1>5, <1>12 DEF ReportStep, StoreFrame, ReportedAs
    <3>1. CASE ~Holds(k) /\ UNCHANGED vars /\ faults' = faults
      BY <1>1, <1>2, <1>9, <1>10, <3>0, <3>1 DEF vars, LeaseOK
    <3>2. CASE Holds(k) /\ UNCHANGED vars /\ faults' = faults + 1
      BY <1>1, <1>2, <1>8, <1>9, <1>10, <3>0, <3>2 DEF vars, LeaseOK
    <3>3. CASE /\ Holds(k) /\ faults' = faults /\ StoreFrame
               /\ \E s : ReportOf(x.receipt, x.outcome.err, recs[t], s) /\ recs' = [recs EXCEPT ![t] = s]
      <4>1. PICK s : ReportOf(x.receipt, x.outcome.err, recs[t], s) /\ recs' = [recs EXCEPT ![t] = s]
        BY <3>3
      <4>2. recs'[t] = s
        BY <1>8, <4>1
      <4>3. s.status # "running" /\ (s.status = "retrying" => x.receipt = "Fail" /\ "skip" \notin x.outcome.err)
            /\ (x.receipt = "Ack" => s.status = "completed")
        BY <4>1 DEF ReportOf, Leaves
      <4>4. x.outcome.kind = "ok" /\ t \notin asked => x.receipt = "Ack"
        <5>1. x.receipt # "drop"
          BY <1>1, <1>9, <1>10, <3>3 DEF HandleOK, LeaseOK
        <5>2. x.receipt = "FinishCanceled" => t \in asked
          BY <1>1, <1>2 DEF HandleOK, SchedInv, AskedOK
        <5> QED BY <1>1, <5>1, <5>2 DEF HandleOK
      <4> QED BY <3>0, <4>2, <4>3, <4>4 DEF LeaseOK
    <3> QED BY <1>11, <3>1, <3>2, <3>3
  <2>3. ASSUME faults' = 0, NEW u \in Tasks, recs'[u].status = "running"
        PROVE  /\ recs'[u].leaseToken \in DOMAIN exec'
               /\ exec'[recs'[u].leaseToken].id = u /\ exec'[recs'[u].leaseToken].phase # "reported"
    <3>1. recs'[u] = recs[u] /\ faults = 0
      BY <1>8, <1>12, <2>3, ReportOthers DEF ReportStep
    <3>2. PICK j \in DOMAIN exec : j = recs[u].leaseToken /\ exec[j].id = u /\ exec[j].phase # "reported"
      BY <2>3, <3>1 DEF SchedInv, LeasesOK
    <3>3. j # k
      <4>1. SUFFICES ASSUME j = k PROVE FALSE
        OBVIOUS
      <4>2. u = t /\ Holds(k)
        BY <1>1, <1>2, <1>9, <2>3, <3>1, <3>2, <4>1
      <4>3. PICK s : ReportOf(x.receipt, x.outcome.err, recs[t], s) /\ recs' = [recs EXCEPT ![t] = s]
        BY <1>8, <1>11, <2>3, <4>2
      <4> QED BY <1>8, <2>3, <4>2, <4>3 DEF ReportOf, Leaves
    <3> QED BY <1>5, <3>1, <3>2, <3>3
  <2> QED BY <1>5, <2>1, <2>2, <2>3 DEF LeasesOK
<1>19. HoldersOK'
  <2>1. ASSUME PromptStart, NEW j \in DOMAIN exec PROVE HolderOK(j, exec[j], recs[exec[j].id])'
    <3>1. CASE j = k
      BY <1>3, <1>5, <3>1 DEF HolderOK, ReportedAs
    <3>2. CASE j # k
      <4>1. HolderOK(j, exec[j], recs[exec[j].id])
        BY <2>1 DEF SchedInv, HoldersOK
      <4>2. PICK u \in Tasks : u = exec[j].id
        BY <1>6
      <4>3. /\ recs[u].leaseToken = j => recs'[u] = recs[u]
            /\ recs'[u].status = "running" => recs'[u] = recs[u]
        BY <1>12, <3>2, <4>2, ReportOthers
      <4>4. now' = now /\ exec'[j] = exec[j] /\ tasks' = tasks /\ shut' = shut /\ toSweep' = toSweep
        BY <1>5, <1>7, <1>12, <3>2 DEF ReportStep, StoreFrame, execOnly
      <4> QED BY <4>1, <4>2, <4>3, <4>4 DEF HolderOK
    <3> QED BY <3>1, <3>2
  <2> QED BY <1>5, <2>1 DEF HoldersOK
<1> QED BY <1>13, <1>14, <1>15, <1>16, <1>17, <1>18, <1>19 DEF SchedInv

\* An execute goroutine ends: its entry of s.tasks and its slot are given back,
\* and it leaves no lease behind unless a call was lost.
LEMMA EndKeeps ==
  ASSUME SchedInv, NEW k \in DOMAIN exec, End(k), ReportStep(k), UNCHANGED execOnly,
         k \notin toSweep,
         tasks' \in [DOMAIN tasks' -> Nat], DOMAIN tasks' \subseteq DOMAIN tasks,
         \A u \in DOMAIN tasks' : tasks'[u] = tasks[u] /\ tasks[u] # k,
         \A u \in DOMAIN tasks : tasks[u] # k => u \in DOMAIN tasks',
         faults' = 0 => ~(recs'[exec[k].id].status = "running" /\ recs'[exec[k].id].leaseToken = k)
  PROVE  SchedInv'
<1>1. /\ DOMAIN exec' = DOMAIN exec \ {k} /\ exec' \in [DOMAIN exec' -> Exec]
      /\ \A j \in DOMAIN exec : j # k => exec'[j] = exec[j]
  BY DEF End, SchedInv, HandlesOK
<1>2. /\ lastToken' = lastToken /\ lastToken \in Nat /\ now' = now /\ faults \in Nat /\ faults' \in Nat
      /\ faults' = 0 => faults = 0
  BY DEF ReportStep, StoreFrame, SchedInv, ControlOK, StoreOK
<1>3. StoreOK'
  BY ReportOthers
<1>4. ControlOK'
  <2>1. PICK n, m : n = Cardinality(DOMAIN exec) /\ m = Cardinality(DOMAIN exec')
    OBVIOUS
  <2>2. n \in Nat /\ m = n - 1 /\ m \in Nat
    <3>1. PICK D : D = DOMAIN exec
      OBVIOUS
    <3>3. IsFiniteSet(D)
      BY <3>1, ExecFinite
    <3>4. Cardinality(D) \in Nat /\ IsFiniteSet(D \ {k}) /\ Cardinality(D \ {k}) = Cardinality(D) - 1
      BY <3>1, <3>3, FS_CardinalityType, FS_RemoveElement
    <3>5. Cardinality(D \ {k}) \in Nat
      BY <3>4, FS_CardinalityType
    <3> QED BY <1>1, <2>1, <3>1, <3>4, <3>5
  <2>3. run = "active" /\ run' = run /\ claim' = claim /\ slots' = slots + 1 /\ slots \in Nat
    BY DEF SchedInv, ControlOK, End, execOnly
  <2>4. slots + n + (IF claim \in {"token", "dequeue"} THEN 1 ELSE 0) = Workers
    BY <2>1, <2>3 DEF SchedInv, ControlOK, SlotAccounting
  <2>5. slots' + m + (IF claim' \in {"token", "dequeue"} THEN 1 ELSE 0) = Workers /\ slots' \in Nat
    BY <2>2, <2>3, <2>4
  <2>6. SlotAccounting'
    BY <2>1, <2>5 DEF SlotAccounting
  <2> QED BY <1>1, <1>2, <2>3, <2>5, <2>6 DEF execOnly, SchedInv, ControlOK
<1>5. HandlesOK'
  BY <1>1 DEF SchedInv, HandlesOK
<1>6. TrackedOK'
  BY <1>1, <1>2 DEF execOnly, SchedInv, TrackedOK
<1>7. AskedOK'
  <2>1. \A u \in Tasks : recs'[u].cancelRequested \/ recs'[u].status = "canceled" => u \in asked
    BY ReportOthers
  <2> QED BY <1>1, <2>1 DEF execOnly, SchedInv, AskedOK
<1>8. LeasesOK'
  <2>1. \A j \in DOMAIN exec : j # k => LeaseOK(j, exec[j], recs[exec[j].id])'
    BY <1>1, ReportOthers
  <2>2. ASSUME faults' = 0, NEW u \in Tasks, recs'[u].status = "running"
        PROVE  /\ recs'[u].leaseToken \in DOMAIN exec'
               /\ exec'[recs'[u].leaseToken].id = u /\ exec'[recs'[u].leaseToken].phase # "reported"
    <3>1. recs'[u] = recs[u] /\ faults = 0
      BY <1>2, <2>2, ReportOthers
    <3>2. PICK j \in DOMAIN exec : j = recs[u].leaseToken /\ exec[j].id = u /\ exec[j].phase # "reported"
      BY <2>2, <3>1 DEF SchedInv, LeasesOK
    <3>3. j # k
      BY <2>2, <3>1, <3>2
    <3> QED BY <1>1, <3>1, <3>2, <3>3
  <2> QED BY <1>1, <2>1, <2>2 DEF LeasesOK
<1>9. HoldersOK'
  <2>1. ASSUME PromptStart, NEW j \in DOMAIN exec, j # k PROVE HolderOK(j, exec[j], recs[exec[j].id])'
    <3>1. HolderOK(j, exec[j], recs[exec[j].id])
      BY <2>1 DEF SchedInv, HoldersOK
    <3>2. PICK u \in Tasks : u = exec[j].id
      BY DEF SchedInv, HandlesOK, Exec
    <3>3. /\ recs[u].leaseToken = j => recs'[u] = recs[u]
          /\ recs'[u].status = "running" => recs'[u] = recs[u]
      BY <2>1, <3>2, ReportOthers
    <3>4. exec'[j] = exec[j] /\ shut' = shut /\ toSweep' = toSweep
          /\ (u \in DOMAIN tasks /\ tasks[u] = j => u \in DOMAIN tasks' /\ tasks'[u] = j)
      BY <1>1, <2>1 DEF execOnly
    <3> QED BY <1>2, <3>1, <3>2, <3>3, <3>4 DEF HolderOK
  <2> QED BY <1>1, <2>1 DEF HoldersOK
<1> QED BY <1>3, <1>4, <1>5, <1>6, <1>7, <1>8, <1>9 DEF SchedInv

\* untrack deletes the goroutine's own entry only.
LEMMA UntrackKeeps ==
  ASSUME SchedInv, NEW k \in DOMAIN exec, Untrack(k)
  PROVE  SchedInv'
<1>1. PICK t \in Tasks : t = exec[k].id
  BY DEF SchedInv, HandlesOK, Exec
<1>2. End(k) /\ UNCHANGED <<vars, execOnly, faults>> /\ exec[k].phase = "reported" /\ shut # "sweeping"
  BY DEF Untrack, tasksMuFree
<1>3. ReportStep(k)
  BY <1>2 DEF ReportStep, StoreFrame, vars, execOnly
<1>4. k \notin toSweep
  BY <1>2 DEF SchedInv, TrackedOK
<1>5. tasks \in [DOMAIN tasks -> Nat] /\ \A u \in DOMAIN tasks : tasks[u] = k => u = t
  BY <1>1 DEF SchedInv, TrackedOK
<1>6. /\ tasks' \in [DOMAIN tasks' -> Nat] /\ DOMAIN tasks' \subseteq DOMAIN tasks
      /\ \A u \in DOMAIN tasks' : tasks'[u] = tasks[u] /\ tasks[u] # k
      /\ \A u \in DOMAIN tasks : tasks[u] # k => u \in DOMAIN tasks'
  <2>1. CASE t \in DOMAIN tasks /\ tasks[t] = k
    <3>1. tasks' = [u \in DOMAIN tasks \ {t} |-> tasks[u]]
      BY <1>1, <2>1 DEF Untrack, Without
    <3> QED BY <1>5, <2>1, <3>1
  <2>2. CASE ~(t \in DOMAIN tasks /\ tasks[t] = k)
    <3>1. tasks' = tasks
      BY <1>1, <2>2 DEF Untrack
    <3> QED BY <1>5, <2>2, <3>1
  <2> QED BY <2>1, <2>2
<1>7. ASSUME faults' = 0, recs'[exec[k].id].status = "running", recs'[exec[k].id].leaseToken = k
      PROVE  FALSE
  BY <1>1, <1>2, <1>7 DEF vars, SchedInv, LeasesOK
<1> QED BY <1>2, <1>3, <1>4, <1>6, <1>7, EndKeeps

\* A task without a handler is failed at once, or the goroutine ends because its
\* lease is gone or the call is lost.
LEMMA NoHandlerKeeps ==
  ASSUME SchedInv, NEW k \in DOMAIN exec, NoHandler(k)
  PROVE  SchedInv'
<1>1. PICK t \in Tasks : t = exec[k].id
  BY DEF SchedInv, HandlesOK, Exec
<1>2. End(k) /\ UNCHANGED execOnly /\ tasks' = tasks /\ exec[k].phase = "spawned"
  BY DEF NoHandler
<1>3. k \notin toSweep /\ tasks \in [DOMAIN tasks -> Nat] /\ \A u \in DOMAIN tasks : tasks[u] # k
  BY <1>2 DEF SchedInv, TrackedOK
<1>4. k \in 1..lastToken /\ lastToken \in Nat /\ NoToken = 0 /\ k # NoToken /\ DOMAIN recs = Tasks /\ faults \in Nat
  BY DEF SchedInv, ControlOK, StoreOK, NoToken
<1>5. Holds(k) <=> recs[t].status = "running" /\ recs[t].leaseToken = k
  BY <1>1, <1>4 DEF Holds, HoldsLease
<1>6. /\ ReportStep(k)
      /\ faults' = 0 => ~(recs'[t].status = "running" /\ recs'[t].leaseToken = k)
  <2>0. asked' = asked
    BY <1>2 DEF execOnly
  <2>1. CASE Holds(k) /\ Fail(exec[k].id, k, "skip", 0) /\ faults' = faults
    <3>1. Fail(t, k, "skip", 0) /\ "skip" \in FailKinds /\ 0 \in Nat
      BY <1>1, <2>1 DEF FailKinds
    <3>2. FailResult(t, "skip", {})
      <4>1. Flat(recs) /\ now \in Nat
        BY StoreHas DEF SchedInv
      <4>2. "skip" # "skip" => "skip" \notin {}
        OBVIOUS
      <4> QED BY <3>1, <4>1, <4>2, FailWrites, Zenon
    <3>3. PICK s : /\ ReportOf("Fail", {}, recs[t], s) /\ recs' = [recs EXCEPT ![t] = s]
                   /\ s.status = "failed"
      BY <3>2 DEF FailResult
    <3>4. StoreFrame
      BY <3>1 DEF Fail, StoreFrame
    <3>5. ReportStep(k)
      BY <1>1, <1>5, <2>0, <2>1, <3>3, <3>4 DEF ReportStep, ReportOf
    <3>6. recs'[t].status = "failed"
      BY <1>4, <3>3
    <3> QED BY <3>5, <3>6
  <2>2. CASE ~Holds(k) /\ UNCHANGED <<vars, faults>>
    BY <1>5, <2>0, <2>2 DEF ReportStep, StoreFrame, vars
  <2>3. CASE faults' = faults + 1 /\ UNCHANGED vars
    BY <1>4, <2>0, <2>3 DEF ReportStep, StoreFrame, vars
  <2> QED BY <2>1, <2>2, <2>3 DEF NoHandler
<1> QED BY <1>1, <1>2, <1>3, <1>6, EndKeeps

\* The reaper takes back leases: executions that held one are not told.
LEMMA ReapKeeps ==
  ASSUME SchedInv, Reap
  PROVE  SchedInv'
<1>1. UNCHANGED schedVars /\ ReapExpired /\ StoreOK
  BY DEF Reap, SchedInv
<1>2. /\ StoreFrame /\ recs' \in [Tasks -> Record]
      /\ \A t \in Tasks : recs'[t] = recs[t] \/ ReapOf(recs[t], recs'[t])
  BY <1>1, ReapWritesFlat
<1>3. lastToken' = lastToken /\ now' = now /\ closed' = closed /\ lastToken \in Nat /\ NoToken = 0
  BY <1>1, <1>2 DEF StoreFrame, StoreOK, NoToken
<1>4. StoreOK'
  BY <1>1, <1>2, <1>3 DEF StoreOK, ReapOf, Leaves
<1>5. ControlOK' /\ HandlesOK' /\ TrackedOK'
  BY <1>1, <1>3 DEF schedVars, SchedInv, ControlOK, SlotAccounting, HandlesOK, TrackedOK
<1>6. AskedOK'
  BY <1>1, <1>2 DEF schedVars, SchedInv, AskedOK, ReapOf, Leaves
<1>7. \A j \in DOMAIN exec : exec[j].id \in Tasks
  BY DEF SchedInv, HandlesOK, Exec
<1>8. LeasesOK'
  <2>1. ASSUME NEW j \in DOMAIN exec PROVE LeaseOK(j, exec[j], recs[exec[j].id])'
    <3>1. PICK t \in Tasks : t = exec[j].id
      BY <1>7
    <3>2. LeaseOK(j, exec[j], recs[t])
      BY <3>1 DEF SchedInv, LeasesOK
    <3>3. CASE recs'[t] = recs[t]
      BY <1>1, <1>3, <3>1, <3>2, <3>3 DEF schedVars, LeaseOK
    <3>4. CASE ReapOf(recs[t], recs'[t])
      <4>1. recs[t].cancelRequested => t \in asked
        BY DEF SchedInv, AskedOK
      <4>2. recs'[t].status \notin {"running", "retrying"}
        BY <3>4 DEF ReapOf, Leaves
      <4>3. t \notin asked => recs'[t].leaseLost > 0
        BY <3>4, <4>1 DEF ReapOf
      <4> QED BY <1>1, <3>1, <4>2, <4>3 DEF schedVars, LeaseOK
    <3> QED BY <1>2, <3>3, <3>4
  <2>2. \A t \in Tasks : recs'[t].status = "running" => recs'[t] = recs[t]
    BY <1>2 DEF ReapOf, Leaves
  <2> QED BY <1>1, <2>1, <2>2 DEF schedVars, SchedInv, LeasesOK
<1>9. HoldersOK'
  <2>1. ASSUME PromptStart, NEW j \in DOMAIN exec PROVE HolderOK(j, exec[j], recs[exec[j].id])'
    <3>1. PICK t \in Tasks : t = exec[j].id
      BY <1>7
    <3>2. HolderOK(j, exec[j], recs[t])
      BY <2>1, <3>1 DEF SchedInv, HoldersOK
    <3>3. CASE recs'[t] = recs[t]
      BY <1>1, <1>3, <3>1, <3>2, <3>3 DEF schedVars, HolderOK
    <3>4. CASE ReapOf(recs[t], recs'[t])
      <4>1. exec[j].phase # "spawned"
        BY <3>2, <3>4 DEF HolderOK, ReapOf
      <4>2. recs'[t].status # "running"
        BY <3>4 DEF ReapOf, Leaves
      <4> QED BY <1>1, <3>1, <4>1, <4>2 DEF schedVars, HolderOK
    <3> QED BY <1>2, <3>3, <3>4
  <2> QED BY <1>1, <2>1 DEF schedVars, HoldersOK
<1> QED BY <1>4, <1>5, <1>6, <1>8, <1>9 DEF SchedInv

\* Gate.Cancel's call of the broker: a running task is flagged and keeps its lease.
LEMMA CancelCallKeeps ==
  ASSUME SchedInv, NEW id \in Tasks, CancelCall(id)
  PROVE  SchedInv'
<1>1. /\ UNCHANGED <<run, stopped, claim, slots, exec, tasks, shut, draining, toSweep, toCancel, faults>>
      /\ asked' = asked \cup {id} /\ canceling' = canceling \cup {id} /\ Cancel(id) /\ StoreOK
  BY DEF CancelCall, SchedInv
<1>2. PICK s : CancelOf(recs[id], s) /\ recs' = [recs EXCEPT ![id] = s]
  BY <1>1, CancelWrites
<1>3. StoreFrame
  BY <1>1, CancelWrites
<1>4. lastToken' = lastToken /\ now' = now /\ closed' = closed /\ lastToken \in Nat /\ NoToken = 0
  BY <1>1, <1>3 DEF StoreFrame, StoreOK, NoToken
<1>5. /\ recs' \in [Tasks -> Record] /\ recs'[id] = s /\ s \in Record
      /\ \A t \in Tasks : t # id => recs'[t] = recs[t]
  BY <1>1, <1>2 DEF StoreOK, CancelOf
<1>6. StoreOK'
  BY <1>1, <1>2, <1>4, <1>5 DEF StoreOK, CancelOf
<1>7. ControlOK' /\ HandlesOK' /\ TrackedOK'
  BY <1>1, <1>4 DEF SchedInv, ControlOK, SlotAccounting, HandlesOK, TrackedOK
<1>8. AskedOK'
  BY <1>1, <1>5 DEF SchedInv, AskedOK
<1>9. \A j \in DOMAIN exec : exec[j].id \in Tasks
  BY DEF SchedInv, HandlesOK, Exec
<1>10. LeasesOK'
  <2>1. ASSUME NEW j \in DOMAIN exec PROVE LeaseOK(j, exec[j], recs[exec[j].id])'
    <3>1. PICK t \in Tasks : t = exec[j].id
      BY <1>9
    <3>2. LeaseOK(j, exec[j], recs[t])
      BY <3>1 DEF SchedInv, LeasesOK
    <3>3. CASE t # id
      BY <1>1, <1>4, <1>5, <3>1, <3>2, <3>3 DEF LeaseOK
    <3>4. CASE t = id
      BY <1>1, <1>2, <1>4, <1>5, <3>1, <3>2, <3>4 DEF LeaseOK, CancelOf
    <3> QED BY <3>3, <3>4
  <2>2. \A t \in Tasks : recs'[t].status = "running" =>
          recs[t].status = "running" /\ recs'[t].leaseToken = recs[t].leaseToken
    BY <1>2, <1>5 DEF CancelOf
  <2> QED BY <1>1, <2>1, <2>2 DEF SchedInv, LeasesOK
<1>11. HoldersOK'
  <2>1. ASSUME PromptStart, NEW j \in DOMAIN exec PROVE HolderOK(j, exec[j], recs[exec[j].id])'
    <3>1. PICK t \in Tasks : t = exec[j].id
      BY <1>9
    <3>2. HolderOK(j, exec[j], recs[t])
      BY <2>1, <3>1 DEF SchedInv, HoldersOK
    <3>3. CASE t # id
      BY <1>1, <1>4, <1>5, <3>1, <3>2, <3>3 DEF HolderOK
    <3>4. CASE t = id
      BY <1>1, <1>2, <1>4, <1>5, <3>1, <3>2, <3>4 DEF HolderOK, CancelOf
    <3> QED BY <3>3, <3>4
  <2> QED BY <1>1, <2>1 DEF HoldersOK
<1> QED BY <1>6, <1>7, <1>8, <1>10, <1>11 DEF SchedInv

\* What a claim, with or without its reply, means for the executions there are:
\* their tokens are older.
LEMMA ClaimOthers ==
  ASSUME SchedInv, NEW t \in Tasks, NEW s, ClaimOf(recs[t], s), recs' = [recs EXCEPT ![t] = s],
         lastToken' = lastToken + 1, UNCHANGED <<chains, replayed, now, closed, asked>>,
         faults' \in {faults, faults + 1}
  PROVE  /\ StoreOK'
         /\ \A u \in Tasks : u # t => recs'[u] = recs[u]
         /\ \A u \in Tasks : recs'[u].cancelRequested \/ recs'[u].status = "canceled" => u \in asked
         /\ recs'[t] = s
         /\ \A j \in DOMAIN exec :
              /\ j # lastToken' /\ j <= lastToken
              /\ exec'[j] = exec[j] => LeaseOK(j, exec[j], recs[exec[j].id])'
<1>1. StoreOK /\ lastToken \in Nat /\ faults \in Nat /\ (faults' = 0 => faults = 0)
  BY DEF SchedInv, StoreOK, ControlOK
<1>2. /\ recs' \in [Tasks -> Record] /\ recs'[t] = s /\ s \in Record
      /\ \A u \in Tasks : u # t => recs'[u] = recs[u]
  BY <1>1 DEF StoreOK, ClaimOf
<1>3. StoreOK'
  <2>0. ASSUME NEW u \in Tasks PROVE recs[u].leaseToken <= lastToken'
    <3>1. PICK n \in Nat : n = recs[u].leaseToken
      BY <1>1, StoreHas
    <3>2. n <= lastToken
      BY <1>1, <3>1 DEF StoreOK
    <3> QED BY <1>1, <3>1, <3>2
  <2>1. \A u \in Tasks : recs[u].leaseToken <= lastToken'
    BY <2>0
  <2> QED BY <1>1, <1>2, <2>1 DEF StoreOK, ClaimOf
<1>4. \A u \in Tasks : recs'[u].cancelRequested \/ recs'[u].status = "canceled" => u \in asked
  BY <1>2 DEF SchedInv, AskedOK, ClaimOf
<1>5. ASSUME NEW j \in DOMAIN exec
      PROVE  /\ j # lastToken' /\ j <= lastToken
             /\ exec'[j] = exec[j] => LeaseOK(j, exec[j], recs[exec[j].id])'
  <2>0. j \in 1..lastToken /\ s.leaseToken = lastToken + 1
    BY DEF SchedInv, ControlOK, ClaimOf
  <2>1. j \in 1..lastToken /\ j # lastToken' /\ j # s.leaseToken
    BY <1>1, <2>0
  <2>2. PICK u \in Tasks : u = exec[j].id
    BY DEF SchedInv, HandlesOK, Exec
  <2>3. LeaseOK(j, exec[j], recs[u])
    BY <2>2 DEF SchedInv, LeasesOK
  <2>4. CASE u # t
    BY <1>1, <1>2, <2>1, <2>2, <2>3, <2>4 DEF LeaseOK
  <2>5. CASE u = t
    <3>1. recs[t].status \in {"pending", "retrying"} /\ s.status = "running" /\ s.leaseLost = recs[t].leaseLost
      BY DEF ClaimOf
    <3>2. ASSUME exec'[j] = exec[j] PROVE LeaseOK(j, exec[j], recs[exec[j].id])'
      <4>1. PICK x : x = exec[j]
        OBVIOUS
      <4>2. exec'[j] = x /\ recs'[exec'[j].id] = s /\ x.id = t /\ LeaseOK(j, x, recs[t])
        BY <1>2, <2>2, <2>3, <2>5, <3>2, <4>1
      <4>3. faults' = 0 /\ x.id \notin asked' =>
              \/ s.leaseLost > 0
              \/ x.phase = "reported" /\ (x.outcome.kind = "ok" => s.status = "completed")
        BY <1>1, <3>1, <4>2 DEF LeaseOK
      <4> QED BY <2>1, <3>1, <4>2, <4>3 DEF LeaseOK
    <3> QED BY <1>1, <2>1, <3>2
  <2> QED BY <1>1, <2>1, <2>4, <2>5
<1> QED BY <1>2, <1>3, <1>4, <1>5

\* A claim starts an execute goroutine, which takes the slot with it.
LEMMA ClaimKeeps ==
  ASSUME SchedInv, Claim
  PROVE  SchedInv'
<1>1. /\ claim = "dequeue" /\ claim' = "acquire" /\ Dequeue({Queue}) /\ StoreOK
      /\ UNCHANGED <<run, stopped, slots, tasks, shut, draining, toSweep, canceling, toCancel, asked, faults>>
  BY DEF Claim, SchedInv
<1>2. lastToken' = lastToken + 1 /\ UNCHANGED <<chains, replayed, now, closed>>
  BY <1>1, DequeueWrites
<1>3a. PICK t \in Tasks : \E s : ClaimOf(recs[t], s) /\ recs' = [recs EXCEPT ![t] = s]
  BY <1>1, DequeueWrites
<1>3. PICK s : ClaimOf(recs[t], s) /\ recs' = [recs EXCEPT ![t] = s]
  BY <1>3a
<1>4. PICK k : k = lastToken'
  OBVIOUS
<1>5. k = lastToken + 1 /\ lastToken \in Nat /\ k \in Nat /\ k \in 1..lastToken' /\ faults \in Nat
  BY <1>1, <1>2, <1>4 DEF StoreOK, SchedInv, ControlOK
<1>6. exec' = [j \in DOMAIN exec \cup {k} |-> IF j = k THEN NewExec(t) ELSE exec[j]]
  <2>1. PICK u \in Tasks : /\ recs'[u] # recs[u]
                           /\ exec' = [j \in DOMAIN exec \cup {lastToken'} |->
                                         IF j = lastToken' THEN NewExec(u) ELSE exec[j]]
    BY DEF Claim
  <2>2. u = t
    BY <1>1, <1>3, <2>1 DEF StoreOK
  <2> QED BY <1>4, <2>1, <2>2
<1> DEFINE y == NewExec(t)
<1>7. /\ y \in Exec /\ HandleOK(y) /\ y.id = t /\ y.phase = "spawned"
      /\ y.canceled = FALSE /\ y.leaseLost = FALSE
  <2>1. /\ y.id = t /\ y.phase = "spawned" /\ y.canceled = FALSE /\ y.leaseLost = FALSE
        /\ y.ctxDone = FALSE /\ y.outcome = NoOutcome /\ y.receipt = "none"
    BY DEF NewExec
  <2>2. y \in Exec
    BY DEF NewExec, Exec, Phases, Receipts
  <2>3. NoOutcome # Interrupted
    BY DEF NoOutcome, Interrupted
  <2> HIDE DEF y
  <2> QED BY <2>1, <2>2, <2>3 DEF HandleOK
<1> HIDE DEF y
<1>8. k \notin DOMAIN exec /\ \A j \in DOMAIN exec : j \in 1..lastToken /\ j \in 1..lastToken' /\ j # k
  BY <1>2, <1>5 DEF SchedInv, ControlOK
<1>9. /\ DOMAIN exec' = DOMAIN exec \cup {k} /\ exec'[k] = y
      /\ \A j \in DOMAIN exec : exec'[j] = exec[j]
      /\ exec' \in [DOMAIN exec' -> Exec]
  <2>1. exec' = [j \in DOMAIN exec \cup {k} |-> IF j = k THEN y ELSE exec[j]]
    BY <1>6 DEF y
  <2>2. \A j \in DOMAIN exec : exec[j] \in Exec
    BY DEF SchedInv, HandlesOK
  <2> QED BY <1>7, <1>8, <2>1, <2>2
<1>10. /\ StoreOK'
       /\ \A u \in Tasks : u # t => recs'[u] = recs[u]
       /\ \A u \in Tasks : recs'[u].cancelRequested \/ recs'[u].status = "canceled" => u \in asked
       /\ recs'[t] = s
       /\ \A j \in DOMAIN exec : LeaseOK(j, exec[j], recs[exec[j].id])'
  <2>1. UNCHANGED <<chains, replayed, now, closed, asked>> /\ faults' \in {faults, faults + 1}
    BY <1>1, <1>2
  <2> QED BY <1>2, <1>3, <1>9, <2>1, ClaimOthers
<1>11. s.status = "running" /\ s.leaseToken = k /\ s.leaseUntil >= now /\ recs[t].status \in {"pending", "retrying"}
  BY <1>3, <1>5 DEF ClaimOf
<1>12. ControlOK'
  <2>1. PICK D : D = DOMAIN exec
    OBVIOUS
  <2>2. PICK n, m : n = Cardinality(D) /\ m = Cardinality(D \cup {k})
    OBVIOUS
  <2>3. n \in Nat /\ m = n + 1
    <3>1. IsFiniteSet(D) /\ n \in Nat
      BY <2>1, <2>2, ExecFinite
    <3> QED BY <1>8, <2>1, <2>2, <3>1, FS_AddElement
  <2>4. run = "active" /\ slots \in Nat
    BY <1>1 DEF SchedInv, ControlOK
  <2>5. slots + n + 1 = Workers
    <3>1. slots + n + (IF claim \in {"token", "dequeue"} THEN 1 ELSE 0) = Workers
      BY <2>1, <2>2, <2>4 DEF SchedInv, ControlOK, SlotAccounting
    <3> QED BY <1>1, <3>1
  <2>6. slots' + m + (IF claim' \in {"token", "dequeue"} THEN 1 ELSE 0) = Workers
    BY <1>1, <2>3, <2>4, <2>5
  <2>7. SlotAccounting'
    BY <1>9, <2>1, <2>2, <2>6 DEF SlotAccounting
  <2>8. DOMAIN exec' \subseteq 1..lastToken'
    BY <1>5, <1>8, <1>9
  <2> QED BY <1>1, <2>4, <2>7, <2>8 DEF SchedInv, ControlOK
<1>13. HandlesOK'
  BY <1>7, <1>9 DEF SchedInv, HandlesOK
<1>14. TrackedOK'
  <2>1. \A j \in toCancel : j \in 1..lastToken /\ j \in 1..lastToken' /\ j # k
    BY <1>2, <1>5 DEF SchedInv, TrackedOK
  <2> QED BY <1>1, <1>9, <2>1 DEF SchedInv, TrackedOK
<1>15. AskedOK'
  BY <1>1, <1>7, <1>9, <1>10 DEF SchedInv, AskedOK
<1>16. LeasesOK'
  <2>1. LeaseOK(k, exec[k], recs[exec[k].id])'
    <3>1. exec'[k] = y /\ recs'[exec'[k].id] = s
      BY <1>7, <1>9, <1>10
    <3> QED BY <1>7, <1>11, <3>1 DEF LeaseOK
  <2>2. ASSUME faults' = 0, NEW u \in Tasks, recs'[u].status = "running"
        PROVE  /\ recs'[u].leaseToken \in DOMAIN exec'
               /\ exec'[recs'[u].leaseToken].id = u /\ exec'[recs'[u].leaseToken].phase # "reported"
    <3>1. CASE u = t
      BY <1>7, <1>9, <1>10, <1>11, <3>1
    <3>2. CASE u # t
      <4>1. recs'[u] = recs[u] /\ faults = 0
        BY <1>1, <1>10, <2>2, <3>2
      <4>2. PICK j \in DOMAIN exec : j = recs[u].leaseToken /\ exec[j].id = u /\ exec[j].phase # "reported"
        BY <2>2, <4>1 DEF SchedInv, LeasesOK
      <4> QED BY <1>9, <4>1, <4>2
    <3> QED BY <3>1, <3>2
  <2> QED BY <1>9, <1>10, <2>1, <2>2 DEF LeasesOK
<1>17. HoldersOK'
  <2>1. ASSUME PromptStart, NEW j \in DOMAIN exec PROVE HolderOK(j, exec[j], recs[exec[j].id])'
    <3>1. HolderOK(j, exec[j], recs[exec[j].id]) /\ exec'[j] = exec[j] /\ j # k
      BY <1>8, <1>9, <2>1 DEF SchedInv, HoldersOK
    <3>2. PICK u \in Tasks : u = exec[j].id
      BY DEF SchedInv, HandlesOK, Exec
    <3>3. CASE u # t
      <4>1. recs'[u] = recs[u]
        BY <1>10, <3>3
      <4> QED BY <1>1, <1>2, <3>1, <3>2, <4>1 DEF HolderOK
    <3>4. CASE u = t
      BY <1>10, <1>11, <3>1, <3>2, <3>4 DEF HolderOK
    <3> QED BY <3>3, <3>4
  <2>2. HolderOK(k, exec[k], recs[exec[k].id])'
    <3>1. exec'[k] = y /\ recs'[exec'[k].id] = s /\ now' = now
      BY <1>2, <1>7, <1>9, <1>10
    <3> QED BY <1>7, <1>11, <3>1 DEF HolderOK
  <2> QED BY <1>9, <2>1, <2>2 DEF HoldersOK
<1> QED BY <1>10, <1>12, <1>13, <1>14, <1>15, <1>16, <1>17 DEF SchedInv

\* Dequeue returns an error; the claim may have been carried out all the same,
\* and the reaper will take it back.
LEMMA ClaimErrorKeeps ==
  ASSUME SchedInv, ClaimError
  PROVE  SchedInv'
<1>1. claim = "dequeue" /\ slots' = slots + 1 /\ claim' \in {"exited", "acquire"} /\ UNCHANGED claimOnly /\ StoreOK
  BY DEF ClaimError, SchedInv
<1>2. faults \in Nat /\ faults' \in {faults, faults + 1} /\ lastToken \in Nat
  BY DEF ClaimError, SchedInv, ControlOK, StoreOK
<1>3. run = "active" /\ slots \in Nat /\ slots' \in Nat /\ SlotAccounting'
  <2>0. PICK n : n = Cardinality(DOMAIN exec)
    OBVIOUS
  <2>1. n \in Nat
    BY <2>0, ExecFinite
  <2>2. run = "active" /\ slots \in Nat
    BY <1>1 DEF SchedInv, ControlOK
  <2>3. slots + n + 1 = Workers
    <3>1. slots + n + (IF claim \in {"token", "dequeue"} THEN 1 ELSE 0) = Workers
      BY <2>0, <2>2 DEF SchedInv, ControlOK, SlotAccounting
    <3> QED BY <1>1, <3>1
  <2>4. slots' + n + (IF claim' \in {"token", "dequeue"} THEN 1 ELSE 0) = Workers
    BY <1>1, <2>1, <2>2, <2>3
  <2> QED BY <1>1, <2>0, <2>2, <2>4 DEF SlotAccounting, claimOnly
<1>4. CASE UNCHANGED vars
  <2>1. StoreOK'
    BY <1>1, <1>4 DEF vars, StoreOK
  <2>2. ControlOK'
    BY <1>1, <1>2, <1>3, <1>4 DEF vars, claimOnly, SchedInv, ControlOK
  <2>3. HandlesOK' /\ TrackedOK' /\ AskedOK'
    BY <1>1, <1>4 DEF vars, claimOnly, SchedInv, HandlesOK, TrackedOK, AskedOK
  <2>4. HoldersOK'
    BY <1>1, <1>4 DEF vars, claimOnly, SchedInv, HoldersOK, HolderOK
  <2>5. LeasesOK'
    <3>1. faults' = 0 => faults = 0
      BY <1>2
    <3> QED BY <1>1, <1>4, <3>1 DEF vars, claimOnly, SchedInv, LeasesOK, LeaseOK
  <2> QED BY <2>1, <2>2, <2>3, <2>4, <2>5 DEF SchedInv
<1>5. CASE Dequeue({Queue}) /\ faults' = faults + 1
  <2>1. lastToken' = lastToken + 1 /\ UNCHANGED <<chains, replayed, now, closed>>
    BY <1>1, <1>5, DequeueWrites
  <2>2a. PICK t \in Tasks : \E s : ClaimOf(recs[t], s) /\ recs' = [recs EXCEPT ![t] = s]
    BY <1>1, <1>5, DequeueWrites
  <2>2. PICK s : ClaimOf(recs[t], s) /\ recs' = [recs EXCEPT ![t] = s]
    BY <2>2a
  <2>3. /\ StoreOK'
        /\ \A u \in Tasks : u # t => recs'[u] = recs[u]
        /\ \A u \in Tasks : recs'[u].cancelRequested \/ recs'[u].status = "canceled" => u \in asked
        /\ recs'[t] = s
        /\ \A j \in DOMAIN exec : j <= lastToken /\ LeaseOK(j, exec[j], recs[exec[j].id])'
    <3>1. UNCHANGED <<chains, replayed, now, closed, asked>> /\ \A j \in DOMAIN exec : exec'[j] = exec[j]
      BY <1>1, <2>1 DEF claimOnly
    <3> QED BY <1>2, <2>1, <2>2, <3>1, ClaimOthers
  <2>4. ControlOK'
    <3>1. \A j \in 1..lastToken : j \in 1..lastToken'
      BY <1>2, <2>1
    <3> QED BY <1>1, <1>2, <1>3, <3>1 DEF claimOnly, SchedInv, ControlOK
  <2>5. HandlesOK' /\ AskedOK'
    BY <1>1, <2>3 DEF claimOnly, SchedInv, HandlesOK, AskedOK
  <2>6. TrackedOK'
    <3>1. \A j \in toCancel : j \in 1..lastToken'
      BY <1>2, <2>1 DEF SchedInv, TrackedOK
    <3> QED BY <1>1, <3>1 DEF claimOnly, SchedInv, TrackedOK
  <2>7. LeasesOK'
    BY <1>1, <1>2, <1>5, <2>3 DEF claimOnly, LeasesOK
  <2>8. HoldersOK'
    <3>1. ASSUME PromptStart, NEW j \in DOMAIN exec PROVE HolderOK(j, exec[j], recs[exec[j].id])'
      <4>1. HolderOK(j, exec[j], recs[exec[j].id]) /\ exec'[j] = exec[j]
        BY <1>1, <3>1 DEF SchedInv, HoldersOK, claimOnly
      <4>2. PICK u \in Tasks : u = exec[j].id
        BY DEF SchedInv, HandlesOK, Exec
      <4>3. CASE u # t
        <5>1. recs'[u] = recs[u]
          BY <2>3, <4>3
        <5> QED BY <1>1, <2>1, <4>1, <4>2, <5>1 DEF HolderOK, claimOnly
      <4>4. CASE u = t
        <5>1. s.leaseToken # j /\ recs[t].status # "running"
          <6>1. j \in 1..lastToken /\ s.leaseToken = lastToken + 1
            BY <2>2 DEF ClaimOf, SchedInv, ControlOK
          <6> QED BY <1>2, <2>2, <6>1 DEF ClaimOf
        <5> QED BY <2>3, <4>1, <4>2, <4>4, <5>1 DEF HolderOK
      <4> QED BY <4>3, <4>4
    <3> QED BY <1>1, <3>1 DEF HoldersOK, claimOnly
  <2> QED BY <2>3, <2>4, <2>5, <2>6, <2>7, <2>8 DEF SchedInv
<1> QED BY <1>4, <1>5 DEF ClaimError

-------------------------------------------------------------------------------
(* The invariant and the theorems.                                         *)

\* The process starts with a queue of tasks and nothing running.
LEMMA SchedInitInv ==
  ASSUME SchedInit
  PROVE  SchedInv
<1>1. PICK m \in MaxRetries : m = CHOOSE n \in MaxRetries : TRUE
  BY SchedulerAssumption
<1>2. m \in Nat /\ Queue \in Queues
  BY ConstantsAssumption, SchedulerAssumption
<1> DEFINE r == NewRecord([status |-> "pending", pendingParents |-> 0], <<>>, "fail_fast",
                          NoKey, NoID, Queue, m, 0)
           e == [r EXCEPT !.status = "canceled"]
<1>3. /\ r \in Record /\ r.dependsOn = <<>> /\ r.status = "pending" /\ r.leaseToken = 0
      /\ r.cancelRequested = FALSE
      /\ e \in Record /\ e.dependsOn = <<>> /\ e.status = "canceled" /\ e.leaseToken = 0
      /\ e.cancelRequested = FALSE
  <2>1. <<>> \in Seq(Tasks)
    OBVIOUS
  <2> QED BY <1>2, <2>1 DEF NewRecord, Record, Statuses, Policies, NoID, NoToken
<1>4. PICK B \in Backlogs : /\ recs = [t \in Tasks |-> IF t \in B THEN r ELSE e]
                           /\ asked = Tasks \ B
  BY <1>1 DEF SchedInit, Waiting
<1> HIDE DEF r, e
<1>5. StoreOK
  <2>1. recs \in [Tasks -> Record]
    BY <1>3, <1>4
  <2>2. \A t \in Tasks : recs[t].dependsOn = <<>> /\ recs[t].status # "blocked" /\ recs[t].leaseToken = 0
    BY <1>3, <1>4
  <2>3. now = 0 /\ lastToken = 0 /\ closed = FALSE
    BY DEF SchedInit, NoToken
  <2> QED BY <2>1, <2>2, <2>3 DEF StoreOK
<1>6. DOMAIN exec = {} /\ DOMAIN tasks = {} /\ exec = <<>> /\ tasks = <<>>
  BY EmptySeq DEF SchedInit
<1>7. ControlOK
  BY <1>6, SchedulerAssumption DEF SchedInit, ControlOK, SlotAccounting
<1>8. HandlesOK /\ TrackedOK /\ AskedOK
  <2>1. exec \in [DOMAIN exec -> Exec] /\ tasks \in [DOMAIN tasks -> Nat]
    BY <1>6
  <2>2. \A t \in Tasks : ~recs[t].cancelRequested /\ (recs[t].status = "canceled" => t \in asked)
    BY <1>3, <1>4
  <2>3. asked \subseteq Tasks
    BY <1>4
  <2> QED BY <1>6, <2>1, <2>2, <2>3 DEF SchedInit, HandlesOK, TrackedOK, AskedOK
<1>9. LeasesOK /\ HoldersOK
  <2>1. \A t \in Tasks : recs[t].status # "running"
    BY <1>3, <1>4
  <2> QED BY <1>6, <2>1 DEF LeasesOK, HoldersOK
<1> QED BY <1>5, <1>7, <1>8, <1>9 DEF SchedInv

\* Every step of the process preserves the invariant.
LEMMA SchedNextInv ==
  ASSUME SchedInv, [SchedNext]_allVars
  PROVE  SchedInv'
<1>1. CASE RunStart \/ RunCtxDone \/ RunExit
  BY <1>1, RunKeeps
<1>2. CASE Reap
  BY <1>2, ReapKeeps
<1>3. CASE Time
  BY <1>3, TimeKeeps
<1>4. CASE AcquireSlot \/ WaitToken
  BY <1>4, WaitKeeps
<1>5. CASE Claim
  BY <1>5, ClaimKeeps
<1>6. CASE ClaimError
  BY <1>6, ClaimErrorKeeps
<1>7. ASSUME NEW k \in DOMAIN exec, Execute(k) PROVE SchedInv'
  <2>1. CASE NoHandler(k)
    BY <2>1, NoHandlerKeeps
  <2>2. CASE Track(k)
    BY <2>2, TrackKeeps
  <2>3. CASE HeartbeatTick(k) \/ RenewLease(k)
    BY <2>3, RenewKeeps DEF HeartbeatTick, RenewLease
  <2>4. CASE HandlerReturns(k) \/ HandlerInterrupted(k) \/ Decide(k)
    BY <2>4, HandlerKeeps
  <2>5. CASE Receipt(k)
    BY <2>5, ReceiptKeeps
  <2>6. CASE Untrack(k)
    BY <2>6, UntrackKeeps
  <2> QED BY <1>7, <2>1, <2>2, <2>3, <2>4, <2>5, <2>6 DEF Execute
<1>8. ASSUME NEW id \in Tasks, CancelCall(id) \/ CancelLocal(id) PROVE SchedInv'
  BY <1>8, CancelCallKeeps, CancelLocalKeeps
<1>9. ASSUME NEW k \in toCancel, CancelCtx(k) PROVE SchedInv'
  BY <1>9, CancelCtxKeeps
<1>10. ASSUME NEW k \in toSweep, Sweep(k) PROVE SchedInv'
  BY <1>10, SweepKeeps
<1>11. CASE ShutdownCall \/ ShutdownStop \/ ShutdownTimeout \/ SweepEnd \/ ShutdownReturn
  BY <1>11, ShutdownKeeps
<1>12. CASE UNCHANGED allVars
  <2>1. UNCHANGED vars /\ UNCHANGED schedVars
    BY <1>12 DEF allVars
  <2>2. StoreOK' /\ ControlOK' /\ HandlesOK' /\ TrackedOK' /\ AskedOK'
    BY <2>1 DEF vars, schedVars, SchedInv, StoreOK, ControlOK, SlotAccounting, HandlesOK, TrackedOK, AskedOK
  <2>3. LeasesOK' /\ HoldersOK'
    BY <2>1 DEF vars, schedVars, SchedInv, LeasesOK, LeaseOK, HoldersOK, HolderOK
  <2> QED BY <2>2, <2>3 DEF SchedInv
<1> QED BY <1>1, <1>2, <1>3, <1>4, <1>5, <1>6, <1>7, <1>8, <1>9, <1>10, <1>11, <1>12 DEF SchedNext

\* SchedInv holds in every reachable state.
LEMMA SchedInvariant == SchedSpec => []SchedInv
BY SchedInitInv, SchedNextInv, PTL DEF SchedSpec

\* Slots are neither leaked nor doubled by claimLoop and execute, whatever fails.
THEOREM SlotsAccounted == SchedSpec => []SlotAccounting
<1>1. SchedInv => SlotAccounting
  BY DEF SchedInv, ControlOK
<1> QED BY <1>1, SchedInvariant, PTL

\* A handler whose context was canceled is never reported with Fail: whoever
\* cancels a context writes its mark first.
THEOREM InterruptionsNeverFail == SchedSpec => []InterruptedNotFailed
<1>1. SchedInv => InterruptedNotFailed
  BY DEF SchedInv, HandlesOK, HandleOK, InterruptedNotFailed
<1> QED BY <1>1, SchedInvariant, PTL

\* Only a task somebody canceled ends canceled: Shutdown and lost leases do not.
THEOREM CancellationsAreAsked == SchedSpec => []CanceledOnlyIfAsked
<1>1. SchedInv => CanceledOnlyIfAsked
  BY StoreHas DEF SchedInv, AskedOK, CanceledOnlyIfAsked
<1> QED BY <1>1, SchedInvariant, PTL

\* A result returned under the lease is the task's result, also during Shutdown.
THEOREM FinishedWorkIsKept == SchedSpec => []FinishedWorkKept
<1>1. SchedInv => FinishedWorkKept
  <2>1. SUFFICES ASSUME SchedInv, NEW k \in DOMAIN exec, exec[k].phase = "reported",
                        exec[k].outcome.kind = "ok", faults = 0, exec[k].id \notin asked,
                        recs[exec[k].id].leaseLost = 0
                 PROVE  recs[exec[k].id].status = "completed"
    BY DEF FinishedWorkKept
  <2>2. LeaseOK(k, exec[k], recs[exec[k].id])
    BY <2>1 DEF SchedInv, LeasesOK
  <2>3. ~(recs[exec[k].id].leaseLost > 0)
    BY <2>1
  <2> QED BY <2>1, <2>2, <2>3 DEF LeaseOK
<1> QED BY <1>1, SchedInvariant, PTL

\* A task whose handler said ErrSkipRetry is not put up for a retry.
THEOREM SkipsAreNeverRetried == SchedSpec => []SkipNeverRetried
<1>1. SchedInv => SkipNeverRetried
  <2>1. SUFFICES ASSUME SchedInv, NEW k \in DOMAIN exec, "skip" \in exec[k].outcome.err,
                        recs[exec[k].id].status = "retrying"
                 PROVE  lastToken > k
    BY DEF SkipNeverRetried
  <2>2. k \in 1..lastToken /\ lastToken \in Nat
    BY <2>1 DEF SchedInv, ControlOK, StoreOK
  <2>3. k # lastToken
    BY <2>1 DEF SchedInv, LeasesOK, LeaseOK
  <2> QED BY <2>2, <2>3
<1> QED BY <1>1, SchedInvariant, PTL

\* Holding a lease, in the terms of the invariant.
LEMMA HoldsIs ==
  ASSUME SchedInv, NEW k \in DOMAIN exec, Holds(k)
  PROVE  recs[exec[k].id].status = "running" /\ recs[exec[k].id].leaseToken = k
BY DEF Holds, HoldsLease

\* Provided that a claimed task is tracked before its lease runs out, the handle
\* Gate.Cancel and Shutdown find for a task is the one of its current execution.
THEOREM HandlesAreCurrent == SchedSpec => [](PromptStart => CurrentHandleTracked)
<1>1. SchedInv => (PromptStart => CurrentHandleTracked)
  BY HoldsIs DEF SchedInv, HoldersOK, HolderOK, CurrentHandleTracked
<1> QED BY <1>1, SchedInvariant, PTL

\* Under the same proviso no handler that runs under a valid lease escapes the
\* sweep of Shutdown.
THEOREM DrainReachesHolders == SchedSpec => [](PromptStart => DrainInterruptsHolders)
<1>1. SchedInv => (PromptStart => DrainInterruptsHolders)
  BY HoldsIs DEF SchedInv, HoldersOK, HolderOK, DrainInterruptsHolders
<1> QED BY <1>1, SchedInvariant, PTL

\* A function without arguments is the empty sequence.
LEMMA NoneLeft ==
  ASSUME NEW f, NEW S, f \in [{} -> S]
  PROVE  f = <<>>
<1>1. {} = 1..0
  OBVIOUS
<1>2. f \in Seq(S) /\ Len(f) = 0
  BY <1>1, IsASeq, LenProperties
<1> QED BY <1>2, EmptySeq

\* When Shutdown has returned nothing of this Gate runs, and no task it claimed
\* is left running, unless the call that would have said so was lost.
THEOREM NothingIsLeft == SchedSpec => []NothingLeftBehind
<1>1. SchedInv => NothingLeftBehind
  <2>1. SUFFICES ASSUME SchedInv, shut = "returned"
                 PROVE  /\ run = "idle" /\ exec = <<>> /\ tasks = <<>>
                        /\ faults = 0 => \A t \in DOMAIN recs : recs[t].status # "running"
    BY DEF NothingLeftBehind
  <2>2. run = "idle" /\ DOMAIN exec = {}
    BY <2>1 DEF SchedInv, ControlOK
  <2>3. DOMAIN tasks = {}
    BY <2>1, <2>2 DEF SchedInv, TrackedOK
  <2>4. exec \in [{} -> Exec] /\ tasks \in [{} -> Nat]
    BY <2>1, <2>2, <2>3 DEF SchedInv, HandlesOK, TrackedOK
  <2>5. exec = <<>> /\ tasks = <<>>
    BY <2>4, NoneLeft
  <2>6. faults = 0 => \A t \in DOMAIN recs : recs[t].status # "running"
    BY <2>1, <2>2, StoreHas DEF SchedInv, LeasesOK
  <2> QED BY <2>2, <2>5, <2>6
<1> QED BY <1>1, SchedInvariant, PTL
===============================================================================
