------------------------------- MODULE Scheduler -------------------------------
(***************************************************************************)
(* One Gate that consumes one queue: scheduler.go composed with the broker *)
(* of module MemoryBroker.  Run's claim loop, the execute goroutine of     *)
(* every claimed task with its heartbeat, the reaper, Gate.Cancel and      *)
(* Gate.Shutdown interleave; a step of the scheduler that calls the broker *)
(* is a step of both.                                                      *)
(*                                                                         *)
(* The queue holds its tasks when the process starts (Backlogs says which; *)
(* the others were canceled before): submission, replay and dependencies   *)
(* are MemoryBroker's subject.  Left out: RPS tokens (a wait that ends),   *)
(* the quota gate, OnStateChange and statistics.                           *)
(***************************************************************************)
EXTENDS MemoryBroker

CONSTANTS
  Queue,            \* the queue this Gate consumes
  Workers,          \* its concurrency slots
  Backlogs,         \* the sets of tasks that may be waiting when the process starts
  Handled,          \* the tasks whose type has a registered handler
  HandlerErrors,    \* the errors handlers return: what errors.As finds in them
  ManualHeartbeat,  \* the queue's setting
  PromptStart,      \* TRUE: a claimed task is tracked before its lease runs out
  MaxFaults         \* bound: broker calls whose request or reply is lost

ASSUME SchedulerAssumption ==
  /\ Queue \in Queues /\ Workers \in Nat \ {0}
  /\ Backlogs \subseteq SUBSET Tasks /\ Handled \subseteq Tasks
  /\ HandlerErrors \subseteq SUBSET {"skip", "throttled"}
  /\ ManualHeartbeat \in BOOLEAN /\ PromptStart \in BOOLEAN /\ MaxFaults \in Nat
  /\ MaxRetries # {}

VARIABLES
  run,        \* "idle", or "active" from s.started = true until Run returns
  stopped,    \* the run context is canceled
  claim,      \* where the claim loop stands
  slots,      \* free concurrency slots
  exec,       \* lease token -> the live execute goroutine started for that claim
  tasks,      \* s.tasks: task id -> the token of the handle tracked for it
  shut,       \* where Shutdown stands; not "none": the Gate's flag is set
  draining,   \* s.draining
  toSweep,    \* handles that Shutdown, holding tasksMu, has yet to cancel
  canceling,  \* tasks between Gate.Cancel's broker.Cancel and its cancelLocal
  toCancel,   \* handles between cancelLocal's flag and its cancel()
  asked,      \* history: the tasks whose cancellation was accepted
  faults      \* history: broker calls lost so far

schedVars == <<run, stopped, claim, slots, exec, tasks, shut, draining,
               toSweep, canceling, toCancel, asked, faults>>
allVars   == <<vars, schedVars>>

\* What a handler may return of its own accord.  An error is the set of marker
\* types errors.As finds in it: ErrSkipRetry may wrap ErrThrottled, and {} is a
\* plain error or a recovered panic.
Outcomes == {[kind |-> "ok", err |-> {}]} \cup [kind : {"error"}, err : HandlerErrors]
NoOutcome   == [kind |-> "none", err |-> {}]
Interrupted == [kind |-> "ctx", err |-> {}]   \* it returned ctx.Err()

Receipts == {"none", "drop", "FinishCanceled", "Ack", "Requeue", "Fail"}
Phases   == {"spawned", "running", "returned", "decided", "reported"}

Exec == [id : Tasks, phase : Phases, canceled : BOOLEAN, leaseLost : BOOLEAN,
         requeue : BOOLEAN, ctxDone : BOOLEAN,
         outcome : Outcomes \cup {NoOutcome, Interrupted}, receipt : Receipts]

Waiting == NewRecord([status |-> "pending", pendingParents |-> 0], <<>>, "fail_fast",
                     NoKey, NoID, Queue, CHOOSE n \in MaxRetries : TRUE, 0)

SchedInit ==
  /\ \E B \in Backlogs :
       /\ recs = [t \in Tasks |->
                   IF t \in B THEN Waiting ELSE [Waiting EXCEPT !.status = "canceled"]]
       /\ asked = Tasks \ B
  /\ chains = [k \in Keys |-> <<>>] /\ replayed = {}
  /\ now = 0 /\ lastToken = NoToken /\ closed = FALSE
  /\ run = "idle" /\ stopped = FALSE /\ claim = "exited" /\ slots = Workers
  /\ exec = <<>> /\ tasks = <<>>
  /\ shut = "none" /\ draining = FALSE /\ toSweep = {}
  /\ canceling = {} /\ toCancel = {} /\ faults = 0

-------------------------------------------------------------------------------
(* Run.                                                                    *)

\* The checks and the start are one critical section of s.mu.
RunStart ==
  /\ shut = "none"
  /\ run = "idle"
  /\ run' = "active" /\ stopped' = FALSE /\ claim' = "acquire" /\ slots' = Workers
  /\ UNCHANGED <<vars, exec, tasks, shut, draining, toSweep, canceling, toCancel, asked, faults>>

\* The caller cancels the context it gave to Run.
RunCtxDone ==
  /\ run = "active" /\ ~stopped
  /\ stopped' = TRUE
  /\ UNCHANGED <<vars, run, claim, slots, exec, tasks, shut, draining, toSweep,
                 canceling, toCancel, asked, faults>>

\* Wrong variant of RunExit: Run does not wait for its workers.
RunExitEarly ==
  /\ run = "active" /\ stopped /\ claim = "exited"
  /\ run' = "idle"
  /\ UNCHANGED <<vars, stopped, claim, slots, exec, tasks, shut, draining, toSweep,
                 canceling, toCancel, asked, faults>>

\* Claim loop, workers and reaper have ended, in this order.
RunExit ==
  /\ run = "active" /\ stopped /\ claim = "exited"
  /\ exec = <<>>
  /\ run' = "idle"
  /\ UNCHANGED <<vars, stopped, claim, slots, exec, tasks, shut, draining, toSweep,
                 canceling, toCancel, asked, faults>>

\* The reaper's ticker may win against ctx.Done() once more after the stop.
Reap ==
  /\ run = "active"
  /\ ReapExpired
  /\ UNCHANGED schedVars

\* Time passes: at any moment, except that under PromptStart an execute
\* goroutine gets to run before the lease it was started with is over.
Time ==
  /\ PromptStart => \A k \in DOMAIN exec : exec[k].phase # "spawned"
  /\ Tick
  /\ UNCHANGED schedVars

-------------------------------------------------------------------------------
(* The claim loop.                                                         *)

claimOnly == <<run, stopped, exec, tasks, shut, draining, toSweep, canceling, toCancel, asked>>

\* Go's select may take a free slot although the context is done.
AcquireSlot ==
  /\ claim = "acquire"
  /\ \/ slots > 0 /\ slots' = slots - 1 /\ claim' = "token"
     \/ stopped /\ slots' = slots /\ claim' = "exited"
  /\ UNCHANGED <<vars, claimOnly, faults>>

\* With RPS = 0 the token is granted whether or not the context is done.
WaitToken ==
  /\ claim = "token"
  /\ \/ claim' = "dequeue" /\ slots' = slots
     \/ stopped /\ claim' = "exited" /\ slots' = slots + 1
  /\ UNCHANGED <<vars, claimOnly, faults>>

NewExec(id) ==
  [id |-> id, phase |-> "spawned", canceled |-> FALSE, leaseLost |-> FALSE,
   requeue |-> FALSE, ctxDone |-> FALSE, outcome |-> NoOutcome, receipt |-> "none"]

\* The claim succeeds and the execute goroutine starts; the slot goes with it.
Claim ==
  /\ claim = "dequeue" /\ ~stopped
  /\ Dequeue({Queue})
  /\ \E t \in Tasks :
       /\ recs'[t] # recs[t]
       /\ exec' = [k \in DOMAIN exec \cup {lastToken'} |->
                     IF k = lastToken' THEN NewExec(t) ELSE exec[k]]
  /\ claim' = "acquire"
  /\ UNCHANGED <<run, stopped, slots, tasks, shut, draining, toSweep,
                 canceling, toCancel, asked, faults>>

\* Wrong variant of ClaimError: the slot is not given back.
ClaimErrorKeepsSlot ==
  /\ claim = "dequeue"
  /\ \/ stopped /\ UNCHANGED <<vars, faults>>
     \/ /\ faults < MaxFaults /\ faults' = faults + 1
        /\ Dequeue({Queue}) \/ UNCHANGED vars
  /\ slots' = slots
  /\ claim' = IF stopped THEN "exited" ELSE "acquire"
  /\ UNCHANGED claimOnly

\* Dequeue returns an error: the context is done, or the call failed.  A
\* remote broker may have carried out a claim whose reply was lost.
ClaimError ==
  /\ claim = "dequeue"
  /\ \/ stopped /\ UNCHANGED <<vars, faults>>
     \/ /\ faults < MaxFaults /\ faults' = faults + 1
        /\ Dequeue({Queue}) \/ UNCHANGED vars
  /\ slots' = slots + 1
  /\ claim' = IF stopped THEN "exited" ELSE "acquire"
  /\ UNCHANGED claimOnly

-------------------------------------------------------------------------------
(* execute: one goroutine per claim k, whose token is k.                   *)

execOnly == <<run, stopped, claim, shut, draining, toSweep, canceling, toCancel, asked>>

tasksMuFree == shut # "sweeping"

Holds(k) == HoldsLease(exec[k].id, k)

\* s.tasks without the entry of id.
Without(id) == [t \in DOMAIN tasks \ {id} |-> tasks[t]]

\* The goroutine ends: its deferred calls give the slot back.
End(k) ==
  /\ exec' = [j \in DOMAIN exec \ {k} |-> exec[j]]
  /\ slots' = slots + 1

\* No handler for this type: the task goes to the dead letters at once.
NoHandler(k) ==
  /\ exec[k].phase = "spawned" /\ exec[k].id \notin Handled
  /\ End(k)
  /\ \/ Holds(k) /\ Fail(exec[k].id, k, "skip", 0) /\ faults' = faults
     \/ ~Holds(k) /\ UNCHANGED <<vars, faults>>
     \/ faults < MaxFaults /\ faults' = faults + 1 /\ UNCHANGED vars
  /\ UNCHANGED <<execOnly, tasks>>

\* Wrong variant of Track: a task tracked after the sweep is left alone.
TrackUndrained(k) ==
  /\ exec[k].phase = "spawned" /\ exec[k].id \in Handled
  /\ tasksMuFree
  /\ tasks' = [t \in DOMAIN tasks \cup {exec[k].id} |-> IF t = exec[k].id THEN k ELSE tasks[t]]
  /\ exec' = [exec EXCEPT ![k].phase = "running"]
  /\ UNCHANGED <<vars, execOnly, slots, faults>>

\* track, then the handler and its heartbeat start.
Track(k) ==
  /\ exec[k].phase = "spawned" /\ exec[k].id \in Handled
  /\ tasksMuFree
  /\ tasks' = [t \in DOMAIN tasks \cup {exec[k].id} |-> IF t = exec[k].id THEN k ELSE tasks[t]]
  /\ exec' = [exec EXCEPT ![k].phase = "running", ![k].requeue = draining, ![k].ctxDone = draining]
  /\ UNCHANGED <<vars, execOnly, slots, faults>>

\* Wrong variant of Renew: the answer ErrTaskCanceled is taken for a success.
RenewDeaf(k) ==
  /\ IF Holds(k)
     THEN Heartbeat(exec[k].id, k) /\ exec' = exec
     ELSE /\ exec' = [exec EXCEPT ![k].leaseLost = TRUE, ![k].ctxDone = TRUE]
          /\ UNCHANGED vars
  /\ UNCHANGED <<execOnly, tasks, slots, faults>>

\* One Heartbeat call and what the answer does to the handle: renewed, told
\* of a cancellation, or the lease is lost.  A call that fails changes nothing.
Renew(k) ==
  /\ IF Holds(k)
     THEN /\ Heartbeat(exec[k].id, k)
          /\ exec' = IF recs[exec[k].id].cancelRequested
                     THEN [exec EXCEPT ![k].canceled = TRUE, ![k].ctxDone = TRUE]
                     ELSE exec
     ELSE /\ exec' = [exec EXCEPT ![k].leaseLost = TRUE, ![k].ctxDone = TRUE]
          /\ UNCHANGED vars
  /\ UNCHANGED <<execOnly, tasks, slots, faults>>

\* Automatic heartbeat; its goroutine may tick once more after the handler
\* returned, and is joined before the result is looked at.
HeartbeatTick(k) ==
  /\ exec[k].phase \in {"running", "returned"}
  /\ ~ManualHeartbeat /\ ~exec[k].leaseLost
  /\ Renew(k)

\* The handler calls RenewLease.
RenewLease(k) ==
  /\ exec[k].phase = "running"
  /\ Renew(k)

HandlerReturns(k) ==
  /\ exec[k].phase = "running"
  /\ \E o \in Outcomes : exec' = [exec EXCEPT ![k].phase = "returned", ![k].outcome = o]
  /\ UNCHANGED <<vars, execOnly, tasks, slots, faults>>

\* A handler that watches its context gives up.
HandlerInterrupted(k) ==
  /\ exec[k].phase = "running" /\ exec[k].ctxDone
  /\ exec' = [exec EXCEPT ![k].phase = "returned", ![k].outcome = Interrupted]
  /\ UNCHANGED <<vars, execOnly, tasks, slots, faults>>

\* Wrong variant of ReceiptFor: an interrupted task goes back, finished or not.
ReceiptForEager(x) ==
  IF x.leaseLost THEN "drop"
  ELSE IF x.canceled /\ x.ctxDone THEN "FinishCanceled"
  ELSE IF x.requeue /\ x.ctxDone THEN "Requeue"
  ELSE IF x.outcome.kind = "ok" THEN "Ack"
  ELSE "Fail"

\* The switch of execute: the first case that applies.
ReceiptFor(x) ==
  IF x.leaseLost THEN "drop"
  ELSE IF x.canceled /\ x.ctxDone THEN "FinishCanceled"
  ELSE IF x.outcome.kind = "ok" THEN "Ack"
  ELSE IF x.requeue /\ x.ctxDone THEN "Requeue"
  ELSE "Fail"

\* The heartbeat is joined and the receipt chosen from the flags of the handle.
Decide(k) ==
  /\ exec[k].phase = "returned"
  /\ exec' = [exec EXCEPT ![k].phase = "decided", ![k].receipt = ReceiptFor(exec[k])]
  /\ UNCHANGED <<vars, execOnly, tasks, slots, faults>>

\* Wrong variant of FailKind: throttling is looked for first.
FailKindThrottledFirst(err) ==
  IF "throttled" \in err THEN "throttled" ELSE IF "skip" \in err THEN "skip" ELSE "business"

\* failTask: ErrSkipRetry before ErrThrottled before everything else.
FailKind(err) ==
  IF "skip" \in err THEN "skip" ELSE IF "throttled" \in err THEN "throttled" ELSE "business"

Send(k) ==
  LET x == exec[k]
  IN  \/ x.receipt = "FinishCanceled" /\ FinishCanceled(x.id, k)
      \/ x.receipt = "Ack" /\ Ack(x.id, k)
      \/ x.receipt = "Requeue" /\ Requeue(x.id, k)
      \/ x.receipt = "Fail" /\ \E d \in Delays : Fail(x.id, k, FailKind(x.outcome.err), d)

\* The broker call; its error (a stale token, a lost request) is ignored.
Receipt(k) ==
  /\ exec[k].phase = "decided"
  /\ exec' = [exec EXCEPT ![k].phase = "reported"]
  /\ \/ Send(k) /\ faults' = faults
     \/ /\ exec[k].receipt = "drop" \/ ~Holds(k)
        /\ UNCHANGED <<vars, faults>>
     \/ /\ exec[k].receipt # "drop" /\ Holds(k)
        /\ faults < MaxFaults /\ faults' = faults + 1
        /\ UNCHANGED vars
  /\ UNCHANGED <<execOnly, tasks, slots>>

\* Wrong variant of Untrack: the entry is deleted whoever owns it.
UntrackByID(k) ==
  /\ exec[k].phase = "reported"
  /\ tasksMuFree
  /\ tasks' = Without(exec[k].id)
  /\ End(k)
  /\ UNCHANGED <<vars, execOnly, faults>>

\* Only the goroutine's own entry is deleted.
Untrack(k) ==
  /\ exec[k].phase = "reported"
  /\ tasksMuFree
  /\ tasks' = IF exec[k].id \in DOMAIN tasks /\ tasks[exec[k].id] = k
              THEN Without(exec[k].id) ELSE tasks
  /\ End(k)
  /\ UNCHANGED <<vars, execOnly, faults>>

-------------------------------------------------------------------------------
(* Gate.Cancel: the broker first, then the handle of this process.         *)

CancelCall(id) ==
  /\ Cancel(id)
  /\ asked' = asked \cup {id} /\ canceling' = canceling \cup {id}
  /\ UNCHANGED <<run, stopped, claim, slots, exec, tasks, shut, draining, toSweep, toCancel, faults>>

\* cancelLocal finds the handle and flags it, ...
CancelLocal(id) ==
  /\ id \in canceling /\ tasksMuFree
  /\ canceling' = canceling \ {id}
  /\ IF id \in DOMAIN tasks
     THEN /\ exec' = [exec EXCEPT ![tasks[id]].canceled = TRUE]
          /\ toCancel' = toCancel \cup {tasks[id]}
     ELSE UNCHANGED <<exec, toCancel>>
  /\ UNCHANGED <<vars, run, stopped, claim, slots, tasks, shut, draining, toSweep, asked, faults>>

\* ... then cancels its context, no lock held; the goroutine may be gone.
CancelCtx(k) ==
  /\ k \in toCancel
  /\ toCancel' = toCancel \ {k}
  /\ exec' = IF k \in DOMAIN exec THEN [exec EXCEPT ![k].ctxDone = TRUE] ELSE exec
  /\ UNCHANGED <<vars, run, stopped, claim, slots, tasks, shut, draining, toSweep,
                 canceling, asked, faults>>

-------------------------------------------------------------------------------
(* Gate.Shutdown.                                                          *)

shutOnly == <<vars, run, claim, slots, tasks, canceling, toCancel, asked, faults>>

\* The flag is set first, without a lock.
ShutdownCall ==
  /\ shut = "none"
  /\ shut' = "flagged"
  /\ UNCHANGED <<shutOnly, stopped, exec, draining, toSweep>>

\* Under s.mu: nothing to wait for, or the claim loop and the reaper are stopped.
ShutdownStop ==
  /\ shut = "flagged"
  /\ IF run = "idle"
     THEN shut' = "returned" /\ stopped' = stopped
     ELSE shut' = "waiting" /\ stopped' = TRUE
  /\ UNCHANGED <<shutOnly, exec, draining, toSweep>>

\* The deadline passes: with tasksMu held, every tracked handle is swept.
ShutdownTimeout ==
  /\ shut = "waiting"
  /\ shut' = "sweeping" /\ draining' = TRUE
  /\ toSweep' = Range(tasks)
  /\ UNCHANGED <<shutOnly, stopped, exec>>

\* Wrong variant of Sweep: the context is canceled before the mark is set.
SweepCancelFirst(k) ==
  /\ k \in toSweep
  /\ \/ /\ ~exec[k].ctxDone
        /\ exec' = [exec EXCEPT ![k].ctxDone = TRUE]
        /\ toSweep' = toSweep
     \/ /\ exec[k].ctxDone
        /\ exec' = [exec EXCEPT ![k].requeue = TRUE]
        /\ toSweep' = toSweep \ {k}
  /\ UNCHANGED <<shutOnly, stopped, shut, draining>>

\* Wrong variant of Sweep: the interruption is marked as a cancellation.
SweepAsCancel(k) ==
  /\ k \in toSweep
  /\ exec' = [exec EXCEPT ![k].canceled = TRUE, ![k].ctxDone = TRUE]
  /\ toSweep' = toSweep \ {k}
  /\ UNCHANGED <<shutOnly, stopped, shut, draining>>

\* Two atomic writes that execute, which takes no lock, may read between: the
\* requeue mark first, then the context.
Sweep(k) ==
  /\ k \in toSweep
  /\ \/ /\ ~exec[k].requeue
        /\ exec' = [exec EXCEPT ![k].requeue = TRUE]
        /\ toSweep' = toSweep
     \/ /\ exec[k].requeue
        /\ exec' = [exec EXCEPT ![k].ctxDone = TRUE]
        /\ toSweep' = toSweep \ {k}
  /\ UNCHANGED <<shutOnly, stopped, shut, draining>>

SweepEnd ==
  /\ shut = "sweeping" /\ toSweep = {}
  /\ shut' = "draining"
  /\ UNCHANGED <<shutOnly, stopped, exec, draining, toSweep>>

ShutdownReturn ==
  /\ shut \in {"waiting", "draining"} /\ run = "idle"
  /\ shut' = "returned"
  /\ UNCHANGED <<shutOnly, stopped, exec, draining, toSweep>>

-------------------------------------------------------------------------------
Execute(k) ==
  \/ NoHandler(k) \/ Track(k) \/ HeartbeatTick(k) \/ RenewLease(k)
  \/ HandlerReturns(k) \/ HandlerInterrupted(k)
  \/ Decide(k) \/ Receipt(k) \/ Untrack(k)

SchedNext ==
  \/ RunStart \/ RunCtxDone \/ RunExit \/ Reap \/ Time
  \/ AcquireSlot \/ WaitToken \/ Claim \/ ClaimError
  \/ \E k \in DOMAIN exec : Execute(k)
  \/ \E id \in Tasks : CancelCall(id) \/ CancelLocal(id)
  \/ \E k \in toCancel : CancelCtx(k)
  \/ \E k \in toSweep : Sweep(k)
  \/ ShutdownCall \/ ShutdownStop \/ ShutdownTimeout \/ SweepEnd \/ ShutdownReturn

SchedSpec == SchedInit /\ [][SchedNext]_allVars

\* Every goroutine that can move does, a heartbeat ticks, a handler watches its
\* context, Shutdown was given a deadline.  Nothing is assumed of handlers that
\* are not interrupted, of callers (a Cancel may come from another process, with
\* no cancelLocal here) or of time.
Fairness ==
  /\ WF_allVars(RunExit) /\ WF_allVars(AcquireSlot) /\ WF_allVars(WaitToken)
  /\ WF_allVars(ClaimError /\ stopped)
  /\ \A k \in 1..MaxClaims :
       /\ WF_allVars(k \in DOMAIN exec /\ (NoHandler(k) \/ Track(k)))
       /\ WF_allVars(k \in DOMAIN exec /\ HeartbeatTick(k))
       /\ WF_allVars(k \in DOMAIN exec /\ HandlerInterrupted(k))
       /\ WF_allVars(k \in DOMAIN exec /\ (Decide(k) \/ Receipt(k) \/ Untrack(k)))
       /\ WF_allVars(k \in DOMAIN exec /\ Sweep(k))
  /\ WF_allVars(ShutdownStop) /\ WF_allVars(ShutdownTimeout)
  /\ WF_allVars(SweepEnd) /\ WF_allVars(ShutdownReturn)

FairSpec == SchedSpec /\ Fairness

-------------------------------------------------------------------------------
(* Properties.                                                             *)

\* Slots are neither leaked nor doubled: while Run is active every slot is
\* free, held by the claim loop or held by exactly one live execution, through
\* every error path of claimLoop and every end of execute.
SlotAccounting ==
  run = "active" =>
    slots + Cardinality(DOMAIN exec) + (IF claim \in {"token", "dequeue"} THEN 1 ELSE 0) = Workers

\* An interruption is never charged as a failure: a handler that returned
\* because its context was canceled, by Gate.Cancel, by a heartbeat's answer or
\* by Shutdown, is never reported with Fail, whatever the order in which the
\* flags and the context were written and read.
InterruptedNotFailed ==
  \A k \in DOMAIN exec : exec[k].outcome = Interrupted => exec[k].receipt # "Fail"

\* Shutdown is not a cancellation: only a task somebody canceled ends canceled.
CanceledOnlyIfAsked ==
  \A t \in DOMAIN recs : recs[t].status = "canceled" => t \in asked

\* Finished work is kept: a result returned before the lease was lost, for a
\* task nobody canceled, is the task's result, although Shutdown interrupts it
\* (as long as the receipt itself is not lost).
FinishedWorkKept ==
  \A k \in DOMAIN exec :
     /\ exec[k].phase = "reported" /\ exec[k].outcome.kind = "ok"
     /\ faults = 0 /\ exec[k].id \notin asked /\ recs[exec[k].id].leaseLost = 0
     => recs[exec[k].id].status = "completed"

\* An error that wraps ErrSkipRetry, whatever else it wraps, is never retried.
SkipNeverRetried ==
  \A k \in DOMAIN exec :
     /\ exec[k].phase = "reported" /\ exec[k].receipt = "Fail"
     /\ "skip" \in exec[k].outcome.err /\ faults = 0
     => recs[exec[k].id].status # "retrying" \/ lastToken > k

\* Gate.Cancel and Shutdown reach the execution that counts: while a handler
\* runs under the task's current lease, the handle in s.tasks is its own, although
\* older executions of the same task come and go.
CurrentHandleTracked ==
  \A k \in DOMAIN exec :
     exec[k].phase = "running" /\ Holds(k) =>
       exec[k].id \in DOMAIN tasks /\ tasks[exec[k].id] = k

\* Once Shutdown's sweep is over, every handler that runs under a valid lease
\* has been interrupted, also one that was claimed before and tracked after it.
DrainInterruptsHolders ==
  shut = "draining" =>
    \A k \in DOMAIN exec : exec[k].phase = "running" /\ Holds(k) => exec[k].ctxDone

\* Nothing is left behind: when Shutdown has returned, no loop and no handler
\* of this Gate is alive, and every task it claimed has been settled or returned
\* (unless the call that would have said so was lost).
NothingLeftBehind ==
  shut = "returned" =>
    /\ run = "idle" /\ exec = <<>> /\ tasks = <<>>
    /\ faults = 0 => \A t \in DOMAIN recs : recs[t].status # "running"

\* Shutdown returns once its deadline has passed, provided that handlers watch
\* their context and the queue's heartbeats are automatic: the sweep reaches
\* every execution whose handle is in the table, and one whose lease was lost
\* and whose handle a later claim replaced (track stores over it) is stopped by
\* its own heartbeat.  With ManualHeartbeat nobody stops that one, and Shutdown
\* waits for it on runExited for ever.
ShutdownReturns == (shut = "flagged") ~> (shut = "returned")

\* A cancellation is heard: a flagged task does not stay running, for the
\* heartbeat tells its handler even if cancelLocal missed the handle.
CancelHeard ==
  \A t \in Tasks :
    (recs[t].status = "running" /\ recs[t].cancelRequested)
      ~> ~(recs[t].status = "running" /\ recs[t].cancelRequested)
===============================================================================
