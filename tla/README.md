# A TLA+ model of taskgate

taskgate is a task queue library for Go: callers submit tasks to a *broker*
(in memory, SQLite, PostgreSQL, MySQL, Redis), a *Gate* in each process claims
them under a lease and runs their handlers. This directory models what is
concurrent or stateful in it, checks the models with TLC on small instances and
proves, with TLAPS and for every value of the constants, most of the safety
properties of the in-memory broker, the scheduler, the quota gates, the Redis
limiter and the waiting Dequeue; the locks, histories and, at READ COMMITTED, the
counters of the SQL broker; the edges and notifications of the SQLite broker and the
structures of the Redis broker; that the in-memory broker, the Redis broker and the
SQL broker at READ COMMITTED implement the abstract lifecycle; and that the SQLite
broker implements the in-memory one, record for record.

`PROJECT.json` holds the same information for tools: the runs and their
properties, the mutation behind every property, the source lines behind every
definition, the hazards and the findings.

## 1. The system

| Part | Source | State | Operations |
|---|---|---|---|
| Status table, dependency decisions | `taskgate.go`, `deps.go` | none (pure) | `CanTransition`, `DecideOnSubmit`, `DecideOnParentFinal` |
| Broker contract | `broker.go` | tasks, seen by their status | Enqueue, Dequeue, Ack, Fail, Cancel, FinishCanceled, Requeue, Heartbeat, Replay, ReapExpired, queries |
| In-memory broker | `memorybroker/` | records, business-key chains, clock, quota windows, one mutex | the contract; each method is one critical section |
| SQL broker | `internal/sqlbroker/`, `pgbroker/`, `mysqlbroker/` | rows, row locks, transactions | the contract; each method is one transaction, retried on deadlock |
| SQLite broker | `sqlitebroker/` | a file, one connection | the contract, serialised by the connection |
| Redis broker | `redisbroker/` | hashes, lists, sorted sets, indexes | the contract, in Lua scripts |
| Scheduler | `scheduler.go` | claim loops, execution handles (`s.tasks`), flags, slots | `run`, `claimLoop`, `execute`, `heartbeatLoop`, `reapLoop`, `shutdown` |
| Gate | `client.go` | the shutdown flag | Submit, Replay, Cancel, RenewLease, Run, Shutdown, queries |
| Limiters | `limiter.go`, `redisbroker/limiter.go` | slots; a sorted set of expiring slots | AcquireSlot, ReleaseSlot, WaitToken |
| Quota gates | `*/quota.go`, `memorybroker/broker.go` | uses per key and window | Reserve, Release |
| Helpers | `backoff.go`, `clock.go`, `errors.go` | none | |

**How they interact.** A Gate calls its broker directly. `claimLoop` takes a
slot, a rate token and, where configured, a quota reservation, then calls
`Dequeue`, and starts one `execute` goroutine per claimed task. That goroutine
enters a handle into `s.tasks`, runs the handler beside a heartbeat goroutine
and finally sends exactly one *receipt* (Ack, Fail, Requeue or FinishCanceled)
with the lease token it got. `Gate.Cancel` flags the task in the broker and then
pokes the local handle; a process that is not the holder is told through the
answer to its next heartbeat. `Shutdown` stops the claim loop, waits, and at its
deadline interrupts every handle. A reaper in every process takes back leases
that ran out. Whatever makes a task final settles its children in the same
critical section, transaction or script.

**What is hard.**
* A child's counter of open parents is written when it is submitted, and
  decremented whenever a parent ends, by whoever ends it: a count that is wrong
  by one leaves the child waiting for ever, or starts it too early.
* A lease may run out while its holder still works. The task is then claimed
  again, possibly by the same process, and two executions of it are alive.
* `execute`, `cancelLocal`, the heartbeat and `shutdown` write and read the flags
  of a handle with no common lock.
* SQL transactions lock rows in the order of the graph, read under two isolation
  levels, deadlock, and are rolled back and run again. Two of them may enqueue one
  business key, or replay one execution, at the same time.
* A SQLite transaction of many statements may be cut off by a crash; dependency
  edges, statuses and counters say the same thing in three places.
* A Dequeue with nothing to claim sleeps, and is woken by a write of its own
  process, by the clock, by its context or by Close; a write of another process
  sends it no signal at all.
* Redis keeps a task in a hash, a list, two sorted sets, an index and a counter,
  and only the care of each script keeps them in agreement; scripts get the time
  from callers whose clocks differ.
* Slots in Redis expire by themselves; quota reservations belong to a window
  that may be over when they are given back.

The properties that make each part correct are those of section 3.

## 2. The modules

| Module | Models | Kind |
|---|---|---|
| `TaskGate` | statuses, legal transitions, the decision functions | operators |
| `TaskLifecycle` | what any broker promises: tasks move along legal transitions and, in the same step, every waiting task takes the status its parents dictate | abstract specification |
| `MemoryBroker` | `memorybroker/broker.go` | state machine; implements `TaskLifecycle` |
| `Propagation` | the loops of `propagateFinal` and `ReapExpired` step by step | operators, TLC only (recursion) |
| `Scheduler` | `scheduler.go`, the limiter and the Gate, composed with `MemoryBroker` | state machine |
| `SqlBroker` | `internal/sqlbroker`, statement by statement | state machine; implements `TaskLifecycle` |
| `SqliteBroker` | `sqlitebroker`, the large transactions statement by statement | state machine; implements `MemoryBroker` |
| `DequeueWait` | how `Dequeue` of each broker waits and is woken | state machine |
| `RedisBroker` | `redisbroker`: the Lua scripts and the structures beside a task's hash | state machine over `MemoryBroker`'s records; implements `TaskLifecycle` |
| `Quota` | the quota gates of all four brokers and the quota branch of `claimLoop` | state machine |
| `RedisLimiter` | `redisbroker/limiter.go` and `sem_acquire.lua` | state machine |
| `MemoryBrokerProofs` | dependencies, leases, budgets, transitions, histories and the refinement in `MemoryBroker` | proofs |
| `RedisBrokerProofs` | the structures and the refinement of `RedisBroker` | proofs, over `MemoryBrokerProofs` |
| `SqliteBrokerProofs` | the edges, the notifications and the refinement of `SqliteBroker` | proofs |
| `SchedulerProofs` | slots, receipts, handles and shutdown in `Scheduler` | proofs, over `MemoryBrokerProofs` |
| `SqlBrokerProofs` | row locks, histories, counters and the refinement in `SqlBroker` | proofs |
| `QuotaProofs` | the window bound of `Quota` | proofs |
| `RedisLimiterProofs` | the concurrency bound of `RedisLimiter` | proofs |
| `DequeueWaitProofs` | no lost signal in `DequeueWait` | proofs |
| `MC*` | values of the constants for TLC | |

**MemoryBroker.** `recs` is `b.records`, a partial function from ids to
records; `chains` the business-key chains, `replayed` the set of executions that
have a successor, `now` the injected clock, `lastToken` the lease tokens handed
out (a counter stands for fresh ULIDs), `closed` the flag of `Close`. Every
method holds `b.mu` throughout, so it is one action; a call that returns an
error changes nothing and is a stuttering step. A worker's report may come with
*any* token ever handed out, at any later time, which covers workers that hang,
die and come back. `Submissions` says what is submitted: a DependsOn list, a policy
and a key. `propagateFinal` is a work-queue loop; `Propagate` states its
result (the least set of children that are canceled, every other child
decremented once per parent that ended), and `Propagation` checks, in every
reachable state, that the loop computes it.

**Scheduler.** `exec` maps a lease token to the live goroutine of that claim,
with the flags of `runningTask`, the phase it is in and the receipt it chose;
`tasks` is `s.tasks`. Writes to a handle's flag and to its context are separate
steps wherever the code takes no lock that covers both. A broker call may be
lost, before or after it took effect (`MaxFaults` of them). `Backlogs` says which
tasks wait when the process starts; the others were canceled before.

**SqlBroker.** `rows` is the committed table, `tx[c]` the open transaction of
connection `c`: rows locked, rows written, what remains of its work queue.
Transactions that touch one row are one action; Enqueue, the ends of tasks with
their cascades and ReapExpired advance by one statement at a time. `Rollback`
may strike at any of them. `isolation`, chosen in the initial state, is READ
COMMITTED (PostgreSQL's default) or REPEATABLE READ (MySQL's), which differ in what a
plain SELECT sees; `Submissions` says what is submitted under each. Enqueue with a
business key looks the key up, Replay locks its target and looks for an earlier
replay of it, and both then insert. `uq_chain_head` and `uq_replay_of` are the unique
indexes, which see every committed row whatever the snapshot; the insertion and the
commit that follows it are one step.

**SqliteBroker.** `rows` and `edges` are the committed tables `tasks` and `task_deps`,
`tx` the one transaction that has the write lock: its own copy of the tables, the
walk of `propagateTx`, the pass of `ReapExpired` it is in, and the snapshots it will
send to OnStateChange. A transaction that writes one task is one action; the end of a
task and ReapExpired run statement by statement. `Crash` throws `tx` away. A claim
reads the clock before BEGIN IMMEDIATE, which may wait (`MaxLag`); every other
transaction reads it inside. A row has the fields of a `MemoryBroker` record, the
chains are read off `replay_of`, and each commit must be a step of `MemoryBroker`.

**DequeueWait.** `waiter` says where each call of Dequeue stands and holds its locals
(context, timer, the wake channel it took, its guard goroutine), `queued` the
claimable tasks with the time left until they are due, `owed` the writes whose
`wakeAll` is still to come. `medium` selects the in-memory loop (a mutex and a
condition variable), the loop of SQLite and Redis, or that of the SQL brokers, whose
claim passes over rows that are locked (`rowLock`). Time is relative, timers and tasks
count down, so the clock needs no bound and liveness is checked over unbounded time.

**RedisBroker.** A script is one step of Redis, so every operation is one action.
`recs` and `chains` stand for the hashes and the business-key lists and have the
records of `MemoryBroker`, whose operators for the hash (`Counted`, `Exhausted`,
`Reaped`, `Propagate`, ...) it uses: the scripts repeat the decisions of the Go code
line by line. `db` holds everything else: the list and the sorted set of each
queue, the sorted set of leases, the index of statuses and the statistics. The
time `at` of a script is the one its caller read, at most `MaxLag` behind. A claim
whose answer is lost is sent again by the client library, with the same token;
of the scripts of this module it is the one whose repetition is not harmless (the
others find the lease gone, the id taken or the target replayed; the two scripts of
the quota gate are in `Quota`). The walk of `propagate` may meet the tasks it moves in any order in the model, which covers the order it takes.

**Quota.** `used` holds the counters of one quota key, window by window, in a
medium that all claim loops share; `loop` says where each loop stands in its
round. `medium` is chosen in the initial state, because the gates differ in what
is atomic (MySQL reads the time in a statement of its own) and in how old windows
go away (inside Reserve, after it, or by expiry). On Redis the client library sends a
script again when its answer is lost (`redisbroker/broker.go`, line 103, keeps the
default retries), so that Reserve and Release may each be carried out twice
(`ReserveAgain`, `ReleaseAgain`). `admitted`, `starts` and `resent` are history:
reservations consumed per window, handlers started in the current one, and releases of
a window that Redis carried out once too often.

**RedisLimiter.** `sem` is the sorted set of a queue, `held` the slots of each
process in the order of `l.held`; `stopping` and `joined` are the two stations of
ReleaseSlot between taking a slot out of `l.held` and ZREM. A renewal may be
under way until it is joined. Its ZADD has a timeout whose error is ignored: what the
caller gave up on is in `late`, and Redis may carry it out at any later time, after
the ZREM too. A lost call and a crash leave a slot nobody holds; `gone` records when
a slot lost its last user.

## 3. The runs

Between them the passing runs take every action of every specification. Deadlock
checking is off because the instances have bounds (a clock that stops, tokens that run out) and
because the system itself may come to rest: everything final, or shut down.

| Run | Question | Bounds and why they are enough |
|---|---|---|
| `MCDeps` | Is a wake-up ever lost (`PendingParentsExact`), does a task start too early (`DepsSatisfied`), is the repair pass ever needed? Does the walk of `propagateFinal` compute `Propagate`, does the random order of a Go map matter to `ReapExpired`? Is the history of a key one line (`ChainsLinear`), are tokens exclusive (`LeaseConsistent`)? Does the broker implement `TaskLifecycle`? | Three tasks: a child has two parents, a chain has two levels, a parent is named twice, executions of one key or of none, related by replay or not; both policies; two claims; the clock goes to 2, so that two leases can expire at once (a lease of one tick is over at the second). |
| `MCScheduler` | Slots, receipts, handles and shutdown (eight invariants); are budgets exact (`BudgetRespected`), transitions legal (`LegalTransitions`), cancellations kept (`CancelSurvives`) by the broker under it? | One task claimed twice by two workers: the smallest instance in which two executions of one task overlap and the old holder still reports; one lost call; every limit is two (one retry) and can be reached; a lease can run out. |
| `MCShutdown` | The path of a task type without a handler, and liveness: `ShutdownReturns`, `CancelHeard` | A task with a handler, or one without, in the queue; two claims by two workers and a lease that can run out, so that an execution is replaced in `s.tasks` by a later one of its task; automatic heartbeats; no lost calls. |
| `MCSql` | Are counters exact (`SqlPendingExact`), is the history of a key one line (`SqlChainsLinear`), and do commits implement `TaskLifecycle`? | Three tasks: in chains and joins with the locks in both orders (READ COMMITTED), and as executions of one key, enqueued and replayed by id and by key (both levels). Two connections, rollbacks anywhere. Connections are symmetric. |
| `MCSqlCancel` | Finding 1 (violation) | One task. |
| `MCSqlRepair` | Finding 2 (violation) | Two parents and a join, REPEATABLE READ. |
| `MCRedis` | Do list, sorted sets, index and statistics agree with the hashes after every script (`QueuesExact`, `LeasesWatched`, `IndexesExact`), and do the scripts implement `TaskLifecycle`? | Two tasks, the second perhaps below the first, a key, two claims of which one may be a repetition, callers up to one tick behind (a task in the list is then not due, a requeued one is delayed), time for two leases of a task to run out. |
| `MCQuota` | Does a window ever admit more than its limit, through races, late releases, lost calls, crashes and clean-up, on each medium (`QuotaBound`, which allows one more for each release that Redis ran twice)? Is a slot lost on the way? | Two claim loops, a limit of two, four windows (a window is cleaned up two periods later), one fault. Loops are symmetric. |
| `MCQuotaStarts` | Finding 3 (violation) | The same loops over two windows, no fault. |
| `MCLimiter` | Do expiring slots keep the concurrency bound across processes, and do slots without a holder go away? | Two processes, two slots, four slot ids (both slots held, two ghosts), time for two lifetimes, two faults. Processes are symmetric. |
| `MCSqlite` | Does each commit, after any crash, do to the tasks what the in-memory broker does in one step (`SqliteImplementsMemory`)? Do `task_deps` and `tasks` agree (`EdgesExact`), and does a transaction of several statements notify of exactly the transitions it commits (`NotifyExact`)? | Three tasks: alone, below the first and named twice with a key, below both; replays; two claims, claims up to one tick late, time for a lease to run out. |
| `MCWait` | Is a signal of the own process ever lost (`NoLostSignal`)? Liveness: do a waiter and a due task stay together (`WaiterServed`), does a call outlive its context or Close (`DequeueEnds`)? | One task that comes and goes for ever, at once or delayed beyond the poll interval, written by the waiters' process or another; two waiters (on the SQL brokers one waiter and a transaction that locks the row and rolls back). |

**Fairness.** `MCShutdown` and `MCWait` assume some. `Scheduler!Fairness`: a goroutine
that can move does; a heartbeat's ticker keeps firing; a handler that watches
its context returns once it is canceled; Shutdown was given a context with a
deadline. Those are what the Go scheduler, `time.Ticker` and the documented
duty of a handler give. Nothing is assumed about handlers that are not
interrupted, about callers, or about the passage of time. `CancelHeard` does not
assume that `cancelLocal` runs: another process may have asked.
`DequeueWait!WaitFairness`: a goroutine that can move does, a writer that committed
reaches `wakeAll`, a transaction that will roll back does so, time passes. The two
steps that take the in-memory broker's mutex are strongly fair: they are enabled
whenever the mutex is free, others take it again and again, and Go's mutex hands it to
a goroutine that has waited long enough. Nothing makes a writer write or a caller call.

**Assumptions made explicit.** Three constants name assumptions about time that
a property needs and the code does not enforce.
* `PromptStart` (`Scheduler`): a goroutine started for a claim reaches `track`
  before the lease it was started with runs out. Without it
  `CurrentHandleTracked` fails: a goroutine delayed for a whole lease overwrites,
  in `s.tasks`, the handle of the execution that replaced it.
* `Prompt` (`Quota`): the two statements of MySQL's Reserve are at most two
  periods apart. Without it `QuotaBound` fails: a Reserve that stalls longer
  recreates the row of a window that another process has cleaned up, and admits
  from it once more.
* `TimelyRenew` (`RedisLimiter`): a slot in use is renewed before it expires, and a
  renewal that is carried out late does not set it back to a time that is over.
  Without it `ConcurrencyBound` fails, as the comments of the code expect.
  `GhostsFade` does not need it.

`ShutdownReturns` is stated for queues with automatic heartbeats; see the remarks.

**Findings.**
1. `MCSqlCancel`: under READ COMMITTED a Cancel that commits between the two
   scans of `ReapExpired` is accepted and then erased by the second pass, which
   does not look at the flag. The broker contract says a cancellation is not lost
   because a worker died.
2. `MCSqlRepair`: under REPEATABLE READ the repair pass of `ReapExpired` reads the
   parents from its snapshot and writes the counter computed from it over a newer
   one. The child then misses its wake-up and stays blocked until some later reap
   repairs it.

3. `MCQuotaStarts`: `claimLoop` reserves in one window and may start the handler in
   the next, in which a full limit may start as well; no fault is needed. The comment
   of `QuotaLimit` (`taskgate.go`, line 137) and spec 006 (FR-002 at line 92, SC-001
   at line 117) promise that the handlers started in a window are at most the limit.
   What the code does bound is the reservations *of* a window (`QuotaBound`). FR-002
   also says that no fault admits more. On Redis one does: a Release whose answer is
   lost is sent again and counts down twice, and the window then grants one reservation
   too many. The same configuration with `MaxTime = 3` (one window) and `MaxFaults = 1`
   gives that counterexample.

**Remarks.** In Redis, a claim that was sent twice leaves two running tasks
with one token until the lease of the forgotten one runs out: `LeaseConsistent`
holds for the in-memory broker and is not among the properties of `MCRedis`.

With manual heartbeats an execution whose lease ran out unnoticed is overwritten in
`s.tasks` by the next claim of its task (`scheduler.go`, line 106). Shutdown's sweep
interrupts the holder of the lease (`DrainInterruptsHolders`) and not the execution it
replaced, and then waits on `runExited` until that one's handler ends by itself. Line
82 of `specs/003-m3-polish/spec.md` says that in a queue without automatic renewal the
running tasks are interrupted all the same. With `ManualHeartbeat = TRUE` in
`MCShutdown.cfg`, `ShutdownReturns` is violated in just this way; with automatic
heartbeats the replaced execution learns from its next heartbeat that the lease is
lost, and the property holds. (For the safety properties the setting makes no
difference: a handler may call RenewLease at any time, so both reach the same states.)

The comment in ReleaseSlot (`redisbroker/limiter.go`, lines 136 and 137) says that
waiting for the renewal excludes that it writes the slot back after the ZREM. It does
so for the goroutine, not for a ZADD whose timeout passed and which Redis carries out
later. Such a slot is back for what is left of one lifetime, counted from before the
release: `GhostsFade` is stated, checked and proved with it. And when a slot
expired, was granted again and is then renewed by its old holder (line 224), both
holders keep renewing, so the excess lasts until one of the tasks ends and not for one
lifetime.

A lease granted by a SQLite claim that had to wait for the write lock counts from before
the wait, and may be over when it is granted; `SqliteImplementsMemory` names this one
difference from the in-memory broker (`ShortLease`).

## 4. The proofs

Each theorem holds for every value of the constants that the module's `ASSUME`
allows; the runs evaluate the same assumptions on their instances. The bounds that
keep TLC's instances finite (`MaxTime`, `MaxClaims`, `MaxFaults`, ...) are arbitrary
naturals there. Nearly every property needs a stronger, inductive invariant; it is
named below with what it adds. Every proof that an invariant is kept has one lemma
per action, or per group of actions that write the same things.

**Dependencies** (`MemoryBrokerProofs`, from `ConstantsAssumption`: task ids are
finitely many positive numbers, leases and limits are positive).
* *DependencySafety*: `Spec => [](TypeOK /\ PendingParentsExact /\ DepsSatisfied)`;
  *NoTaskRunsEarly* is its last part.
* *RepairNeverNeeded*: `Spec => []RepairIsNoOp`: the defensive pass of `ReapExpired`
  never changes a record.

The invariant is inductive as the conjunction of its three parts, and none of them
alone is: the counter of a child stays exact only because a waiting child has no
broken parent and a child that no longer waits has none open. The proof calls a
store with these properties *settled* and shows, in this order: what `Cascade` is
(the least closed set, `CascadeProperties`); that `Propagate` turns a settled store
in which some live tasks were just made final into a settled one
(`PropagateSettles`, on the count `CountDown`); that writing a live task leaves it
settled (`LiveWriteSettled`), as does adding one (`PutStep`, from
`DecideOnSubmitMeaning`); then one lemma per action. `RepairOfSettled` gives the
last theorem.

**Leases, budgets and histories** (`MemoryBrokerProofs`, same assumption).
* *LeasesConsistent*, *BudgetsRespected*, *HistoriesLinear*: the invariants
  `LeaseConsistent`, `BudgetRespected` and `ChainsLinear`.
* *OnlyLegalTransitions*, *CancellationSurvives*: the action properties
  `LegalTransitions` and `CancelSurvives`.

`StepShape` says that each step does one of three things to the store: it moves
existing records, each in a way `PropagateMoves` or a written record allows; it
claims one record with a fresh token; or it adds one record at the end of a history.
Each theorem then only looks at the three shapes. A history grows at its end alone
because an enqueue and a replay by key take the newest execution
(`TargetIsNewest`), and because an execution that was replayed is in `replayed`.

**Refinement** (`MemoryBrokerProofs`, same assumption).
* *BrokerImplementsLifecycle*: `Spec => ImplementsLifecycle`, that is, every
  behaviour of `MemoryBroker` is one of `TaskLifecycle` under the mapping given there.

The abstract step says that in the step in which tasks end, every waiting task takes
the status that its parents dictate. `PropagateExplained` accounts for every status
that propagation changes: nothing is canceled without a cause (`CascadeCaused`, from
the leastness of `Cascade`), and nothing is woken whose parents are not all over.
That nothing is *left* waiting that should move follows from the settled store
(`SettledVerdict`), so the first invariant is needed here too.

**Scheduler** (`SchedulerProofs`, from `SchedulerAssumption` and
`ConstantsAssumption`). All eight invariants of `MCScheduler`: *SlotsAccounted*,
*InterruptionsNeverFail*, *CancellationsAreAsked*, *FinishedWorkIsKept*,
*SkipsAreNeverRetried*, *NothingIsLeft*, and, with `PromptStart` as a hypothesis,
*HandlesAreCurrent* and *DrainReachesHolders*. `SchedulerAssumption` asks that
`MaxRetries` is not empty: the tasks are there from the start and each has a limit.

The invariant `SchedInv` has seven parts: the store (`StoreOK`), loops and slots
(`ControlOK`), each execution by itself (`HandlesOK`: what canceled a context left a
flag before), `s.tasks` and the sweep (`TrackedOK`), who asked for what (`AskedOK`),
each execution against the lease of its task (`LeasesOK`), and what is known of
those that hold their lease (`HoldersOK`). `InterruptedNotFailed` rests on
`HandlesOK` alone; what an execution reports about its *task* needs `LeasesOK`,
because another process may have claimed it since. A store without dependencies is
left alone by propagation (`FlatPropagate`), which reduces the broker's operations
to writes of one record.

**SQL broker** (`SqlBrokerProofs`, from `SqlAssumption`). At both isolation levels:
* *RowLocksExclude*: `SqlSpec => []SqlTypeOK`: no two transactions have one row
  locked, whatever is written is locked by its writer.
* *ReplaysLinear*: `SqlSpec => []SqlChainsLinear`: however enqueues and replays race,
  the executions of a key form one line and nothing is replayed twice.

The invariant `SqlInv` relates every open transaction to the committed table
(`ClientOK`): its locks and its work are about committed rows, what it has written
is a row the committed one may become, what it found final is final. This survives
the commits of the others because a row keeps its identity and what is final stays
so (`Kept`), and because a locked row does not change (`Apart`). It does not depend
on what a plain SELECT sees, which is why one proof serves both levels; the unique
indexes, which see the committed table, do the rest.

At READ COMMITTED, where every statement reads the committed table:
* *NoWakeupLost*: `SqlSpec /\ isolation = "RC" => []SqlPendingExact`: whatever the
  concurrent cascades, enqueues, claims and rollbacks, the counter of a waiting
  task counts its open parents, and no task waits that should run or end.
* *SqlImplements*: `SqlSpec /\ isolation = "RC" => SqlImplementsLifecycle`: each
  commit is one step of `TaskLifecycle`, every other step a stutter.

The committed table is settled, in the sense of the in-memory broker, only because of
what the open transactions *will* do; so the invariant `GraphInv` adds to `SqlInv` what
each of them has done and still has before it. `WalkOK` says it of a cascade: each task
that it ended has had its children locked, and each of those is settled or still in
the work list (`Covered`, `Accounted`); each counter in its writes is the count that
its own ends leave (`WritesRight`); nothing is canceled without a cause. `ReadOK` says
it of an Enqueue between its statements: the parents it read are locked and as it read
them. None of this is disturbed by another transaction's commit
(`GraphTxStable`), because that could only write rows it has locked, and a cascade
holds the rows of all children of what it ends, an Enqueue those of all parents of what
it inserts (`CommitLocked`). At the commit the work list is empty, and the table the
commit leaves is settled. The repair pass of `ReapExpired` finds nothing to do
(`RepairNoOp`). REPEATABLE READ is left out because the property is false there:
finding 2 is the counterexample.

**SQLite broker** (`SqliteBrokerProofs`, from `SqliteAssumption`: what
`ConstantsAssumption` asks, submissions that are well formed, and a lag that is a
natural number).
* *EdgesAgree*, *NoticesAgree*: `SqliteSpec => []EdgesExact` and `[]NotifyExact`.
* *SqliteImplements*: `SqliteSpec => SqliteImplementsMemory`: each commit is one step of
  `MemoryBroker`, with the same record in every field and the chains read off
  `replay_of`; every other step, a crash included, is a stutter, but for the claims
  that waited, which the property names (`ShortLease`).

All three follow from *SqliteInvariant*, `SqliteSpec => []SqliteInv`. It says of the
committed tables that counters and edges are exact (`Tables`), and of the open
transaction (`TxGood`) two things. First, its own rows and edges are as exact as the
committed ones if a parent counts as open while its children are still to be settled
(`Right` and `Marked`, with the set `Owing`): one round of the walk takes a task out of
that set and puts the tasks it cancels into it (`VisitKeepsRight`). Second, its rows
stand between the committed ones and those its call is for (`Walk`, `Purpose`): every
row is as it was, written, counted down, woken or canceled, and what is canceled is in
every set closed under the cascade. The walk visits parents one at a time, where
`Propagate` counts them all at once; a counter that was decremented before its row was
canceled would be left different. That cannot happen because the tasks one transaction
ends have either all completed or all failed or been canceled (`AllBroke`, in
`GoodBase`), so under fail_fast a row is counted down or canceled, never both
(`Follows`). When nothing is owing, what was canceled is exactly `Cascade`
(`FallenIsCascade`), and every other counter is the number of parents still open on
either side (`PropagatedRow`); `PropagateIs` puts the two together. The defensive
pass of the reaper changes nothing (`RepairedSame`), and neither would that of the
in-memory broker (`RepairNothing`). A new id is above all others, so a chain in
ascending order grows at its end (`AscendingAppends`).

**Redis broker** (`RedisBrokerProofs`, from `ConstantsAssumption` and
`RedisAssumption`, a lag of the callers' clocks that is a natural number).
* *QueuesAgree*, *LeasesAgree*, *IndexesAgree*: `RedisSpec => []QueuesExact`,
  `[]LeasesWatched` and `[]IndexesExact`: the queues, the sorted set of leases, the
  index of statuses and the statistics say of every task what its hash says.
* *RedisImplements*: `RedisSpec => ImplementsLifecycle`: every script is one step of
  `TaskLifecycle` or a stutter.

The invariant is `RedisInv`: the hashes are a settled store, as in the in-memory
broker, and the structures agree with them (`Agrees`, task by task `Books`). The two
need each other: `reap` looks for overdue tasks in the sorted set, and finds those
of the hashes only because the two agree; the structures follow the tasks that a
cascade moves, and `Moved` has a case for each of these moves only because the store
was settled and the defensive pass has nothing to repair. The walk of a cascade
is a sequence of moves in an order that the model leaves open. That the structures
agree at its end is proved without induction over the sequence: if they did not, there
would be a first move after which they disagree with the tasks moved so far
(`AllMovedAgrees`, by `Reaches`), and one move keeps the agreement. The same
argument gives what `LRem`, a recursion over a list, leaves in a queue. A claim may
be resent with the token of an earlier one (`ClaimResent`), so leases are *not*
distinct here, and none of these theorems needs them to be.

**Quota gates** (`QuotaProofs`, from `QuotaAssumption`: finitely many claim loops, a
positive limit and period, a clock that starts in a window that exists), for all media.
* *QuotaSlotsKept*: `QuotaSpec => []QuotaSlots`.
* *QuotaBounded*: `QuotaBound`, under `Prompt \/ medium # "mysql"`: of no window are
  more reservations consumed or held than its limit, plus the releases of it that
  Redis carried out twice.
* *QuotaIsHard*: on every medium but Redis, and under the same condition, no more than
  the limit (`HardQuota`), because nothing is ever released twice there.

`QuotaBound` does not speak of the counter. `OpenCounted` adds what the gates rely on:
while a window can still be reserved, its counter covers every reservation of it that
was consumed or is still in somebody's hands, less what was released twice. Counters
are dropped, and late releases miss, only where the window is over.

**Redis limiter** (`RedisLimiterProofs`, from `LimiterAssumption`).
* *SlotsBounded*: `LimiterSpec => [](TimelyRenew => ConcurrencyBound)`.
* *GhostSlotsFade*: `LimiterSpec => []GhostsFade`: a slot that was given back, or lost
  its holder, takes a place for one lifetime at most, whatever renewals are still on
  their way (without `TimelyRenew`).

A slot is in exactly one of four places (`PlacesInv`): held once, being released
before or after its renewal was joined, given up. With timely renewals a held slot is
in the sorted set and has not expired (`Alive`), so the count of an acquisition that
finds room covers every holder. `ScoresDated` gives the other theorem: no score in the
set, nor in a renewal still on its way, was computed after its slot was given up,
because the renewal's goroutine was joined before.

**Waiting** (`DequeueWaitProofs`, from `WaitAssumption`), for the three kinds of loop.
* *SignalsNotLost*: `WaitSpec => []NoLostSignal`.

The invariant `WaitInv` extends the property to the waiters that are on their way to
sleep, with the mutex (`arming`) or without it (`decide`). It needs that a timer that
was not set means there was no task to wait for (`NextIsEarliest`, `NeverBounds`).

**Only model-checked.**
* Liveness, which the prover does not do: `ShutdownReturns`, `CancelHeard`,
  `WaiterServed`, `DequeueEnds`.
* What the recursive loops of `Propagation` compute, which needs induction over data:
  `WalkMatchesPropagate` and `ReapOrderImmaterial`. For the walk of the SQLite broker,
  which is a state machine of its own, `PropagateIs` proves the same.

## 5. Not modelled

* The read-only queries (Get, List, Stats, History, QueueLen) and statistics: they
  change no state that others read. OnStateChange notifications are modelled where they
  are collected over many statements (`SqliteBroker`) and nowhere else; what a callback
  does is the user's.
* The bound on the retries of a SQL transaction, and when a database picks a deadlock's
  victim: a rollback may strike at every statement, for whatever reason.
* The arithmetic of rate tokens (`golang.org/x/time/rate`, `redis_rate`).
* Backoff: a pure function with random jitter; a retry is due at any later time.
* Configuration loading, connection set-up, schemas, dialects; tests, examples,
  prototypes.

## 6. Plan

Done, in this order: `TaskGate`, `TaskLifecycle`, `MemoryBroker` with its proofs,
`Propagation`, `Scheduler`, `SqlBroker`, `Quota`, `RedisLimiter`, `RedisBroker`,
`SqliteBroker`, `DequeueWait`, keys and replay in `SqlBroker`. Every broker, the
scheduler and the limiters have their module. Then the theorems of section 4, in its
order; they cover 33 of the 39 pairs of a passing run and a property (`BudgetRespected`,
`LegalTransitions` and `CancelSurvives`, which `MCScheduler` checks under the
scheduler, are proved of `MemoryBroker` by itself, with every possible caller). The
other six are the liveness properties and the two about recursive loops.
