------------------------------ MODULE DequeueWait ------------------------------
(***************************************************************************)
(* How a Dequeue that finds no task waits, and who wakes it.               *)
(*                                                                         *)
(* "memory": the loop runs under the broker's mutex and sleeps on a        *)
(* condition variable; waitLocked starts a guard goroutine that turns the  *)
(* end of the context and the clock into broadcasts.                       *)
(*                                                                         *)
(* "poll" (SQLite, Redis) and "sql" (PostgreSQL, MySQL): the loop takes    *)
(* the process's wake channel, tries to claim, and selects on the context, *)
(* on a timer of at most Poll, and on the channel, which every writer of   *)
(* the same process closes after its commit.  Writers of other processes   *)
(* are only found by the timer; so are rows that SKIP LOCKED passed over.  *)
(*                                                                         *)
(* Time is relative: a queued task counts down to its RunAt, a timer to    *)
(* its end, so the clock has no bound.                                     *)
(***************************************************************************)
EXTENDS Integers, FiniteSets, FiniteSetsExt

CONSTANTS
  Callers,    \* kind of broker -> the waiters that use it
  Tasks,
  Waiters,    \* goroutines that call Dequeue
  Procs,      \* processes
  Home,       \* waiter -> the process it runs in
  Poll,       \* pollInterval
  Delays,     \* how far ahead RunAt may lie
  MaxLag      \* bound: how long a claim waits between its clock and its transaction

ASSUME WaitAssumption ==
  /\ DOMAIN Callers \subseteq {"memory", "poll", "sql"}
  /\ \A m \in DOMAIN Callers : Callers[m] \subseteq Waiters
  /\ Home \in [Waiters -> Procs]
  /\ Poll \in Nat \ {0} /\ MaxLag \in Nat
  /\ Delays \subseteq Nat /\ IsFiniteSet(Delays)

VARIABLES
  medium,
  queued,   \* claimable task -> how long until it is due, and who wrote it
  rowLock,  \* task -> does a transaction hold its row that will roll back: free, held, was
  waiter,   \* waiter -> where it is, and its locals
  firing,   \* waiters whose guard left its select and has yet to broadcast
  owed,     \* <<process, task>>: written, but wakeAll is still to come
  closed    \* processes that closed the broker

waitVars == <<medium, queued, rowLock, waiter, firing, owed, closed>>
store    == <<queued, rowLock, owed, closed>>

Homes == {Home[w] : w \in Waiters}

Never == Max(Delays \cup {Poll}) + 1   \* a timer that is not set

Outside == [pc |-> "idle",
            ctx |-> FALSE,     \* is its context done
            timer |-> Never,   \* what is left of its timer, or of the time to next
            age |-> 0,         \* how long ago tryClaim read the clock
            woken |-> FALSE,   \* is the wake channel it took closed
            guard |-> FALSE]   \* is its guard goroutine in the select

WaitInit ==
  /\ medium \in DOMAIN Callers
  /\ queued = [t \in {} |-> 0]
  /\ rowLock = [t \in Tasks |-> "free"]
  /\ waiter = [w \in Waiters |-> Outside]
  /\ firing = {} /\ owed = {} /\ closed = {}

Inside(w) == waiter[w].pc # "idle"

Go(w, r) == waiter' = [waiter EXCEPT ![w] = r]

\* The top of the loop, where nothing of the last round is left.
Top(w) == [Outside EXCEPT !.pc = "loop", !.ctx = waiter[w].ctx]

Call(w) ==
  /\ w \in Callers[medium] /\ ~Inside(w) /\ Go(w, Top(w))
  /\ UNCHANGED <<medium, firing, store>>

CancelContext(w) ==
  /\ Inside(w) /\ ~waiter[w].ctx
  /\ Go(w, [waiter[w] EXCEPT !.ctx = TRUE])
  /\ UNCHANGED <<medium, firing, store>>

\* What a waiter sees whose clock shows the time `back' ticks ago.
DueFor(back)  == {t \in DOMAIN queued : queued[t].left + back <= 0}
NextFor(back) == LET later == {queued[t].left : t \in DOMAIN queued \ DueFor(back)}
                 IN  IF later = {} THEN Never ELSE Max({0, Min(later)})

\* The earliest task of S leaves the queue; the caller returns with it.
Take(w, S) ==
  /\ \E t \in S :
       /\ \A u \in S : queued[t].left <= queued[u].left
       /\ queued' = [u \in DOMAIN queued \ {t} |-> queued[u]]
  /\ Go(w, Outside)

\* ctx.Err() and requireInit end the call.
Refused(w) == waiter[w].ctx \/ Home[w] \in closed

-------------------------------------------------------------------------------
(* The in-memory broker.  A waiter in "arming" holds the mutex: it has     *)
(* started its guard and is about to call cond.Wait.                       *)

MutexFree == \A w \in Waiters : waiter[w].pc # "arming"

MemoryLoop(w) ==
  /\ medium = "memory" /\ waiter[w].pc = "loop" /\ MutexFree
  /\ \/ Refused(w) /\ Go(w, Outside) /\ UNCHANGED queued
     \/ ~Refused(w) /\ Take(w, DueFor(0))
     \/ /\ ~Refused(w) /\ DueFor(0) = {}
        /\ Go(w, [waiter[w] EXCEPT !.pc = "arming", !.guard = TRUE, !.timer = NextFor(0)])
        /\ UNCHANGED queued
  /\ UNCHANGED <<medium, rowLock, firing, owed, closed>>

\* cond.Wait gives the mutex back once the waiter is on the list.
CondWait(w) ==
  /\ waiter[w].pc = "arming" /\ Go(w, [waiter[w] EXCEPT !.pc = "asleep"])
  /\ UNCHANGED <<medium, firing, store>>

\* Those on the condition's list have to take the mutex again.
Broadcast ==
  waiter' = [w \in Waiters |-> IF waiter[w].pc = "asleep" THEN Top(w) ELSE waiter[w]]

\* Wrong variant of GuardFires: the guard does not watch the clock.
GuardFiresNoTimer(w) ==
  /\ waiter[w].guard /\ w \notin firing
  /\ waiter[w].ctx
  /\ firing' = firing \cup {w} /\ Go(w, [waiter[w] EXCEPT !.guard = FALSE])
  /\ UNCHANGED <<medium, store>>

GuardFires(w) ==
  /\ waiter[w].guard /\ w \notin firing
  /\ waiter[w].ctx \/ waiter[w].timer = 0
  /\ firing' = firing \cup {w} /\ Go(w, [waiter[w] EXCEPT !.guard = FALSE])
  /\ UNCHANGED <<medium, store>>

\* Wrong variant of GuardBroadcast: the mutex is not taken first.
GuardBroadcastUnlocked(w) ==
  /\ w \in firing
  /\ Broadcast /\ firing' = firing \ {w}
  /\ UNCHANGED <<medium, store>>

GuardBroadcast(w) ==
  /\ w \in firing /\ MutexFree
  /\ Broadcast /\ firing' = firing \ {w}
  /\ UNCHANGED <<medium, store>>

-------------------------------------------------------------------------------
(* The brokers that poll.                                                  *)

\* The two checks at the top.
PollLoop(w) ==
  /\ medium # "memory" /\ waiter[w].pc = "loop"
  /\ Go(w, IF Refused(w) THEN Outside ELSE [waiter[w] EXCEPT !.pc = "checked"])
  /\ UNCHANGED <<medium, firing, store>>

\* The wake channel is taken, in a critical section of its own (after a Close
\* it is one that only another writer closes); then tryClaim reads its clock.
wakeChan(w) ==
  /\ waiter[w].pc = "checked"
  /\ Go(w, [waiter[w] EXCEPT !.pc = "tx"])
  /\ UNCHANGED <<medium, firing, store>>

\* The transaction or script.  A context that ends or a connection that is
\* closed makes it fail, unless it is through already; SKIP LOCKED passes
\* over rows that others hold.
TryClaim(w) ==
  LET back == waiter[w].age
      due  == {t \in DueFor(back) : rowLock[t] # "held"}
  IN  /\ waiter[w].pc = "tx"
      /\ \/ Refused(w) /\ Go(w, Outside) /\ UNCHANGED queued
         \/ Take(w, due)
         \/ /\ due = {} /\ UNCHANGED queued
            /\ Go(w, [waiter[w] EXCEPT !.pc = "decide", !.age = 0, !.timer = NextFor(back)])
      /\ UNCHANGED <<medium, rowLock, firing, owed, closed>>

\* wait = min(pollInterval, next - now); not positive: try again at once.
Slept(w) ==
  IF waiter[w].timer = 0 THEN Top(w)
  ELSE [waiter[w] EXCEPT !.pc = "asleep", !.timer = Min({Poll, @})]

\* Wrong variant of Sleep: the wake channel is taken only now.
SleepFresh(w) ==
  /\ waiter[w].pc = "decide"
  /\ Go(w, [Slept(w) EXCEPT !.woken = FALSE])
  /\ UNCHANGED <<medium, firing, store>>

Sleep(w) ==
  /\ waiter[w].pc = "decide" /\ Go(w, Slept(w))
  /\ UNCHANGED <<medium, firing, store>>

\* The select: whichever of its cases is ready.
Select(w) ==
  /\ medium # "memory" /\ waiter[w].pc = "asleep"
  /\ \/ waiter[w].ctx /\ Go(w, Outside)
     \/ (waiter[w].timer = 0 \/ waiter[w].woken) /\ Go(w, Top(w))
  /\ UNCHANGED <<medium, firing, store>>

-------------------------------------------------------------------------------
(* Writers: Enqueue, Replay, Fail, Requeue, Ack with its cascade, a reap.  *)

\* The channel that the waiters of p have taken is closed.
Wake(p) ==
  waiter' = [w \in Waiters |-> IF Home[w] = p /\ waiter[w].pc \in {"tx", "decide", "asleep"}
                               THEN [waiter[w] EXCEPT !.woken = TRUE] ELSE waiter[w]]

Put(p, t, delay) ==
  /\ p \notin closed /\ t \notin DOMAIN queued /\ <<p, t>> \notin owed
  /\ queued' = [u \in DOMAIN queued \cup {t} |->
                  IF u = t THEN [left |-> delay, by |-> p] ELSE queued[u]]
  /\ \/ medium = "memory" /\ p \in Homes /\ MutexFree /\ Broadcast /\ UNCHANGED owed
     \/ medium # "memory" /\ owed' = owed \cup {<<p, t>>} /\ UNCHANGED waiter
  /\ UNCHANGED <<medium, rowLock, firing, closed>>

wakeAll(p, t) ==
  /\ <<p, t>> \in owed
  /\ owed' = owed \ {<<p, t>>} /\ Wake(p)
  /\ UNCHANGED <<medium, queued, rowLock, firing, closed>>

\* A transaction on t that fails: no commit, no wakeAll.  Bound: once a task.
LockRow(t) ==
  /\ medium = "sql" /\ t \in DOMAIN queued /\ rowLock[t] = "free"
  /\ rowLock' = [rowLock EXCEPT ![t] = "held"]
  /\ UNCHANGED <<medium, queued, waiter, firing, owed, closed>>

RollBack(t) ==
  /\ rowLock[t] = "held"
  /\ rowLock' = [rowLock EXCEPT ![t] = "was"]
  /\ UNCHANGED <<medium, queued, waiter, firing, owed, closed>>

Close(p) ==
  /\ p \notin closed /\ MutexFree /\ closed' = closed \cup {p}
  /\ \/ medium = "memory" /\ Broadcast
     \/ medium # "memory" /\ Wake(p)
  /\ UNCHANGED <<medium, queued, rowLock, firing, owed>>

\* What is overdue by MaxLag or more looks the same to every clock.
Tick ==
  /\ \A w \in Waiters : waiter[w].age < MaxLag
  /\ queued' = [t \in DOMAIN queued |-> [queued[t] EXCEPT !.left = Max({-MaxLag, @ - 1})]]
  /\ waiter' = [w \in Waiters |->
                  [waiter[w] EXCEPT !.timer = IF @ \in {0, Never} THEN @ ELSE @ - 1,
                                    !.age = IF waiter[w].pc = "tx" THEN @ + 1 ELSE 0]]
  /\ UNCHANGED <<medium, rowLock, firing, owed, closed>>

-------------------------------------------------------------------------------
WaiterStep(w) == CondWait(w) \/ PollLoop(w) \/ wakeChan(w) \/ TryClaim(w) \/ Sleep(w) \/ Select(w)

WaitNext ==
  \/ \E w \in Waiters :
       \/ Call(w) \/ CancelContext(w)
       \/ MemoryLoop(w) \/ WaiterStep(w) \/ GuardFires(w) \/ GuardBroadcast(w)
  \/ \E p \in Homes : Close(p)
  \/ \E p \in Procs, t \in Tasks : wakeAll(p, t) \/ \E delay \in Delays : Put(p, t, delay)
  \/ \E t \in Tasks : LockRow(t) \/ RollBack(t)
  \/ Tick

\* Goroutines that can run do run; the clock goes on; a transaction ends.  Go's
\* mutex hands itself to a goroutine that has waited, so who keeps asking for
\* it gets it although others take it in between: strong fairness.
WaitFairness ==
  /\ \A w \in Waiters :
       /\ WF_waitVars(WaiterStep(w)) /\ WF_waitVars(GuardFires(w))
       /\ SF_waitVars(MemoryLoop(w)) /\ SF_waitVars(GuardBroadcast(w))
  /\ \A p \in Procs, t \in Tasks : WF_waitVars(wakeAll(p, t))
  /\ \A t \in Tasks : WF_waitVars(RollBack(t))
  /\ WF_waitVars(Tick)

WaitSpec == WaitInit /\ [][WaitNext]_waitVars /\ WaitFairness

-------------------------------------------------------------------------------
(* Properties.                                                             *)

\* No write of the own process is lost between a claim that found nothing and
\* the sleep: a sleeper's timer ends no later than any task its process wrote
\* becomes due, or its wake channel is closed or about to be ("take the signal
\* first, then try"; waitLocked's timer; wakeAll after the commit).  Rows that
\* another transaction held when the claim passed over them are left to Poll.
NoLostSignal ==
  \A w \in Waiters, t \in DOMAIN queued :
    waiter[w].pc = "asleep" /\ queued[t].by = Home[w] /\ rowLock[t] = "free" =>
      \/ waiter[w].woken \/ <<Home[w], t>> \in owed
      \/ waiter[w].timer <= Max({0, queued[t].left})

AnyDue == \E t \in DOMAIN queued : queued[t].left <= 0

\* A waiting Dequeue and a task that is due do not stay together for ever: the
\* waiter returns, or others took every task that was due; whichever process
\* wrote it, whether it was due at once or fell due later (the three wake-up
\* sources of Dequeue's comment, and the poll for the others).
WaiterServed ==
  \A w \in Waiters : Inside(w) /\ AnyDue ~> ~Inside(w) \/ ~AnyDue

\* A Dequeue whose context is done, or whose broker was closed, returns although
\* no task ever comes (ctx.Done in the select and in the guard goroutine, the
\* broadcast of Close).
DequeueEnds ==
  \A w \in Waiters : Inside(w) /\ Refused(w) ~> ~Inside(w)
===============================================================================
