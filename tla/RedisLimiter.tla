------------------------------ MODULE RedisLimiter ------------------------------
(***************************************************************************)
(* redisbroker/limiter.go and lua/sem_acquire.lua: the concurrency slots   *)
(* of one queue, shared by several processes.  A slot is a member of a     *)
(* sorted set whose score is the time it expires; its holder renews it     *)
(* every TTL/3, a holder that died lets it expire.                         *)
(*                                                                         *)
(* Acquiring prunes, counts and adds in one script.  Releasing takes three *)
(* steps, stop the renewal, wait for its goroutine, remove the member,     *)
(* and every call to Redis may be lost.  A renewal has a timeout and its   *)
(* error is ignored: what the caller gave up on may still be on its way,   *)
(* and Redis carries it out late, after the slot was removed perhaps.      *)
(*                                                                         *)
(* Abstracted: the polling interval of AcquireSlot (a call that finds no   *)
(* slot leaves the loop where it was), rate tokens, clocks that differ     *)
(* between processes.                                                      *)
(***************************************************************************)
EXTENDS Integers, FiniteSets, Sequences, FiniteSetsExt, Functions

CONSTANTS
  Procs,        \* processes with a limiter for the queue
  Workers,      \* slots of the queue, over all processes
  TTL,          \* lifetime of a slot that is not renewed
  TimelyRenew,  \* TRUE: a slot in use is renewed before it expires, and no
                \* renewal arrives so late that it has expired itself
  MaxTime,      \* bound: the clock
  MaxMembers,   \* bound: slot ids made
  MaxFaults     \* bound: lost calls and crashes

ASSUME LimiterAssumption ==
  /\ IsFiniteSet(Procs) /\ Workers \in Nat \ {0} /\ TTL \in Nat \ {0}
  /\ TimelyRenew \in BOOLEAN
  /\ MaxTime \in Nat /\ MaxMembers \in Nat /\ MaxFaults \in Nat

VARIABLES
  clock,
  sem,       \* the sorted set: member -> score, a partial function
  held,      \* process -> the slots it holds, the newest last (l.held)
  stopping,  \* slots being released whose renewal may still be under way
  joined,    \* slots being released whose renewal has ended
  late,      \* renewals whose caller gave up and which may still be carried out
  made,      \* members are 1, 2, 3, ... (fresh ULIDs)
  faults,    \* lost calls and crashes so far
  gone       \* history: slot -> when it was given back or lost its holder

limiterVars == <<clock, sem, held, stopping, joined, late, made, faults, gone>>

LimiterInit ==
  /\ clock = 0 /\ made = 0 /\ faults = 0
  /\ sem = [m \in {} |-> 0]
  /\ held = [p \in Procs |-> <<>>]
  /\ stopping = {} /\ joined = {} /\ late = {}
  /\ gone = [m \in {} |-> 0]

-------------------------------------------------------------------------------
\* The slots in use: somebody runs a task with them.
InUse(h) == UNION {Range(h[p]) : p \in Procs}

\* ZREMRANGEBYSCORE: a slot whose time has come is dropped, also on the line.
Pruned == Restrict(sem, {m \in DOMAIN sem : sem[m] > clock})

\* ZADD: the member gets this score, whatever it had.
Put(s, m, score) == [n \in DOMAIN s \cup {m} |-> IF n = m THEN score ELSE s[n]]

Add(s, m) == Put(s, m, clock + TTL)

Remove(s, m) == Restrict(s, DOMAIN s \ {m})

\* The slots that nobody holds nor is releasing.
released == DOMAIN gone

GiveUp(S) == gone' = [m \in released \cup S |-> IF m \in S THEN clock ELSE gone[m]]

Fault == faults < MaxFaults /\ faults' = faults + 1

\* Wrong variant of HasRoom: one slot too many.
HasRoomLate == Cardinality(DOMAIN Pruned) <= Workers

\* sem_acquire: less than Workers members are left.
HasRoom == Cardinality(DOMAIN Pruned) < Workers

\* AcquireSlot succeeds; startRenew files the slot.
Acquire(p) ==
  /\ made < MaxMembers /\ made' = made + 1
  /\ HasRoom
  /\ sem' = Add(Pruned, made + 1)
  /\ held' = [held EXCEPT ![p] = Append(@, made + 1)]
  /\ UNCHANGED <<clock, stopping, joined, late, faults, gone>>

\* Full: the dead slots are dropped all the same.
AcquireFull(p) ==
  /\ ~HasRoom
  /\ sem' = Pruned
  /\ UNCHANGED <<clock, held, stopping, joined, late, made, faults, gone>>

\* The script ran and its answer was lost: the slot belongs to nobody.
AcquireLost(p) ==
  /\ made < MaxMembers /\ made' = made + 1
  /\ HasRoom /\ Fault
  /\ sem' = Add(Pruned, made + 1)
  /\ GiveUp({made + 1})
  /\ UNCHANGED <<clock, held, stopping, joined, late>>

\* renewLoop: an unconditional ZADD, for a slot that is held or whose renewal
\* has not been joined yet.
Renew(m) ==
  /\ m \in InUse(held) \cup stopping
  /\ sem' = Add(sem, m)
  /\ UNCHANGED <<clock, held, stopping, joined, late, made, faults, gone>>

\* The call times out and the loop goes on: nothing is known of the ZADD.
RenewTimesOut(m) ==
  /\ m \in InUse(held) \cup stopping
  /\ Fault
  /\ late' = late \cup {[member |-> m, score |-> clock + TTL]}
  /\ UNCHANGED <<clock, sem, held, stopping, joined, made, gone>>

\* Redis carries it out after all, with the score of the time it was sent;
\* newer calls for the same slot went over another connection.
RenewLate(z) ==
  /\ z \in late /\ late' = late \ {z}
  /\ TimelyRenew /\ z.member \in InUse(held) => z.score > clock
  /\ sem' = Put(sem, z.member, z.score)
  /\ UNCHANGED <<clock, held, stopping, joined, made, faults, gone>>

\* ReleaseSlot takes the newest slot and tells its renewal to stop, ...
Release(p) ==
  /\ held[p] # <<>>
  /\ held' = [held EXCEPT ![p] = SubSeq(@, 1, Len(@) - 1)]
  /\ stopping' = stopping \cup {held[p][Len(held[p])]}
  /\ UNCHANGED <<clock, sem, joined, late, made, faults, gone>>

\* Wrong variant of Join: the renewal is told to stop and not waited for.
JoinNot(m) ==
  /\ m \in stopping
  /\ joined' = joined \cup {m} /\ stopping' = stopping
  /\ UNCHANGED <<clock, sem, held, late, made, faults, gone>>

\* ... waits for it to end ...
Join(m) ==
  /\ m \in stopping
  /\ stopping' = stopping \ {m} /\ joined' = joined \cup {m}
  /\ UNCHANGED <<clock, sem, held, late, made, faults, gone>>

\* ... and removes the member, if Redis can be reached.
ZRem(m) ==
  /\ m \in joined
  /\ joined' = joined \ {m} /\ GiveUp({m})
  /\ \/ sem' = Remove(sem, m) /\ faults' = faults
     \/ sem' = sem /\ Fault
  /\ UNCHANGED <<clock, held, stopping, late, made>>

\* The process dies: its slots are renewed no more.  (A slot it was releasing
\* is one whose ZRem is lost.)
Crash(p) ==
  /\ held[p] # <<>>
  /\ Fault
  /\ held' = [held EXCEPT ![p] = <<>>]
  /\ GiveUp(Range(held[p]))
  /\ UNCHANGED <<clock, sem, stopping, joined, late, made>>

\* Time passes; with TimelyRenew no slot in use expires.
Tick ==
  /\ clock < MaxTime
  /\ TimelyRenew => \A m \in InUse(held) : m \in DOMAIN sem /\ sem[m] > clock + 1
  /\ clock' = clock + 1
  /\ UNCHANGED <<sem, held, stopping, joined, late, made, faults, gone>>

LimiterNext ==
  \/ \E p \in Procs : Acquire(p) \/ AcquireFull(p) \/ AcquireLost(p) \/ Release(p) \/ Crash(p)
  \/ \E m \in 1..made : Renew(m) \/ RenewTimesOut(m) \/ Join(m) \/ ZRem(m)
  \/ \E z \in late : RenewLate(z)
  \/ Tick

LimiterSpec == LimiterInit /\ [][LimiterNext]_limiterVars

-------------------------------------------------------------------------------
(* Properties.                                                             *)

\* As long as holders renew in time, no more than Workers tasks run at once in
\* all processes, through crashes, lost answers and releases half done.
ConcurrencyBound == Cardinality(InUse(held)) <= Workers

\* A slot nobody uses fades: from the moment it is given back, or its holder is
\* gone, it takes a place for one TTL at most, although ZRem may be lost and a
\* renewal that timed out may write the removed member back (ReleaseSlot waits
\* for the renewal's goroutine, and so for every score it sends).
GhostsFade ==
  \A m \in released : m \in DOMAIN sem => sem[m] <= gone[m] + TTL
=================================================================================
