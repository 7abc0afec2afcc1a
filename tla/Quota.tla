--------------------------------- MODULE Quota ---------------------------------
(***************************************************************************)
(* The periodic quota: the gates of the brokers (Reserve and Release on a  *)
(* counter per window, kept in a medium all processes share) and the part  *)
(* of scheduler.claimLoop that uses them.  The claim loops of several      *)
(* processes share one quota key; a window is over when the medium's clock *)
(* leaves it, whatever reservations are still in somebody's hands.         *)
(*                                                                         *)
(* The media differ in how atomic Reserve is and in how they forget old    *)
(* windows:                                                                *)
(*   "memory"  one critical section, which also drops old windows;         *)
(*   "redis"   one script, keys expire by themselves; go-redis sends a     *)
(*             script again when its answer is lost;                       *)
(*   "sql"     one statement (PostgreSQL, SQLite), then a clean-up;        *)
(*   "mysql"   the time is read first, then one statement, then a clean-up.*)
(*                                                                         *)
(* Abstracted: the tasks of the queue (a number, tasks arrive at any time),*)
(* the lengths of the back-offs, rate tokens, the observation flags of     *)
(* Stats.                                                                  *)
(***************************************************************************)
EXTENDS Integers, FiniteSets

CONSTANTS
  Loops,       \* claim loops, of one process or of several, that use the key
  Media,       \* the media to consider
  Limit,       \* QuotaLimit
  Period,      \* QuotaPeriod, in ticks of the medium's clock
  Workers,     \* slots of each loop
  Prompt,      \* TRUE: MySQL's two statements are at most two periods apart
  MaxTime,     \* bound: the clock
  MaxBacklog,  \* bound: tasks waiting at a time
  MaxFaults    \* bound: calls whose request or reply is lost, and crashes

ASSUME QuotaAssumption ==
  /\ Media \subseteq {"memory", "redis", "sql", "mysql"}
  /\ Limit \in Nat \ {0} /\ Period \in Nat \ {0} /\ Workers \in Nat \ {0} /\ Prompt \in BOOLEAN
  /\ MaxTime \in Nat /\ Period <= MaxTime /\ MaxBacklog \in Nat /\ MaxFaults \in Nat
  /\ IsFiniteSet(Loops)

VARIABLES
  medium,    \* which of the media this system uses
  clock,     \* the medium's clock, the only one windows are computed from
  used,      \* the counters: window -> reservations, a partial function
  loop,      \* claim loop -> where it stands
  backlog,   \* tasks ready to be claimed
  faults,    \* faults so far
  admitted,  \* history: window -> handlers started on a reservation of it
  starts,    \* history: handlers started since the current window began
  resent     \* history: window -> releases Redis carried out once too often

quotaVars == <<medium, clock, used, loop, backlog, faults, admitted, starts, resent>>

NoWindow == 0   \* Unix time is past the first window

\* The window of time t.
Win(t) == (t \div Period) * Period

Windows == {Win(t) : t \in Period..MaxTime}

\* A loop that starts: pc, free slots, the window it computed or reserved, the
\* window of its last reservation (lastWin).
NewLoop == [pc |-> "idle", slots |-> Workers, running |-> 0,
            win |-> NoWindow, last |-> NoWindow]

QuotaInit ==
  /\ medium \in Media
  /\ clock = Period
  /\ used = [w \in {} |-> 0]
  /\ loop = [l \in Loops |-> NewLoop]
  /\ backlog = 0 /\ faults = 0
  /\ admitted = [w \in Windows |-> 0] /\ starts = 0 /\ resent = [w \in Windows |-> 0]

-------------------------------------------------------------------------------
(* The counters.                                                           *)

Count(u, w) == IF w \in DOMAIN u THEN u[w] ELSE 0

With(u, w, n) == [v \in DOMAIN u \cup {w} |-> IF v = w THEN n ELSE u[v]]

\* Windows that ended two periods before window w began are dropped.
Clean(u, w) == [v \in {x \in DOMAIN u : x >= w - 2 * Period} |-> u[v]]

\* The counters the medium checks and increments for window w.
Kept(w) == IF medium = "memory" THEN Clean(used, w) ELSE used

Available(w) == Count(Kept(w), w) < Limit

\* One more reservation of window w, or none left.
Take(w) == used' = IF Available(w) THEN With(Kept(w), w, Count(Kept(w), w) + 1) ELSE Kept(w)

\* Wrong variant of GiveBack: the window of the moment gets it.
GiveBackNow(w) ==
  used' = IF Count(used, Win(clock)) > 0 THEN With(used, Win(clock), Count(used, Win(clock)) - 1)
          ELSE used

\* Release: only the window of the reservation, and only while it is counted.
GiveBack(w) == used' = IF Count(used, w) > 0 THEN With(used, w, Count(used, w) - 1) ELSE used

-------------------------------------------------------------------------------
(* claimLoop with a quota gate.                                            *)

Moves(l, rec) == loop' = [loop EXCEPT ![l] = rec]

\* Leave the round and give the slot back: nothing ready, no quota, an error.
Back(l) == [loop[l] EXCEPT !.pc = "idle", !.slots = @ + 1, !.win = NoWindow]

Fault == faults < MaxFaults /\ faults' = faults + 1

\* AcquireSlot and WaitToken.
AcquireSlot(l) ==
  /\ loop[l].pc = "idle" /\ loop[l].slots > 0
  /\ Moves(l, [loop[l] EXCEPT !.pc = "look", !.slots = @ - 1])
  /\ UNCHANGED <<medium, clock, used, backlog, faults, admitted, starts, resent>>

\* The heuristic: nothing is reserved for an empty queue.  A QueueLen that
\* fails counts as not empty.
Look(l) ==
  /\ loop[l].pc = "look"
  /\ \/ backlog = 0 /\ Moves(l, Back(l)) /\ faults' = faults
     \/ /\ \/ backlog > 0 /\ faults' = faults
           \/ Fault
        /\ Moves(l, [loop[l] EXCEPT !.pc = IF medium = "mysql" THEN "now" ELSE "reserve"])
  /\ UNCHANGED <<medium, clock, used, backlog, admitted, starts, resent>>

\* MySQL: the server's time is read by a statement of its own.
ReadNow(l) ==
  /\ loop[l].pc = "now"
  /\ Moves(l, [loop[l] EXCEPT !.pc = "reserve", !.win = Win(clock)])
  /\ UNCHANGED <<medium, clock, used, backlog, faults, admitted, starts, resent>>

\* The window a Reserve of this loop counts in.
Target(l) == IF medium = "mysql" THEN loop[l].win ELSE Win(clock)

\* Where the loop goes on with a reservation of window w: a SQL gate that sees
\* a new window cleans up first.
Reserved(l, w) ==
  LET rotated == loop[l].last \notin {NoWindow, w}
      sql     == medium \in {"sql", "mysql"}
  IN  [loop[l] EXCEPT !.pc = IF sql /\ rotated THEN "clean" ELSE "dequeue",
                      !.win = w, !.last = IF sql THEN w ELSE @]

\* Wrong variant of Exhausted: the round ends, the slot stays taken.
ExhaustedKeepsSlot(l) == [loop[l] EXCEPT !.pc = "idle", !.win = NoWindow]

Exhausted(l) == Back(l)

Reserve(l) ==
  LET w == Target(l)
  IN  /\ loop[l].pc = "reserve"
      /\ Take(w)
      /\ Moves(l, IF Available(w) THEN Reserved(l, w) ELSE Exhausted(l))
      /\ UNCHANGED <<medium, clock, backlog, faults, admitted, starts, resent>>

\* The medium does not answer, whether it counted or not: nothing is claimed.
ReserveError(l) ==
  /\ loop[l].pc \in {"now", "reserve"}
  /\ Fault
  /\ \/ used' = used
     \/ loop[l].pc = "reserve" /\ Take(Target(l))
  /\ Moves(l, Back(l))
  /\ UNCHANGED <<medium, clock, backlog, admitted, starts, resent>>

\* Redis: the script ran, its answer was lost and the client sends it again,
\* before the scheduler learns of anything.
ReserveAgain(l) ==
  /\ loop[l].pc = "reserve" /\ medium = "redis"
  /\ Fault
  /\ Take(Target(l))
  /\ UNCHANGED <<medium, clock, loop, backlog, admitted, starts, resent>>

\* Best effort: the clean-up may fail.
CleanUp(l) ==
  /\ loop[l].pc = "clean"
  /\ used' = Clean(used, loop[l].win) \/ used' = used
  /\ Moves(l, [loop[l] EXCEPT !.pc = "dequeue"])
  /\ UNCHANGED <<medium, clock, backlog, faults, admitted, starts, resent>>

\* The claim succeeds: the reservation is consumed, the handler starts and
\* takes the slot with it.
Claim(l) ==
  /\ loop[l].pc = "dequeue" /\ backlog > 0
  /\ backlog' = backlog - 1
  /\ Moves(l, [loop[l] EXCEPT !.pc = "idle", !.running = @ + 1, !.win = NoWindow])
  /\ admitted' = [admitted EXCEPT ![loop[l].win] = @ + 1]
  /\ starts' = starts + 1
  /\ UNCHANGED <<medium, clock, used, faults, resent>>

\* Dequeue returns an error: its time is up, or the call failed, perhaps after
\* the broker had carried out the claim.
ClaimError(l) ==
  /\ loop[l].pc = "dequeue"
  /\ \/ backlog' = backlog /\ faults' = faults
     \/ backlog > 0 /\ Fault /\ backlog' = backlog - 1
  /\ Moves(l, [loop[l] EXCEPT !.pc = "release"])
  /\ UNCHANGED <<medium, clock, used, admitted, starts, resent>>

\* The scheduler calls Release once: a reservation that cannot be given back is
\* lost.
Release(l) ==
  /\ loop[l].pc = "release"
  /\ \/ GiveBack(loop[l].win) /\ faults' = faults
     \/ used' = used /\ Fault
  /\ Moves(l, Back(l))
  /\ UNCHANGED <<medium, clock, backlog, admitted, starts, resent>>

\* Redis: the counter went down, the answer was lost and the client sends the
\* script again; nothing in it tells the two apart.
ReleaseAgain(l) ==
  /\ loop[l].pc = "release" /\ medium = "redis"
  /\ Fault
  /\ GiveBack(loop[l].win)
  /\ resent' = [resent EXCEPT ![loop[l].win] = @ + 1]
  /\ UNCHANGED <<medium, clock, loop, backlog, admitted, starts>>

\* A handler ends and its slot comes back.
HandlerEnds(l) ==
  /\ loop[l].running > 0
  /\ Moves(l, [loop[l] EXCEPT !.running = @ - 1, !.slots = @ + 1])
  /\ UNCHANGED <<medium, clock, used, backlog, faults, admitted, starts, resent>>

\* The process dies and starts again; what it had reserved is lost.  In memory
\* the counters die with it.
Crash(l) ==
  /\ Fault /\ medium # "memory"
  /\ Moves(l, NewLoop)
  /\ UNCHANGED <<medium, clock, used, backlog, admitted, starts, resent>>

-------------------------------------------------------------------------------
(* The surroundings.                                                       *)

Arrive ==
  /\ backlog < MaxBacklog
  /\ backlog' = backlog + 1
  /\ UNCHANGED <<medium, clock, used, loop, faults, admitted, starts, resent>>

Tick ==
  /\ clock < MaxTime
  /\ Prompt => \A l \in Loops : medium = "mysql" /\ loop[l].pc = "reserve" =>
                                Win(clock + 1) <= loop[l].win + 2 * Period
  /\ clock' = clock + 1
  /\ starts' = IF Win(clock + 1) = Win(clock) THEN starts ELSE 0
  /\ UNCHANGED <<medium, used, loop, backlog, faults, admitted, resent>>

\* Redis: a key lives for two periods after its last increment, which happened
\* in its window or later.
KeyExpires(w) ==
  /\ medium = "redis" /\ w \in DOMAIN used /\ clock >= w + 2 * Period
  /\ used' = [v \in DOMAIN used \ {w} |-> used[v]]
  /\ UNCHANGED <<medium, clock, loop, backlog, faults, admitted, starts, resent>>

ClaimLoop(l) ==
  \/ AcquireSlot(l) \/ Look(l) \/ ReadNow(l) \/ Reserve(l) \/ ReserveError(l) \/ ReserveAgain(l)
  \/ CleanUp(l) \/ Claim(l) \/ ClaimError(l) \/ Release(l) \/ ReleaseAgain(l)

QuotaNext ==
  \/ \E l \in Loops : ClaimLoop(l) \/ HandlerEnds(l) \/ Crash(l)
  \/ \E w \in DOMAIN used : KeyExpires(w)
  \/ Arrive \/ Tick

QuotaSpec == QuotaInit /\ [][QuotaNext]_quotaVars

-------------------------------------------------------------------------------
(* Properties.                                                             *)

\* The loops that hold a reservation of window w.
Holders(w) == {l \in Loops : loop[l].pc \in {"clean", "dequeue", "release"} /\ loop[l].win = w}

\* The hard quota on reservations: of every window at most Limit of them are
\* ever consumed or in somebody's hands, through races, lost calls, late
\* releases, crashes and the dropping of old windows; and one more for every
\* time Redis carried out a release of that window again (quota_release.lua
\* counts down whenever it runs).  On the other media that never happens.
QuotaBound ==
  \A w \in Windows : admitted[w] + Cardinality(Holders(w)) <= Limit + resent[w]

\* A loop never loses a slot on the three early ends of a round nor on a failed
\* claim, and waits for quota without holding one.
QuotaSlots ==
  \A l \in Loops :
     loop[l].slots + loop[l].running + (IF loop[l].pc = "idle" THEN 0 ELSE 1) = Workers

\* What QuotaLimit promises (taskgate.go:137, FR-002 and SC-001 of spec 006):
\* while a window lasts at most Limit handlers start.
StartsWithinLimit == starts <= Limit
================================================================================
