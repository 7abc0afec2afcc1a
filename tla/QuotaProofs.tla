------------------------------ MODULE QuotaProofs ------------------------------
(***************************************************************************)
(* What module Quota checks on two claim loops, proved for any finite      *)
(* number of them, every limit, period and medium:                         *)
(*   QuotaSlotsKept  a loop never loses a slot;                            *)
(*   QuotaBounded    of no window more than Limit reservations are used,   *)
(*                   and one for each release Redis carried out again;     *)
(*   QuotaIsHard     on the other media no more than Limit, for good.      *)
(*                                                                         *)
(* QuotaBound is not inductive by itself: it does not speak of the counter.*)
(* OpenCounted adds what the gates rely on: while a window can still be    *)
(* reserved, its counter covers every reservation of it that was consumed  *)
(* or is still in somebody's hands, but for what releases sent again took  *)
(* from it.  Counters are only dropped, and late releases only miss, where *)
(* the window is over.                                                     *)
(***************************************************************************)
EXTENDS Quota, FiniteSetTheorems, TLAPS

Pcs == {"idle", "look", "now", "reserve", "clean", "dequeue", "release"}

\* Where a claim loop holds a reservation.
Holding == {"clean", "dequeue", "release"}

LoopType == [pc : Pcs, slots : Nat, running : Nat,
             win : Windows \cup {NoWindow}, last : Windows \cup {NoWindow}]

\* The values of the variables (the counters are a partial function).
QuotaTypeOK ==
  /\ medium \in {"memory", "redis", "sql", "mysql"}
  /\ clock \in Period..MaxTime
  /\ DOMAIN used \subseteq Windows /\ used \in [DOMAIN used -> Nat]
  /\ loop \in [Loops -> LoopType]
  /\ backlog \in Nat /\ faults \in Nat /\ starts \in Nat
  /\ admitted \in [Windows -> Nat] /\ resent \in [Windows -> Nat]

\* A loop works for a window only where it has one, none of the future, and,
\* with a prompt MySQL, none that clean-ups may have dropped.
WindowsKnown ==
  \A l \in Loops :
    /\ loop[l].win <= Win(clock)
    /\ loop[l].pc \in Holding => loop[l].win # NoWindow
    /\ loop[l].pc = "reserve" /\ medium = "mysql" =>
         /\ loop[l].win # NoWindow
         /\ Prompt => Win(clock) <= loop[l].win + 2 * Period

\* Window w can still be reserved: it is not over, or a MySQL gate has read the
\* time and has yet to send its statement.
Open(w) ==
  \/ w >= Win(clock)
  \/ medium = "mysql" /\ \E l \in Loops : loop[l].pc = "reserve" /\ loop[l].win = w

\* No counter passes the limit.
CountsBounded == \A w \in DOMAIN used : used[w] <= Limit

\* The counter of an open window covers what was consumed and what is held, but
\* for the releases of it that were carried out again.
OpenCounted ==
  \A w \in Windows :
     Open(w) => admitted[w] + Cardinality(Holders(w)) <= Count(used, w) + resent[w]

\* Only Redis's client sends a release again.
ResentOnRedis == medium # "redis" => \A w \in Windows : resent[w] = 0

\* The media on which the quota is hard.
Reliable == Prompt \/ medium # "mysql"

QuotaInv ==
  /\ QuotaTypeOK /\ WindowsKnown /\ QuotaSlots /\ ResentOnRedis
  /\ Reliable => CountsBounded /\ OpenCounted /\ QuotaBound

-------------------------------------------------------------------------------
(* Windows.                                                                *)

\* Multiplication by the period keeps the order.
LEMMA TimesMonotone ==
  ASSUME NEW a \in Nat, NEW b \in Nat, a <= b
  PROVE  a * Period <= b * Period
<1> DEFINE d == b - a
<1>1. d \in Nat /\ b = a + d
  OBVIOUS
<1>2. b * Period = a * Period + d * Period
  BY <1>1, QuotaAssumption
<1>3. d * Period \in Nat
  BY <1>1, QuotaAssumption
<1> QED BY <1>2, <1>3, QuotaAssumption

\* A window starts no later than the times it is the window of, and lasts one
\* period (windowOf in the gates: now - now % period).
LEMMA WinBounds ==
  ASSUME NEW t \in Nat
  PROVE  Win(t) \in Nat /\ Win(t) <= t /\ t < Win(t) + Period
<1>1. Period \in Nat /\ Period > 0
  BY QuotaAssumption
<1>2. t \div Period \in Nat /\ t % Period \in 0..(Period - 1) /\ t = Period * (t \div Period) + (t % Period)
  BY <1>1
<1> QED BY <1>1, <1>2 DEF Win

\* Windows do not go back while the clock goes on.
LEMMA WinMonotone ==
  ASSUME NEW s \in Nat, NEW t \in Nat, s <= t
  PROVE  Win(s) <= Win(t)
<1>1. Period \in Nat /\ Period > 0
  BY QuotaAssumption
<1>2. s \div Period \in Nat /\ t \div Period \in Nat
  BY <1>1
<1>3. CASE s \div Period <= t \div Period
  BY <1>2, <1>3, TimesMonotone DEF Win
<1>4. CASE (t \div Period) + 1 <= s \div Period
  <2>1. ((t \div Period) + 1) * Period <= (s \div Period) * Period
    BY <1>2, <1>4, TimesMonotone
  <2>2. ((t \div Period) + 1) * Period = Win(t) + Period
    BY <1>1, <1>2 DEF Win
  <2>3. Win(t) + Period <= Win(s)
    BY <2>1, <2>2 DEF Win
  <2> QED BY <2>3, WinBounds, <1>1
<1> QED BY <1>2, <1>3, <1>4

\* The windows are positive, so that none of them is NoWindow.
LEMMA WindowsPositive ==
  /\ Windows \subseteq Nat \ {0}
  /\ \A t \in Period..MaxTime : Win(t) \in Windows
<1>1. Period \in Nat /\ Period > 0 /\ MaxTime \in Nat
  BY QuotaAssumption
<1>2. Win(Period) = Period
  BY <1>1, Period \div Period = 1 DEF Win
<1>3. ASSUME NEW t \in Period..MaxTime PROVE Win(t) \in Nat \ {0}
  BY <1>1, <1>2, WinBounds, WinMonotone
<1> QED BY <1>3 DEF Windows

-------------------------------------------------------------------------------
(* A step of one claim loop.                                               *)

\* What is counted of window w depends on the loop that moves only.
LEMMA HoldersMove ==
  ASSUME QuotaTypeOK, NEW l \in Loops, NEW r \in LoopType, Moves(l, r), NEW w
  PROVE  Holders(w)' = IF r.pc \in Holding /\ r.win = w THEN Holders(w) \cup {l} ELSE Holders(w) \ {l}
<1>1. \A k \in Loops : loop'[k] = IF k = l THEN r ELSE loop[k]
  BY DEF QuotaTypeOK, Moves
<1> QED BY <1>1 DEF Holders, Holding

\* There are finitely many loops, so what is counted of them are numbers.
LEMMA LoopsFinite ==
  \A w : IsFiniteSet(Holders(w)) /\ Cardinality(Holders(w)) \in Nat
<1>1. IsFiniteSet(Loops)
  BY QuotaAssumption
<1>2. \A w : Holders(w) \subseteq Loops
  BY DEF Holders
<1> QED BY <1>1, <1>2, FS_Subset, FS_CardinalityType

\* Adding or taking away one loop.
LEMMA CardinalityStep ==
  ASSUME NEW S, IsFiniteSet(S), NEW l
  PROVE  /\ Cardinality(S \cup {l}) = IF l \in S THEN Cardinality(S) ELSE Cardinality(S) + 1
         /\ Cardinality(S \ {l}) = IF l \in S THEN Cardinality(S) - 1 ELSE Cardinality(S)
BY FS_AddElement, FS_RemoveElement, Zenon

\* What a loop may become in one of its steps: the record it moves to is one,
\* it gives a slot back where it leaves a round, and the window it works for is
\* the one it had, none, or the window of the moment.
LoopMove(l, r) ==
  /\ r \in LoopType
  /\ r.slots + r.running + (IF r.pc = "idle" THEN 0 ELSE 1) = Workers
  /\ r.win \in {loop[l].win, NoWindow, Win(clock)}
  /\ r.pc \in Holding => r.win # NoWindow
  /\ r.pc = "reserve" /\ medium = "mysql" =>
       r.win = Win(clock) \/ (loop[l].pc = "reserve" /\ r.win = loop[l].win)

\* The loop's part of every step but those of the clock, by name.
LEMMA MoveKeepsShape ==
  ASSUME QuotaTypeOK, WindowsKnown, QuotaSlots,
         NEW l \in Loops, NEW r, LoopMove(l, r), Moves(l, r), UNCHANGED <<medium, clock>>
  PROVE  /\ loop' \in [Loops -> LoopType]
         /\ WindowsKnown'
         /\ QuotaSlots'
<1>1. r \in LoopType
  BY DEF LoopMove
<1>2. \A k \in Loops : loop'[k] = IF k = l THEN r ELSE loop[k]
  BY DEF QuotaTypeOK, Moves
<1>3. loop' \in [Loops -> LoopType]
  BY <1>1 DEF QuotaTypeOK, Moves
<1>4. Win(clock)' = Win(clock) /\ Win(clock) \in Nat /\ NoWindow <= Win(clock) /\ Win(clock) # NoWindow
  BY WindowsPositive, QuotaAssumption DEF Win, QuotaTypeOK, NoWindow
<1>5. Win(clock) <= Win(clock) + 2 * Period
  BY <1>4, QuotaAssumption
<1>6. WindowsKnown'
  <2> SUFFICES ASSUME NEW k \in Loops
               PROVE  /\ loop'[k].win <= Win(clock)
                      /\ loop'[k].pc \in Holding => loop'[k].win # NoWindow
                      /\ loop'[k].pc = "reserve" /\ medium = "mysql" =>
                           /\ loop'[k].win # NoWindow
                           /\ Prompt => Win(clock) <= loop'[k].win + 2 * Period
    BY <1>4, Zenon DEF WindowsKnown
  <2>1. CASE k # l
    BY <2>1, <1>2 DEF WindowsKnown
  <2>2. CASE k = l
    BY <2>2, <1>2, <1>4, <1>5 DEF WindowsKnown, LoopMove
  <2> QED BY <2>1, <2>2
<1>7. QuotaSlots'
  BY <1>2 DEF QuotaSlots, LoopMove
<1> QED BY <1>3, <1>6, <1>7

-------------------------------------------------------------------------------
(* The counters.                                                           *)

UsedType(u) == DOMAIN u \subseteq Windows /\ u \in [DOMAIN u -> Nat]

\* The counters of windows that can still be reserved do not shrink.
OpenKept == \A v \in Windows : Open(v) => Count(used, v) <= Count(used', v)

\* A counter is a number, 0 where the medium has none.
LEMMA CountNat ==
  ASSUME NEW u, UsedType(u), NEW w
  PROVE  Count(u, w) \in Nat
BY DEF UsedType, Count

\* With changes the counter of one window only.
LEMMA WithCounts ==
  ASSUME NEW u, UsedType(u), NEW w \in Windows, NEW n \in Nat
  PROVE  /\ UsedType(With(u, w, n))
         /\ DOMAIN With(u, w, n) = DOMAIN u \cup {w}
         /\ Count(With(u, w, n), w) = n
         /\ \A v : v # w => Count(With(u, w, n), v) = Count(u, v)
         /\ \A v \in DOMAIN u : v # w => With(u, w, n)[v] = u[v]
         /\ With(u, w, n)[w] = n
BY DEF UsedType, With, Count

\* The clean-up for window w keeps every counter of a window that began no more
\* than two periods before it (cleanupSQL, the loop in memory's Reserve).
LEMMA CleanCounts ==
  ASSUME NEW u, UsedType(u), NEW w \in Windows
  PROVE  /\ UsedType(Clean(u, w))
         /\ \A v \in DOMAIN Clean(u, w) : v \in DOMAIN u /\ Clean(u, w)[v] = u[v]
         /\ \A v : v >= w - 2 * Period => Count(Clean(u, w), v) = Count(u, v)
BY DEF UsedType, Clean, Count

\* An open window began at most two periods ago: the clock is in it, or a
\* prompt MySQL gate is about to count in it.
LEMMA OpenIsRecent ==
  ASSUME QuotaTypeOK, WindowsKnown, Reliable, NEW v \in Windows, Open(v)
  PROVE  v >= Win(clock) - 2 * Period
<1>1. Win(clock) \in Nat /\ v \in Nat /\ Period \in Nat
  BY WindowsPositive, QuotaAssumption DEF QuotaTypeOK
<1>2. CASE v >= Win(clock)
  BY <1>1, <1>2
<1>3. CASE medium = "mysql" /\ \E l \in Loops : loop[l].pc = "reserve" /\ loop[l].win = v
  <2>1. Prompt
    BY <1>3 DEF Reliable
  <2> QED BY <1>1, <1>3, <2>1 DEF WindowsKnown
<1> QED BY <1>2, <1>3 DEF Open

\* A clean-up for a window that is not of the future spares the open windows.
LEMMA CleanSparesOpen ==
  ASSUME QuotaTypeOK, WindowsKnown, Reliable, NEW w \in Windows, w <= Win(clock),
         NEW v \in Windows, Open(v)
  PROVE  Count(Clean(used, w), v) = Count(used, v)
<1>1. Win(clock) \in Nat /\ v \in Nat /\ w \in Nat /\ Period \in Nat
  BY WindowsPositive, QuotaAssumption DEF QuotaTypeOK
<1>2. v >= w - 2 * Period
  BY <1>1, OpenIsRecent
<1> QED BY <1>2, CleanCounts DEF QuotaTypeOK, UsedType

\* What the medium checks and increments: open windows as they are.
LEMMA KeptCounts ==
  ASSUME QuotaTypeOK, WindowsKnown, NEW w \in Windows, w <= Win(clock)
  PROVE  /\ UsedType(Kept(w))
         /\ CountsBounded => \A v \in DOMAIN Kept(w) : Kept(w)[v] <= Limit
         /\ Reliable => \A v \in Windows : Open(v) => Count(Kept(w), v) = Count(used, v)
<1>1. UsedType(used)
  BY DEF QuotaTypeOK, UsedType
<1>2. CASE medium # "memory"
  BY <1>1, <1>2 DEF Kept, CountsBounded
<1>3. CASE medium = "memory"
  <2>1. Kept(w) = Clean(used, w)
    BY <1>3 DEF Kept
  <2>2. CountsBounded => \A v \in DOMAIN Clean(used, w) : Clean(used, w)[v] <= Limit
    BY <1>1, CleanCounts DEF CountsBounded
  <2> QED BY <1>1, <2>1, <2>2, CleanCounts, CleanSparesOpen
<1> QED BY <1>2, <1>3

\* Take leaves a counter of every open window at least as high, the limit
\* respected, and one higher where there was quota left.
LEMMA TakeCounts ==
  ASSUME QuotaTypeOK, WindowsKnown, NEW w \in Windows, w <= Win(clock), Take(w)
  PROVE  /\ UsedType(used')
         /\ CountsBounded => CountsBounded'
         /\ Reliable => OpenKept
         /\ Reliable /\ Open(w) /\ Available(w) => Count(used', w) = Count(used, w) + 1
<1> DEFINE K == Kept(w)
           n == Count(Kept(w), w)
<1>1. /\ UsedType(K) /\ UsedType(used)
      /\ CountsBounded => \A v \in DOMAIN K : K[v] <= Limit
      /\ Reliable => \A v \in Windows : Open(v) => Count(K, v) = Count(used, v)
  BY KeptCounts DEF QuotaTypeOK, UsedType
<1>2. n \in Nat /\ Limit \in Nat
  BY <1>1, CountNat, QuotaAssumption
<1>3. \A v : Count(K, v) \in Nat /\ Count(used, v) \in Nat
  BY <1>1, CountNat
<1>4. CASE ~Available(w)
  <2>1. used' = K
    BY <1>4 DEF Take
  <2>2. CountsBounded => CountsBounded'
    BY <1>1, <2>1 DEF CountsBounded
  <2>3. Reliable => OpenKept
    BY <1>1, <1>3, <2>1 DEF OpenKept
  <2> QED BY <1>1, <1>4, <2>1, <2>2, <2>3
<1>5. CASE Available(w)
  <2>1. used' = With(K, w, n + 1) /\ n + 1 <= Limit
    BY <1>2, <1>5 DEF Take, Available
  <2>2. n + 1 \in Nat /\ n = Count(K, w)
    BY <1>2
  <2> HIDE DEF K, n
  <2>0. PICK k, m : k = K /\ m = n + 1
    OBVIOUS
  <2>3. /\ UsedType(With(K, w, n + 1))
        /\ DOMAIN With(K, w, n + 1) = DOMAIN K \cup {w}
        /\ Count(With(K, w, n + 1), w) = n + 1
        /\ \A v : v # w => Count(With(K, w, n + 1), v) = Count(K, v)
        /\ \A v \in DOMAIN K : v # w => With(K, w, n + 1)[v] = K[v]
        /\ With(K, w, n + 1)[w] = n + 1
    <3>1. UsedType(k) /\ m \in Nat
      BY <1>1, <2>0, <2>2
    <3>2. /\ UsedType(With(k, w, m))
          /\ DOMAIN With(k, w, m) = DOMAIN k \cup {w}
          /\ Count(With(k, w, m), w) = m
          /\ \A v : v # w => Count(With(k, w, m), v) = Count(k, v)
          /\ \A v \in DOMAIN k : v # w => With(k, w, m)[v] = k[v]
          /\ With(k, w, m)[w] = m
      BY <3>1, WithCounts, ZenonT(60)
    <3> QED BY <2>0, <3>2, Zenon
  <2>4. CountsBounded => CountsBounded'
    BY <1>1, <2>1, <2>3 DEF CountsBounded
  <2>5. Reliable => OpenKept
    BY <1>1, <1>3, <2>1, <2>2, <2>3 DEF OpenKept
  <2>6. Reliable /\ Open(w) => Count(used', w) = Count(used, w) + 1
    BY <1>1, <2>1, <2>2, <2>3
  <2> QED BY <2>1, <2>3, <2>4, <2>5, <2>6
<1> QED BY <1>4, <1>5

-------------------------------------------------------------------------------
(* Steps.                                                                  *)

\* While the clock stands no window opens again.
LEMMA OpenMove ==
  ASSUME QuotaTypeOK, NEW l \in Loops, NEW r, LoopMove(l, r), Moves(l, r),
         UNCHANGED <<medium, clock>>, NEW w \in Windows, Open(w)'
  PROVE  Open(w)
<1>1. \A k \in Loops : loop'[k] = IF k = l THEN r ELSE loop[k]
  BY DEF QuotaTypeOK, Moves
<1>2. Win(clock)' = Win(clock) /\ Win(clock) \in Nat
  BY WindowsPositive DEF Win, QuotaTypeOK
<1>3. CASE w >= Win(clock)
  BY <1>3 DEF Open
<1>4. CASE medium = "mysql" /\ \E k \in Loops : loop'[k].pc = "reserve" /\ loop'[k].win = w
  <2>1. PICK k \in Loops : loop'[k].pc = "reserve" /\ loop'[k].win = w
    BY <1>4
  <2>2. CASE k # l
    BY <1>1, <1>4, <2>1, <2>2 DEF Open
  <2>3. CASE k = l
    <3>1. w = Win(clock) \/ (loop[l].pc = "reserve" /\ w = loop[l].win)
      BY <1>1, <1>4, <2>1, <2>3 DEF LoopMove
    <3>2. w = Win(clock) => w >= Win(clock)
      BY <1>2
    <3> QED BY <1>4, <3>1, <3>2 DEF Open
  <2> QED BY <2>2, <2>3
<1>5. w >= Win(clock)' \/ (medium' = "mysql" /\ \E k \in Loops : loop'[k].pc = "reserve" /\ loop'[k].win = w)
  BY DEF Open
<1> QED BY <1>2, <1>3, <1>4, <1>5

\* A step of a loop that starts no handler and gains no reservation.
LEMMA QuietMove ==
  ASSUME QuotaInv, NEW l \in Loops, NEW r, LoopMove(l, r), Moves(l, r),
         UNCHANGED <<medium, clock, admitted, starts, resent>>,
         r.pc \in Holding => loop[l].pc \in Holding /\ r.win = loop[l].win,
         UsedType(used'), Reliable => CountsBounded' /\ OpenKept,
         backlog' \in Nat, faults' \in Nat
  PROVE  QuotaInv'
<1> USE DEF QuotaInv
<1>1. WindowsKnown' /\ QuotaSlots' /\ ResentOnRedis' /\ loop' \in [Loops -> LoopType]
  BY MoveKeepsShape DEF ResentOnRedis
<1>2. QuotaTypeOK'
  BY <1>1 DEF QuotaTypeOK, UsedType
<1>3. ASSUME Reliable PROVE OpenCounted' /\ QuotaBound'
  <2>1. CountsBounded' /\ OpenKept /\ OpenCounted /\ QuotaBound
    BY <1>3
  <2>2. ASSUME NEW w \in Windows
        PROVE  Cardinality(Holders(w)') <= Cardinality(Holders(w)) /\ Cardinality(Holders(w)') \in Nat
    <3>1. Holders(w)' = IF r.pc \in Holding /\ r.win = w THEN Holders(w) \cup {l} ELSE Holders(w) \ {l}
      BY HoldersMove DEF LoopMove
    <3>2. r.pc \in Holding /\ r.win = w => l \in Holders(w)
      BY DEF Holders, Holding
    <3>3. Holders(w)' \subseteq Holders(w)
      BY <3>1, <3>2
    <3> QED BY <3>3, LoopsFinite, FS_Subset, FS_CardinalityType
  <2>3. ASSUME NEW w \in Windows PROVE admitted'[w] + Cardinality(Holders(w)') <= Limit + resent'[w]
    <3>1. /\ admitted[w] + Cardinality(Holders(w)) <= Limit + resent[w]
          /\ admitted[w] \in Nat /\ resent[w] \in Nat
      BY <2>1 DEF QuotaBound, QuotaTypeOK
    <3> QED BY <2>2, <3>1, LoopsFinite, QuotaAssumption
  <2>4. ASSUME NEW w \in Windows, Open(w)'
        PROVE  admitted'[w] + Cardinality(Holders(w)') <= Count(used', w) + resent'[w]
    <3>1. Open(w)
      BY <2>4, OpenMove
    <3>2. /\ admitted[w] + Cardinality(Holders(w)) <= Count(used, w) + resent[w]
          /\ admitted[w] \in Nat /\ resent[w] \in Nat
      BY <2>1, <3>1 DEF OpenCounted, QuotaTypeOK
    <3>3. Count(used, w) <= Count(used', w) /\ Count(used, w) \in Nat /\ Count(used', w) \in Nat
      BY <2>1, <3>1, CountNat DEF OpenKept, QuotaTypeOK, UsedType
    <3> QED BY <2>2, <3>2, <3>3, LoopsFinite
  <2>5. OpenCounted'
    BY <2>4 DEF OpenCounted, Count
  <2> QED BY <2>3, <2>5 DEF QuotaBound
<1>4. Reliable' <=> Reliable
  BY DEF Reliable
<1> QED BY <1>1, <1>2, <1>3, <1>4

\* Counters that stay as they are.
LEMMA UsedKept ==
  ASSUME QuotaInv, used' = used
  PROVE  UsedType(used') /\ (Reliable => CountsBounded' /\ OpenKept)
<1>1. UsedType(used)
  BY DEF QuotaInv, QuotaTypeOK, UsedType
<1>2. Reliable => CountsBounded'
  BY DEF QuotaInv, CountsBounded
<1>3. OpenKept
  BY <1>1, CountNat DEF OpenKept
<1> QED BY <1>1, <1>2, <1>3

\* What a loop is before it moves.
LEMMA LoopHas ==
  ASSUME QuotaInv, NEW l \in Loops
  PROVE  /\ loop[l] \in LoopType
         /\ loop[l].slots + loop[l].running + (IF loop[l].pc = "idle" THEN 0 ELSE 1) = Workers
         /\ Win(clock) \in Windows /\ Win(clock) # NoWindow
         /\ loop[l].pc \in Holding => loop[l].win # NoWindow
         /\ loop[l].pc = "reserve" /\ medium = "mysql" => loop[l].win # NoWindow
BY WindowsPositive DEF QuotaInv, QuotaTypeOK, QuotaSlots, WindowsKnown, NoWindow

\* Leaving a round gives the slot back.
LEMMA BackMoves ==
  ASSUME QuotaInv, NEW l \in Loops, loop[l].pc # "idle"
  PROVE  LoopMove(l, Back(l)) /\ Back(l).pc \notin Holding
<1>1. PICK x : x = loop[l]
  OBVIOUS
<1>2. x \in LoopType /\ x.slots + x.running + 1 = Workers
  BY <1>1, LoopHas
<1>10. PICK n \in Nat : n = x.slots + 1
  BY <1>2 DEF LoopType
<1> DEFINE r == [x EXCEPT !.pc = "idle", !.slots = n, !.win = NoWindow]
<1>3. r \in LoopType /\ r.pc = "idle" /\ r.slots = x.slots + 1 /\ r.running = x.running /\ r.win = NoWindow
  BY <1>2, <1>10 DEF LoopType, Pcs
<1>4. Back(l) = r
  BY <1>1, <1>10 DEF Back
<1> HIDE DEF r
<1>5. r.slots + r.running + (IF r.pc = "idle" THEN 0 ELSE 1) = Workers
  BY <1>2, <1>3 DEF LoopType
<1> QED BY <1>3, <1>4, <1>5 DEF LoopMove, Holding

\* The steps of a loop that only move it.
LEMMA LoopOnlySteps ==
  ASSUME QuotaInv, NEW l \in Loops,
         AcquireSlot(l) \/ Look(l) \/ ReadNow(l) \/ ClaimError(l) \/ HandlerEnds(l) \/ Crash(l)
  PROVE  QuotaInv'
<1>0. PICK x : x = loop[l]
  OBVIOUS
<1>1. /\ x \in LoopType /\ x.slots + x.running + (IF x.pc = "idle" THEN 0 ELSE 1) = Workers
      /\ x.pc \in Holding => x.win # NoWindow
      /\ x.pc = "reserve" /\ medium = "mysql" => x.win # NoWindow
      /\ Win(clock) \in Windows /\ Win(clock) # NoWindow
      /\ Workers \in Nat
  BY <1>0, LoopHas, QuotaAssumption
<1>2. used' = used /\ UNCHANGED <<medium, clock, admitted, starts, resent>>
  BY DEF AcquireSlot, Look, ReadNow, ClaimError, HandlerEnds, Crash
<1>3. backlog' \in Nat /\ faults' \in Nat
  BY DEF AcquireSlot, Look, ReadNow, ClaimError, HandlerEnds, Crash, Fault, QuotaInv, QuotaTypeOK
<1>4. UsedType(used') /\ (Reliable => CountsBounded' /\ OpenKept)
  BY <1>2, UsedKept
<1>5. SUFFICES \E r : /\ LoopMove(l, r) /\ Moves(l, r)
                      /\ r.pc \in Holding => x.pc \in Holding /\ r.win = x.win
  BY <1>0, <1>2, <1>3, <1>4, QuietMove
<1>6. CASE AcquireSlot(l)
  <2>0. x.slots - 1 \in Nat
    BY <1>0, <1>1, <1>6 DEF AcquireSlot, LoopType
  <2>10. PICK n \in Nat : n = x.slots - 1
    BY <2>0
  <2> DEFINE r == [x EXCEPT !.pc = "look", !.slots = n]
  <2>1. x.pc = "idle" /\ x.slots > 0 /\ Moves(l, r)
    BY <1>0, <1>6, <2>10 DEF AcquireSlot
  <2>2. r \in LoopType /\ r.pc = "look" /\ r.slots = x.slots - 1 /\ r.running = x.running /\ r.win = x.win
    BY <1>1, <2>10 DEF LoopType, Pcs
  <2> HIDE DEF r
  <2>3. LoopMove(l, r) /\ r.pc \notin Holding
    BY <1>0, <1>1, <2>1, <2>2 DEF LoopMove, Holding, LoopType
  <2> QED BY <2>1, <2>3
<1>7. CASE Look(l) /\ Moves(l, Back(l))
  BY <1>7, BackMoves DEF Look
<1>8. CASE Look(l) /\ ~Moves(l, Back(l))
  <2> DEFINE r == [x EXCEPT !.pc = IF medium = "mysql" THEN "now" ELSE "reserve"]
  <2>1. x.pc = "look" /\ Moves(l, r)
    BY <1>0, <1>8 DEF Look
  <2>2. r \in LoopType /\ r.pc = (IF medium = "mysql" THEN "now" ELSE "reserve")
        /\ r.slots = x.slots /\ r.running = x.running /\ r.win = x.win
    BY <1>1, <2>1 DEF LoopType, Pcs
  <2> HIDE DEF r
  <2>3. LoopMove(l, r) /\ r.pc \notin Holding
    BY <1>0, <1>1, <2>1, <2>2 DEF LoopMove, Holding, LoopType
  <2> QED BY <2>1, <2>3
<1>9. CASE ReadNow(l)
  <2>0. PICK w \in Windows : w = Win(clock)
    BY <1>1
  <2> DEFINE r == [x EXCEPT !.pc = "reserve", !.win = w]
  <2>1. x.pc = "now" /\ Moves(l, r)
    BY <1>0, <1>9, <2>0 DEF ReadNow
  <2>2. r \in LoopType /\ r.pc = "reserve" /\ r.slots = x.slots /\ r.running = x.running /\ r.win = w
    BY <1>1, <2>1 DEF LoopType, Pcs
  <2> HIDE DEF r
  <2>3. r.slots + r.running + 1 = Workers
    BY <1>1, <2>1, <2>2 DEF LoopType
  <2>4. LoopMove(l, r) /\ r.pc \notin Holding
    BY <2>0, <2>2, <2>3 DEF LoopMove, Holding
  <2> QED BY <2>1, <2>4
<1>10. CASE ClaimError(l)
  <2> DEFINE r == [x EXCEPT !.pc = "release"]
  <2>1. x.pc = "dequeue" /\ Moves(l, r)
    BY <1>0, <1>10 DEF ClaimError
  <2>2. r \in LoopType /\ r.pc = "release" /\ r.slots = x.slots /\ r.running = x.running /\ r.win = x.win
    BY <1>1, <2>1 DEF LoopType, Pcs
  <2> HIDE DEF r
  <2>3. LoopMove(l, r) /\ x.pc \in Holding
    BY <1>0, <1>1, <2>1, <2>2 DEF LoopMove, Holding, LoopType
  <2> QED BY <2>1, <2>2, <2>3
<1>11. CASE HandlerEnds(l)
  <2>0. x.running - 1 \in Nat /\ x.slots + 1 \in Nat
    BY <1>0, <1>1, <1>11 DEF HandlerEnds, LoopType
  <2>10. PICK m \in Nat, n \in Nat : m = x.running - 1 /\ n = x.slots + 1
    BY <2>0
  <2> DEFINE r == [x EXCEPT !.running = m, !.slots = n]
  <2>1. Moves(l, r)
    BY <1>0, <1>11, <2>10 DEF HandlerEnds
  <2>2. r \in LoopType /\ r.pc = x.pc /\ r.slots = x.slots + 1 /\ r.running = x.running - 1 /\ r.win = x.win
    BY <1>1, <2>10 DEF LoopType, Pcs
  <2> HIDE DEF r
  <2>3. LoopMove(l, r)
    BY <1>0, <1>1, <2>1, <2>2 DEF LoopMove, LoopType
  <2> QED BY <2>1, <2>2, <2>3
<1>12. CASE Crash(l)
  <2>1. NewLoop \in LoopType /\ NewLoop.pc = "idle" /\ NewLoop.slots = Workers /\ NewLoop.running = 0
        /\ NewLoop.win = NoWindow
    BY <1>1 DEF NewLoop, LoopType, Pcs
  <2>2. LoopMove(l, NewLoop) /\ NewLoop.pc \notin Holding
    BY <1>1, <2>1 DEF LoopMove, Holding
  <2> QED BY <1>12, <2>2 DEF Crash
<1> QED BY <1>6, <1>7, <1>8, <1>9, <1>10, <1>11, <1>12

\* The window a Reserve counts in exists, is not of the future and is open.
LEMMA TargetOpen ==
  ASSUME QuotaInv, NEW l \in Loops, loop[l].pc = "reserve"
  PROVE  /\ Target(l) \in Windows /\ Target(l) <= Win(clock) /\ Open(Target(l))
         /\ Target(l) \in {loop[l].win, Win(clock)}
<1>1. loop[l] \in LoopType /\ Win(clock) \in Windows /\ Win(clock) \in Nat
  BY LoopHas, WindowsPositive
<1>2. CASE medium # "mysql"
  <2>1. Target(l) = Win(clock)
    BY <1>2 DEF Target
  <2> QED BY <1>1, <2>1 DEF Open
<1>3. CASE medium = "mysql"
  <2>1. Target(l) = loop[l].win
    BY <1>3 DEF Target
  <2>2. loop[l].win \in Windows /\ loop[l].win <= Win(clock)
    BY <1>1, <1>3, LoopHas DEF QuotaInv, WindowsKnown, LoopType
  <2> QED BY <1>3, <2>1, <2>2 DEF Open
<1> QED BY <1>2, <1>3

\* A step that leaves the claim loops alone.
LEMMA SurroundingsKeep ==
  ASSUME QuotaInv, UNCHANGED <<medium, clock, loop, admitted, starts, resent>>,
         backlog' \in Nat, faults' \in Nat, UsedType(used'), Reliable => CountsBounded' /\ OpenKept
  PROVE  QuotaInv'
<1>1. Win(clock)' = Win(clock)
  BY DEF Win
<1>2. QuotaTypeOK' /\ QuotaSlots' /\ QuotaTypeOK
  BY DEF QuotaInv, QuotaTypeOK, QuotaSlots, UsedType
<1>3. WindowsKnown'
  BY <1>1 DEF QuotaInv, WindowsKnown
<1>4. ResentOnRedis'
  BY DEF QuotaInv, ResentOnRedis
<1>5. ASSUME NEW w PROVE Holders(w)' = Holders(w) /\ (Open(w)' <=> Open(w))
  BY <1>1 DEF Holders, Open
<1>6. ASSUME Reliable PROVE OpenCounted' /\ QuotaBound'
  <2>1. QuotaBound'
    BY <1>5, <1>6 DEF QuotaInv, QuotaBound
  <2>2. ASSUME NEW w \in Windows, Open(w)'
        PROVE  admitted'[w] + Cardinality(Holders(w)') <= Count(used', w) + resent'[w]
    <3>1. /\ admitted[w] + Cardinality(Holders(w)) <= Count(used, w) + resent[w]
          /\ Count(used, w) <= Count(used', w)
      BY <1>5, <1>6, <2>2 DEF QuotaInv, OpenCounted, OpenKept
    <3>2. Count(used, w) \in Nat /\ Count(used', w) \in Nat /\ admitted[w] \in Nat /\ resent[w] \in Nat
      BY <1>2, CountNat DEF QuotaTypeOK, UsedType
    <3> QED BY <1>5, <3>1, <3>2, LoopsFinite
  <2>3. OpenCounted'
    BY <2>2 DEF OpenCounted, Count
  <2> QED BY <2>1, <2>3
<1>7. Reliable' <=> Reliable
  BY DEF Reliable
<1> QED BY <1>2, <1>3, <1>4, <1>6, <1>7 DEF QuotaInv

\* The steps of a loop in which a counter changes and no reservation comes into
\* its hands: Reserve finds the window exhausted, or its answer is lost, for
\* good or until the client asks again; the clean-up of old windows.
LEMMA CounterSteps ==
  ASSUME QuotaInv, NEW l \in Loops,
         \/ Reserve(l) /\ ~Available(Target(l))
         \/ ReserveError(l) \/ ReserveAgain(l) \/ CleanUp(l)
  PROVE  QuotaInv'
<1>1. UNCHANGED <<medium, clock, admitted, starts, resent>> /\ backlog' \in Nat /\ faults' \in Nat
  BY DEF Reserve, ReserveError, ReserveAgain, CleanUp, Fault, QuotaInv, QuotaTypeOK
<1>2. ASSUME loop[l].pc = "reserve", Take(Target(l))
      PROVE  UsedType(used') /\ (Reliable => CountsBounded' /\ OpenKept)
  <2>1. PICK w \in Windows : w = Target(l) /\ w <= Win(clock)
    BY <1>2, TargetOpen
  <2>2. Take(w)
    BY <1>2, <2>1
  <2> QED BY <2>1, <2>2, TakeCounts DEF QuotaInv
<1>3. CASE loop[l].pc \in {"now", "reserve"} /\ Moves(l, Back(l)) /\ (used' = used \/ (loop[l].pc = "reserve" /\ Take(Target(l))))
  <2>1. PICK r : r = Back(l)
    OBVIOUS
  <2>2. LoopMove(l, r) /\ r.pc \notin Holding /\ Moves(l, r)
    BY <1>3, <2>1, BackMoves
  <2>3. UsedType(used') /\ (Reliable => CountsBounded' /\ OpenKept)
    BY <1>2, <1>3, UsedKept
  <2> QED BY <1>1, <2>2, <2>3, QuietMove
<1>4. CASE CleanUp(l)
  <2>0. PICK x : x = loop[l]
    OBVIOUS
  <2>1. x \in LoopType /\ x.pc = "clean" /\ x.win # NoWindow
        /\ x.slots + x.running + 1 = Workers /\ x.win \in Windows /\ x.win <= Win(clock)
    BY <1>4, <2>0, LoopHas DEF CleanUp, LoopType, Holding, QuotaInv, WindowsKnown
  <2> DEFINE r == [x EXCEPT !.pc = "dequeue"]
  <2>2. r \in LoopType /\ r.pc = "dequeue" /\ r.slots = x.slots /\ r.running = x.running /\ r.win = x.win
    BY <2>1 DEF LoopType, Pcs
  <2>3. Moves(l, r)
    BY <1>4, <2>0 DEF CleanUp
  <2> HIDE DEF r
  <2>4. r.slots + r.running + (IF r.pc = "idle" THEN 0 ELSE 1) = Workers
    BY <2>1, <2>2 DEF LoopType
  <2>5. LoopMove(l, r) /\ loop[l].pc \in Holding /\ r.win = loop[l].win
    BY <2>0, <2>1, <2>2, <2>4 DEF LoopMove, Holding
  <2>6. UsedType(used') /\ (Reliable => CountsBounded' /\ OpenKept)
    <3>1. CASE used' = used
      BY <3>1, UsedKept
    <3>2. CASE used' = Clean(used, x.win)
      <4>1. UsedType(used)
        BY DEF QuotaInv, QuotaTypeOK, UsedType
      <4>2. UsedType(used') /\ (\A v \in DOMAIN used' : v \in DOMAIN used /\ used'[v] = used[v])
        BY <2>1, <3>2, <4>1, CleanCounts
      <4>3. Reliable => CountsBounded'
        BY <4>2 DEF QuotaInv, CountsBounded
      <4>4. Reliable => \A v \in Windows : Open(v) => Count(used', v) = Count(used, v)
        BY <2>1, <3>2, CleanSparesOpen DEF QuotaInv
      <4>5. Reliable => OpenKept
        BY <4>1, <4>4, CountNat DEF OpenKept
      <4> QED BY <4>2, <4>3, <4>5
    <3> QED BY <1>4, <2>0, <3>1, <3>2 DEF CleanUp
  <2> QED BY <1>1, <2>3, <2>5, <2>6, QuietMove
<1>5. CASE Reserve(l) /\ ~Available(Target(l))
  BY <1>3, <1>5 DEF Reserve, Exhausted
<1>6. CASE ReserveError(l)
  BY <1>3, <1>6 DEF ReserveError
<1>7. CASE ReserveAgain(l)
  <2>1. loop' = loop /\ backlog' = backlog /\ loop[l].pc = "reserve" /\ Take(Target(l))
    BY <1>7 DEF ReserveAgain
  <2>2. UsedType(used') /\ (Reliable => CountsBounded' /\ OpenKept)
    BY <1>2, <2>1
  <2> QED BY <1>1, <2>1, <2>2, SurroundingsKeep
<1> QED BY <1>4, <1>5, <1>6, <1>7

\* Reserve with quota left: counter and holders of the window grow together.
LEMMA ReserveGranted ==
  ASSUME QuotaInv, NEW l \in Loops, Reserve(l), Available(Target(l))
  PROVE  QuotaInv'
<1>0. PICK x : x = loop[l]
  OBVIOUS
<1>1. PICK w \in Windows : w = Target(l) /\ w <= Win(clock) /\ Open(w) /\ w \in {x.win, Win(clock)}
  BY <1>0, TargetOpen DEF Reserve
<1>2. x \in LoopType /\ x.pc = "reserve" /\ x.slots + x.running + 1 = Workers
  BY <1>0, LoopHas DEF Reserve
<1>3. Take(w) /\ Available(w) /\ UNCHANGED <<medium, clock, backlog, faults, admitted, starts, resent>>
  BY <1>1 DEF Reserve
<1>4. PICK p \in {"clean", "dequeue"}, last \in Windows \cup {NoWindow} :
        Moves(l, [x EXCEPT !.pc = p, !.win = w, !.last = last])
  <2>1. Moves(l, Reserved(l, w))
    BY <1>1 DEF Reserve
  <2>2. x.last \in Windows \cup {NoWindow}
    BY <1>2 DEF LoopType
  <2> DEFINE p == IF medium \in {"sql", "mysql"} /\ loop[l].last \notin {NoWindow, w} THEN "clean" ELSE "dequeue"
             q == IF medium \in {"sql", "mysql"} THEN w ELSE x.last
  <2>3. p \in {"clean", "dequeue"} /\ q \in Windows \cup {NoWindow}
    BY <2>2
  <2>4. Reserved(l, w) = [x EXCEPT !.pc = p, !.win = w, !.last = q]
    BY <1>0 DEF Reserved
  <2> QED BY <2>1, <2>3, <2>4, ZenonT(60)
<1> DEFINE r == [x EXCEPT !.pc = p, !.win = w, !.last = last]
<1>5. r \in LoopType /\ r.pc = p /\ r.win = w /\ r.slots = x.slots /\ r.running = x.running
  BY <1>2 DEF LoopType, Pcs
<1> HIDE DEF r
<1>6. r.slots + r.running + (IF r.pc = "idle" THEN 0 ELSE 1) = Workers
  BY <1>2, <1>5 DEF LoopType
<1>7. w # NoWindow /\ r.pc \in Holding /\ r.pc # "reserve"
  BY <1>5, WindowsPositive DEF NoWindow, Holding
<1>8. LoopMove(l, r) /\ Moves(l, r)
  BY <1>0, <1>1, <1>4, <1>5, <1>6, <1>7 DEF LoopMove, r
<1>9. WindowsKnown' /\ QuotaSlots' /\ ResentOnRedis' /\ loop' \in [Loops -> LoopType]
  BY <1>3, <1>8, MoveKeepsShape DEF QuotaInv, ResentOnRedis
<1>10. /\ UsedType(used') /\ (Reliable => CountsBounded' /\ OpenKept)
       /\ Reliable => Count(used', w) = Count(used, w) + 1
  BY <1>1, <1>3, TakeCounts DEF QuotaInv
<1>11. QuotaTypeOK'
  BY <1>3, <1>9, <1>10 DEF QuotaTypeOK, UsedType, QuotaInv
<1>12. ASSUME Reliable PROVE OpenCounted' /\ QuotaBound'
  <2>1. CountsBounded' /\ OpenKept /\ OpenCounted /\ QuotaBound /\ QuotaTypeOK
    BY <1>10, <1>12 DEF QuotaInv
  <2>2. \A v : Count(used, v) \in Nat /\ Count(used', v) \in Nat
    BY <1>10, <2>1, CountNat DEF QuotaTypeOK, UsedType
  <2>3. l \notin Holders(w)
    BY <1>0, <1>2 DEF Holders
  <2>4. Holders(w)' = Holders(w) \cup {l} /\ \A v \in Windows : v # w => Holders(v)' = Holders(v) \ {l}
    BY <1>5, <1>7, <1>8, <2>1, HoldersMove DEF LoopMove
  <2>5. \A v \in Windows : Cardinality(Holders(v)') = IF v = w THEN Cardinality(Holders(v)) + 1 ELSE Cardinality(Holders(v))
    <3>1. \A v : l \notin Holders(v)
      BY <1>0, <1>2 DEF Holders
    <3>2. Cardinality(Holders(w)') = Cardinality(Holders(w)) + 1
      BY <2>3, <2>4, LoopsFinite, CardinalityStep
    <3>3. ASSUME NEW v \in Windows, v # w PROVE Cardinality(Holders(v)') = Cardinality(Holders(v))
      BY <2>4, <3>1, <3>3
    <3> QED BY <3>2, <3>3
  <2>6. ASSUME NEW v \in Windows PROVE admitted[v] \in Nat /\ resent[v] \in Nat /\ Cardinality(Holders(v)) \in Nat
    BY <2>1, LoopsFinite DEF QuotaTypeOK
  <2>7. ASSUME NEW v \in Windows, Open(v)
        PROVE  admitted'[v] + Cardinality(Holders(v)') <= Count(used', v) + resent'[v]
    <3>1. /\ admitted[v] + Cardinality(Holders(v)) <= Count(used, v) + resent[v]
          /\ Count(used, v) <= Count(used', v)
      BY <2>1, <2>7 DEF OpenCounted, OpenKept
    <3> QED BY <1>3, <1>10, <1>12, <2>2, <2>5, <2>6, <3>1
  <2>8. OpenCounted'
    <3>1. ASSUME NEW v \in Windows, Open(v)'
          PROVE  admitted'[v] + Cardinality(Holders(v)') <= Count(used', v) + resent'[v]
      <4>1. Open(v)
        BY <1>3, <1>8, <2>1, <3>1, OpenMove
      <4> QED BY <2>7, <4>1
    <3> QED BY <3>1 DEF OpenCounted, Count
  <2>9. Count(used', w) <= Limit
    BY <2>1, QuotaAssumption DEF CountsBounded, Count
  <2>10. ASSUME NEW v \in Windows PROVE admitted'[v] + Cardinality(Holders(v)') <= Limit + resent'[v]
    <3>1. CASE v = w
      <4>1. admitted'[w] + Cardinality(Holders(w)') <= Count(used', w) + resent'[w]
        BY <1>1, <2>7
      <4> QED BY <1>3, <2>2, <2>5, <2>6, <2>9, <3>1, <4>1, QuotaAssumption
    <3>2. CASE v # w
      BY <1>3, <2>1, <2>5, <3>2 DEF QuotaBound
    <3> QED BY <3>1, <3>2
  <2> QED BY <2>8, <2>10 DEF QuotaBound
<1>13. Reliable' <=> Reliable
  BY <1>3 DEF Reliable
<1> QED BY <1>9, <1>10, <1>11, <1>12, <1>13 DEF QuotaInv

\* GiveBack takes one at most from the counter of one window.
LEMMA GiveBackCounts ==
  ASSUME QuotaInv, NEW w \in Windows, GiveBack(w)
  PROVE  /\ UsedType(used')
         /\ CountsBounded => CountsBounded'
         /\ \A v : Count(used, v) \in Nat /\ Count(used', v) \in Nat
         /\ \A v : v # w => Count(used', v) = Count(used, v)
         /\ Count(used, w) <= Count(used', w) + 1
<1>1. UsedType(used)
  BY DEF QuotaInv, QuotaTypeOK, UsedType
<1>2. \A v : Count(used, v) \in Nat
  BY <1>1, CountNat
<1>3. CASE used' = used
  BY <1>1, <1>2, <1>3 DEF CountsBounded
<1>4. CASE used' # used
  <2>1. used' = With(used, w, Count(used, w) - 1) /\ Count(used, w) > 0
    BY <1>4 DEF GiveBack
  <2>2. PICK n \in Nat : n = Count(used, w) - 1
    BY <1>2, <2>1
  <2>3. /\ UsedType(used')
        /\ DOMAIN used' = DOMAIN used \cup {w}
        /\ Count(used', w) = n
        /\ \A v : v # w => Count(used', v) = Count(used, v)
        /\ \A v \in DOMAIN used : v # w => used'[v] = used[v]
        /\ used'[w] = n
    <3>0. PICK u : u = used
      OBVIOUS
    <3>1. UsedType(u)
      BY <1>1, <3>0
    <3>2. /\ UsedType(With(u, w, n))
          /\ DOMAIN With(u, w, n) = DOMAIN u \cup {w}
          /\ Count(With(u, w, n), w) = n
          /\ \A v : v # w => Count(With(u, w, n), v) = Count(u, v)
          /\ \A v \in DOMAIN u : v # w => With(u, w, n)[v] = u[v]
          /\ With(u, w, n)[w] = n
      BY <3>1, WithCounts, ZenonT(60)
    <3>3. used' = With(u, w, n)
      BY <2>1, <2>2, <3>0
    <3> QED BY <3>0, <3>2, <3>3, Zenon
  <2>4. \A v : Count(used', v) \in Nat
    BY <2>3, CountNat
  <2>5. ASSUME CountsBounded PROVE CountsBounded'
    <3>1. Count(used, w) <= Limit
      BY <2>5, QuotaAssumption DEF CountsBounded, Count
    <3> QED BY <1>2, <2>2, <2>3, <2>5, <3>1, QuotaAssumption DEF CountsBounded
  <2>6. Count(used, w) <= Count(used', w) + 1
    BY <1>2, <2>2, <2>3
  <2> QED BY <1>2, <2>3, <2>4, <2>5, <2>6
<1> QED BY <1>3, <1>4

\* Release: where the window is still open its counter covers the reservation
\* that is given back; where it is over, counter and holders are unrelated.
LEMMA ReleaseKeeps ==
  ASSUME QuotaInv, NEW l \in Loops, Release(l)
  PROVE  QuotaInv'
<1>1. UNCHANGED <<medium, clock, admitted, starts, resent>> /\ backlog' \in Nat /\ faults' \in Nat
  BY DEF Release, Fault, QuotaInv, QuotaTypeOK
<1>2. PICK r : r = Back(l)
  OBVIOUS
<1>3. LoopMove(l, r) /\ r.pc \notin Holding /\ Moves(l, r)
  BY <1>2, BackMoves DEF Release
<1>4. CASE used' = used
  BY <1>1, <1>3, <1>4, UsedKept, QuietMove
<1>5. CASE GiveBack(loop[l].win)
  <2>1. PICK w \in Windows : w = loop[l].win
    BY LoopHas DEF Release, LoopType, Holding
  <2>2. /\ UsedType(used')
        /\ CountsBounded => CountsBounded'
        /\ \A v : Count(used, v) \in Nat /\ Count(used', v) \in Nat
        /\ \A v : v # w => Count(used', v) = Count(used, v)
        /\ Count(used, w) <= Count(used', w) + 1
    BY <1>5, <2>1, GiveBackCounts
  <2>3. WindowsKnown' /\ QuotaSlots' /\ ResentOnRedis' /\ loop' \in [Loops -> LoopType]
    BY <1>1, <1>3, MoveKeepsShape DEF QuotaInv, ResentOnRedis
  <2>4. QuotaTypeOK'
    BY <1>1, <2>2, <2>3 DEF QuotaTypeOK, UsedType, QuotaInv
  <2>5. ASSUME Reliable PROVE CountsBounded' /\ OpenCounted' /\ QuotaBound'
    <3>1. CountsBounded /\ OpenCounted /\ QuotaBound /\ QuotaTypeOK
      BY <2>5 DEF QuotaInv
    <3>2. \A v : Holders(v)' = Holders(v) \ {l}
      BY <1>3, <3>1, HoldersMove DEF LoopMove
    <3>3. l \in Holders(w) /\ \A v : v # w => l \notin Holders(v)
      BY <2>1 DEF Holders, Release
    <3>4. \A v : Cardinality(Holders(v)') = IF v = w THEN Cardinality(Holders(v)) - 1 ELSE Cardinality(Holders(v))
      <4>1. Cardinality(Holders(w)') = Cardinality(Holders(w)) - 1
        BY <3>2, <3>3, LoopsFinite, CardinalityStep
      <4>2. ASSUME NEW v, v # w PROVE Cardinality(Holders(v)') = Cardinality(Holders(v))
        BY <3>2, <3>3, <4>2
      <4> QED BY <4>1, <4>2
    <3>5. ASSUME NEW v \in Windows
          PROVE  admitted[v] \in Nat /\ resent[v] \in Nat /\ Cardinality(Holders(v)) \in Nat
      BY <3>1, LoopsFinite DEF QuotaTypeOK
    <3>6. OpenCounted'
      <4>1. ASSUME NEW v \in Windows, Open(v)'
            PROVE  admitted'[v] + Cardinality(Holders(v)') <= Count(used', v) + resent'[v]
        <5>1. Open(v)
          BY <1>1, <1>3, <3>1, <4>1, OpenMove
        <5>2. admitted[v] + Cardinality(Holders(v)) <= Count(used, v) + resent[v]
          BY <3>1, <5>1 DEF OpenCounted
        <5> QED BY <1>1, <2>2, <3>4, <3>5, <5>2
      <4> QED BY <4>1 DEF OpenCounted, Count
    <3>7. ASSUME NEW v \in Windows PROVE admitted'[v] + Cardinality(Holders(v)') <= Limit + resent'[v]
      <4>1. admitted[v] + Cardinality(Holders(v)) <= Limit + resent[v]
        BY <3>1 DEF QuotaBound
      <4> QED BY <1>1, <3>4, <3>5, <4>1, QuotaAssumption
    <3> QED BY <2>2, <3>1, <3>6, <3>7 DEF QuotaBound
  <2>6. Reliable' <=> Reliable
    BY <1>1 DEF Reliable
  <2> QED BY <2>3, <2>4, <2>5, <2>6 DEF QuotaInv
<1> QED BY <1>4, <1>5 DEF Release

\* A release that will be sent again takes one from the counter while the loop
\* still holds its reservation: resent accounts for it.
LEMMA ReleaseAgainKeeps ==
  ASSUME QuotaInv, NEW l \in Loops, ReleaseAgain(l)
  PROVE  QuotaInv'
<1>1. PICK w \in Windows : w = loop[l].win
  BY LoopHas DEF ReleaseAgain, LoopType, Holding
<1>2. /\ UNCHANGED <<medium, clock, loop, backlog, admitted, starts>> /\ faults' \in Nat
      /\ medium = "redis" /\ GiveBack(w) /\ resent' = [resent EXCEPT ![w] = @ + 1]
  BY <1>1 DEF ReleaseAgain, Fault, QuotaInv, QuotaTypeOK
<1>3. /\ UsedType(used')
      /\ CountsBounded => CountsBounded'
      /\ \A v : Count(used, v) \in Nat /\ Count(used', v) \in Nat
      /\ \A v : v # w => Count(used', v) = Count(used, v)
      /\ Count(used, w) <= Count(used', w) + 1
  BY <1>2, GiveBackCounts
<1>4. QuotaTypeOK /\ \A v \in Windows : /\ resent[v] \in Nat /\ admitted[v] \in Nat
                                        /\ resent'[v] = IF v = w THEN resent[v] + 1 ELSE resent[v]
  BY <1>2 DEF QuotaTypeOK, QuotaInv
<1>5. QuotaTypeOK'
  <2>1. resent' \in [Windows -> Nat]
    BY <1>2, <1>4 DEF QuotaTypeOK
  <2> QED BY <1>2, <1>3, <1>4, <2>1 DEF QuotaTypeOK, UsedType
<1>6. Win(clock)' = Win(clock)
  BY <1>2 DEF Win
<1>7. WindowsKnown' /\ QuotaSlots' /\ ResentOnRedis'
  BY <1>2, <1>6 DEF QuotaInv, WindowsKnown, QuotaSlots, ResentOnRedis
<1>8. ASSUME NEW v PROVE Holders(v)' = Holders(v) /\ (Open(v)' <=> Open(v))
  BY <1>2, <1>6 DEF Holders, Open
<1>9. ASSUME Reliable PROVE CountsBounded' /\ OpenCounted' /\ QuotaBound'
  <2>1. CountsBounded /\ OpenCounted /\ QuotaBound
    BY <1>9 DEF QuotaInv
  <2>2. ASSUME NEW v \in Windows, Open(v)'
        PROVE  admitted'[v] + Cardinality(Holders(v)') <= Count(used', v) + resent'[v]
    <3>1. admitted[v] + Cardinality(Holders(v)) <= Count(used, v) + resent[v]
      BY <1>8, <2>1, <2>2 DEF OpenCounted
    <3> QED BY <1>2, <1>3, <1>4, <1>8, <3>1, LoopsFinite
  <2>3. ASSUME NEW v \in Windows
        PROVE  admitted'[v] + Cardinality(Holders(v)') <= Limit + resent'[v]
    <3>1. admitted[v] + Cardinality(Holders(v)) <= Limit + resent[v]
      BY <2>1 DEF QuotaBound
    <3> QED BY <1>2, <1>4, <1>8, <3>1, LoopsFinite, QuotaAssumption
  <2>4. OpenCounted'
    BY <2>2 DEF OpenCounted, Count
  <2> QED BY <1>3, <2>1, <2>3, <2>4 DEF QuotaBound
<1>10. Reliable' <=> Reliable
  BY <1>2 DEF Reliable
<1> QED BY <1>5, <1>7, <1>9, <1>10 DEF QuotaInv

\* Claim: the reservation in hand becomes one that is consumed.
LEMMA ClaimKeeps ==
  ASSUME QuotaInv, NEW l \in Loops, Claim(l)
  PROVE  QuotaInv'
<1>0. PICK x : x = loop[l]
  OBVIOUS
<1>1. PICK w \in Windows : w = x.win
  BY <1>0, LoopHas DEF Claim, LoopType, Holding
<1>2. x \in LoopType /\ x.pc = "dequeue" /\ x.slots + x.running + 1 = Workers
  BY <1>0, LoopHas DEF Claim
<1>3. /\ UNCHANGED <<medium, clock, used, faults, resent>> /\ backlog' = backlog - 1 /\ backlog > 0
      /\ admitted' = [admitted EXCEPT ![w] = @ + 1] /\ starts' = starts + 1
  BY <1>0, <1>1 DEF Claim
<1>4. PICK n \in Nat : n = x.running + 1
  BY <1>2 DEF LoopType
<1> DEFINE r == [x EXCEPT !.pc = "idle", !.running = n, !.win = NoWindow]
<1>5. r \in LoopType /\ r.pc = "idle" /\ r.win = NoWindow /\ r.slots = x.slots /\ r.running = x.running + 1
  BY <1>2, <1>4 DEF LoopType, Pcs
<1>6. Moves(l, r)
  BY <1>0, <1>4 DEF Claim
<1> HIDE DEF r
<1>7. r.slots + r.running + (IF r.pc = "idle" THEN 0 ELSE 1) = Workers
  BY <1>2, <1>5 DEF LoopType
<1>8. LoopMove(l, r)
  BY <1>5, <1>7 DEF LoopMove, Holding
<1>9. WindowsKnown' /\ QuotaSlots' /\ loop' \in [Loops -> LoopType]
  BY <1>3, <1>6, <1>8, MoveKeepsShape DEF QuotaInv
<1>10. QuotaTypeOK /\ \A v \in Windows : admitted[v] \in Nat /\ admitted'[v] = IF v = w THEN admitted[v] + 1 ELSE admitted[v]
  BY <1>3 DEF QuotaTypeOK, QuotaInv
<1>11. QuotaTypeOK'
  <2>1. admitted' \in [Windows -> Nat]
    BY <1>3, <1>10 DEF QuotaTypeOK
  <2>2. backlog' \in Nat /\ starts' \in Nat
    BY <1>3, <1>10 DEF QuotaTypeOK
  <2> QED BY <1>3, <1>9, <1>10, <2>1, <2>2 DEF QuotaTypeOK
<1>12. \A v : Holders(v)' = Holders(v) \ {l}
  BY <1>5, <1>6, <1>10, HoldersMove DEF Holding
<1>13. l \in Holders(w) /\ \A v : v # w => l \notin Holders(v)
  BY <1>0, <1>1, <1>2 DEF Holders
<1>14. \A v : Cardinality(Holders(v)') = IF v = w THEN Cardinality(Holders(v)) - 1 ELSE Cardinality(Holders(v))
  <2>1. Cardinality(Holders(w)') = Cardinality(Holders(w)) - 1
    BY <1>12, <1>13, LoopsFinite, CardinalityStep
  <2>2. ASSUME NEW v, v # w PROVE Cardinality(Holders(v)') = Cardinality(Holders(v))
    BY <1>12, <1>13, <2>2
  <2> QED BY <2>1, <2>2
<1>15. ASSUME NEW v \in Windows
       PROVE  admitted'[v] + Cardinality(Holders(v)') = admitted[v] + Cardinality(Holders(v))
  BY <1>10, <1>14, LoopsFinite
<1>16. ASSUME Reliable PROVE CountsBounded' /\ OpenCounted' /\ QuotaBound'
  <2>1. CountsBounded /\ OpenCounted /\ QuotaBound
    BY <1>16 DEF QuotaInv
  <2>2. CountsBounded'
    BY <1>3, <2>1 DEF CountsBounded
  <2>3. OpenCounted'
    <3>1. ASSUME NEW v \in Windows, Open(v)'
          PROVE  admitted'[v] + Cardinality(Holders(v)') <= Count(used', v) + resent'[v]
      <4>1. Open(v)
        BY <1>3, <1>6, <1>8, <1>10, <3>1, OpenMove
      <4> QED BY <1>3, <1>15, <2>1, <4>1 DEF OpenCounted
    <3> QED BY <3>1 DEF OpenCounted, Count
  <2>4. QuotaBound'
    BY <1>3, <1>15, <2>1 DEF QuotaBound
  <2> QED BY <2>2, <2>3, <2>4
<1>17. ResentOnRedis'
  BY <1>3 DEF QuotaInv, ResentOnRedis
<1>18. Reliable' <=> Reliable
  BY <1>3 DEF Reliable
<1> QED BY <1>9, <1>11, <1>16, <1>17, <1>18 DEF QuotaInv

\* Time passes: a window closes, none opens.
LEMMA TickKeeps ==
  ASSUME QuotaInv, Tick
  PROVE  QuotaInv'
<1>1. /\ clock' = clock + 1 /\ clock < MaxTime /\ UNCHANGED <<medium, used, loop, backlog, faults, admitted, resent>>
      /\ starts' = IF Win(clock + 1) = Win(clock) THEN starts ELSE 0
  BY DEF Tick
<1>2. clock' \in Period..MaxTime /\ clock \in Period..MaxTime
  BY <1>1, QuotaAssumption DEF QuotaInv, QuotaTypeOK
<1>3. PICK v \in Windows, w \in Windows : v = Win(clock) /\ w = Win(clock + 1) /\ v <= w
  <2>1. Win(clock) \in Windows /\ Win(clock + 1) \in Windows
    BY <1>1, <1>2, WindowsPositive
  <2>2. Win(clock) <= Win(clock + 1)
    BY <1>2, WinMonotone, QuotaAssumption
  <2> QED BY <2>1, <2>2
<1>4. Win(clock)' = w
  BY <1>1, <1>3 DEF Win
<1>5. v \in Nat /\ w \in Nat /\ Windows \subseteq Nat
  BY WindowsPositive
<1>6. QuotaTypeOK /\ QuotaTypeOK'
  BY <1>1, <1>2 DEF QuotaInv, QuotaTypeOK
<1>7. QuotaSlots'
  BY <1>1 DEF QuotaInv, QuotaSlots
<1>8. WindowsKnown'
  <2> SUFFICES ASSUME NEW l \in Loops
               PROVE  /\ loop[l].win <= w
                      /\ loop[l].pc \in Holding => loop[l].win # NoWindow
                      /\ loop[l].pc = "reserve" /\ medium = "mysql" =>
                           /\ loop[l].win # NoWindow
                           /\ Prompt => w <= loop[l].win + 2 * Period
    BY <1>1, <1>4, Zenon DEF WindowsKnown
  <2>1. loop[l].win \in Nat
    BY <1>5, <1>6 DEF QuotaTypeOK, LoopType, NoWindow
  <2>2. /\ loop[l].win <= v
        /\ loop[l].pc \in Holding => loop[l].win # NoWindow
        /\ loop[l].pc = "reserve" /\ medium = "mysql" => loop[l].win # NoWindow
    BY <1>3 DEF QuotaInv, WindowsKnown
  <2>3. loop[l].pc = "reserve" /\ medium = "mysql" /\ Prompt => w <= loop[l].win + 2 * Period
    BY <1>3 DEF Tick
  <2> QED BY <1>3, <1>5, <2>1, <2>2, <2>3
<1>9. ASSUME NEW u PROVE Holders(u)' = Holders(u)
  BY <1>1 DEF Holders
<1>10. ASSUME Reliable PROVE CountsBounded' /\ OpenCounted' /\ QuotaBound'
  <2>1. CountsBounded /\ OpenCounted /\ QuotaBound
    BY <1>10 DEF QuotaInv
  <2>2. CountsBounded'
    BY <1>1, <2>1 DEF CountsBounded
  <2>3. QuotaBound'
    BY <1>1, <1>9, <2>1 DEF QuotaBound
  <2>4. ASSUME NEW u \in Windows, Open(u)' PROVE Open(u)
    <3>1. u >= w => u >= v
      BY <1>3, <1>5
    <3> QED BY <1>1, <1>3, <1>4, <2>4, <3>1 DEF Open
  <2>5. ASSUME NEW u \in Windows, Open(u)'
        PROVE  admitted'[u] + Cardinality(Holders(u)') <= Count(used', u) + resent'[u]
    BY <1>1, <1>9, <2>1, <2>4, <2>5 DEF OpenCounted
  <2>6. OpenCounted'
    BY <2>5 DEF OpenCounted, Count
  <2> QED BY <2>2, <2>3, <2>6
<1>11. ResentOnRedis'
  BY <1>1 DEF QuotaInv, ResentOnRedis
<1>12. Reliable' <=> Reliable
  BY <1>1 DEF Reliable
<1> QED BY <1>6, <1>7, <1>8, <1>10, <1>11, <1>12 DEF QuotaInv

\* Redis forgets the counter of a window only when the window is over.
LEMMA ExpiryKeeps ==
  ASSUME QuotaInv, NEW w, KeyExpires(w)
  PROVE  QuotaInv'
<1>1. /\ medium = "redis" /\ w \in DOMAIN used /\ clock >= w + 2 * Period
      /\ used' = [v \in DOMAIN used \ {w} |-> used[v]]
      /\ UNCHANGED <<medium, clock, loop, backlog, faults, admitted, starts, resent>>
  BY DEF KeyExpires
<1>2. UsedType(used) /\ backlog \in Nat /\ faults \in Nat /\ clock \in Period..MaxTime
  BY DEF QuotaInv, QuotaTypeOK, UsedType
<1>3. UsedType(used')
  BY <1>1, <1>2 DEF UsedType
<1>4. w \in Nat /\ Win(clock) \in Nat /\ Period \in Nat /\ Period > 0
  BY <1>1, <1>2, WindowsPositive, QuotaAssumption DEF UsedType
<1>5. w < Win(clock)
  <2>1. clock \in Nat /\ clock < Win(clock) + Period
    BY <1>2, WinBounds, QuotaAssumption
  <2> QED BY <1>1, <1>4, <2>1
<1>6. ~Open(w)
  BY <1>1, <1>4, <1>5 DEF Open
<1>7. \A v : v # w => Count(used', v) = Count(used, v)
  BY <1>1 DEF Count
<1>8. OpenKept
  BY <1>2, <1>6, <1>7, CountNat DEF OpenKept
<1>9. Reliable => CountsBounded'
  BY <1>1 DEF QuotaInv, CountsBounded
<1> QED BY <1>1, <1>2, <1>3, <1>8, <1>9, SurroundingsKeep

-------------------------------------------------------------------------------
(* The inductive invariant and what follows from it.                       *)

\* A system in which nothing was reserved yet.
LEMMA QuotaInvInit == QuotaInit => QuotaInv
<1> SUFFICES ASSUME QuotaInit PROVE QuotaInv
  OBVIOUS
<1>1. /\ medium \in Media /\ clock = Period /\ DOMAIN used = {} /\ loop = [l \in Loops |-> NewLoop]
      /\ backlog = 0 /\ faults = 0 /\ starts = 0 /\ admitted = [w \in Windows |-> 0]
      /\ resent = [w \in Windows |-> 0] /\ used = [w \in {} |-> 0]
  BY DEF QuotaInit
<1>2. NewLoop \in LoopType /\ NewLoop.pc = "idle" /\ NewLoop.slots = Workers /\ NewLoop.running = 0
      /\ NewLoop.win = NoWindow
  BY QuotaAssumption DEF NewLoop, LoopType, Pcs
<1>3. clock \in Period..MaxTime
  BY <1>1, QuotaAssumption
<1>4. Win(clock) \in Windows /\ Win(clock) \in Nat
  BY <1>3, WindowsPositive
<1>5. QuotaTypeOK
  BY <1>1, <1>2, <1>3, QuotaAssumption DEF QuotaTypeOK
<1>6. WindowsKnown /\ QuotaSlots
  BY <1>1, <1>2, <1>4, QuotaAssumption DEF WindowsKnown, QuotaSlots, NoWindow, Holding
<1>7. \A w : Holders(w) = {}
  BY <1>1, <1>2 DEF Holders
<1>8. Cardinality({}) = 0
  BY FS_EmptySet
<1>9. ResentOnRedis /\ \A w \in Windows : resent[w] = 0
  BY <1>1 DEF ResentOnRedis
<1>10. ASSUME NEW w \in Windows
       PROVE  admitted[w] + Cardinality(Holders(w)) = 0 /\ Count(used, w) = 0
  <2>1. admitted[w] = 0 /\ Count(used, w) = 0
    BY <1>1 DEF Count
  <2>2. Cardinality(Holders(w)) = 0
    BY <1>7, <1>8, Zenon
  <2> QED BY <2>1, <2>2
<1>11. CountsBounded /\ OpenCounted /\ QuotaBound
  BY <1>1, <1>9, <1>10, QuotaAssumption DEF CountsBounded, OpenCounted, QuotaBound
<1> QED BY <1>5, <1>6, <1>9, <1>11 DEF QuotaInv

\* One step per action of the claim loops, the medium and the surroundings.
LEMMA QuotaInvStep == QuotaInv /\ [QuotaNext]_quotaVars => QuotaInv'
<1> SUFFICES ASSUME QuotaInv, [QuotaNext]_quotaVars PROVE QuotaInv'
  OBVIOUS
<1>1. ASSUME NEW l \in Loops, ClaimLoop(l) \/ HandlerEnds(l) \/ Crash(l) PROVE QuotaInv'
  <2>1. CASE Reserve(l) /\ Available(Target(l))
    BY <2>1, ReserveGranted
  <2>2. CASE (Reserve(l) /\ ~Available(Target(l))) \/ ReserveError(l) \/ ReserveAgain(l) \/ CleanUp(l)
    BY <2>2, CounterSteps
  <2>3. CASE AcquireSlot(l) \/ Look(l) \/ ReadNow(l) \/ ClaimError(l) \/ HandlerEnds(l) \/ Crash(l)
    BY <2>3, LoopOnlySteps
  <2>4. CASE Claim(l)
    BY <2>4, ClaimKeeps
  <2>5. CASE Release(l)
    BY <2>5, ReleaseKeeps
  <2>6. CASE ReleaseAgain(l)
    BY <2>6, ReleaseAgainKeeps
  <2> QED BY <1>1, <2>1, <2>2, <2>3, <2>4, <2>5, <2>6 DEF ClaimLoop
<1>2. ASSUME NEW w, KeyExpires(w) PROVE QuotaInv'
  BY <1>2, ExpiryKeeps
<1>3. CASE Arrive
  <2>1. used' = used /\ backlog' \in Nat /\ faults' \in Nat /\ UNCHANGED <<medium, clock, loop, admitted, starts, resent>>
    BY <1>3 DEF Arrive, QuotaInv, QuotaTypeOK
  <2> QED BY <2>1, UsedKept, SurroundingsKeep
<1>4. CASE Tick
  BY <1>4, TickKeeps
<1>5. CASE UNCHANGED quotaVars
  <2>1. used' = used /\ backlog' \in Nat /\ faults' \in Nat /\ UNCHANGED <<medium, clock, loop, admitted, starts, resent>>
    BY <1>5 DEF quotaVars, QuotaInv, QuotaTypeOK
  <2> QED BY <2>1, UsedKept, SurroundingsKeep
<1> QED BY <1>1, <1>2, <1>3, <1>4, <1>5 DEF QuotaNext

\* Whatever happens to its rounds (an empty queue, an exhausted window, a failed
\* Reserve, clean-up, claim or Release, a crash), a claim loop with a quota gate
\* accounts for every one of its slots, for every number of workers and loops
\* (claimLoop's ReleaseSlot on each way out).
THEOREM QuotaSlotsKept == QuotaSpec => []QuotaSlots
<1>1. QuotaInv => QuotaSlots
  BY DEF QuotaInv
<1> QED BY QuotaInvInit, QuotaInvStep, <1>1, PTL DEF QuotaSpec

\* The quota of every medium, for every number of claim loops, every limit and
\* period: of no window more than Limit reservations are consumed or held,
\* although counters are dropped and releases come late, except for one with
\* every release of that window that Redis carried out again (Release of
\* redisbroker/quota.go).  For MySQL this needs that the statement is sent before
\* two more periods have passed since the time was read (Reserve of the MySQL
\* gate reads the time first).
THEOREM QuotaBounded == QuotaSpec => [](Prompt \/ medium # "mysql" => QuotaBound)
<1>1. QuotaInv => (Prompt \/ medium # "mysql" => QuotaBound)
  BY DEF QuotaInv, Reliable
<1> QED BY QuotaInvInit, QuotaInvStep, <1>1, PTL DEF QuotaSpec

\* The limit without the exception.
HardQuota == \A w \in Windows : admitted[w] + Cardinality(Holders(w)) <= Limit

\* The quota is hard in memory and in the databases, whose Release is carried
\* out at most once: through every race, lost call, late release and crash no
\* window gives out more than Limit reservations that are used.
THEOREM QuotaIsHard ==
  QuotaSpec => [](medium # "redis" /\ (Prompt \/ medium # "mysql") => HardQuota)
<1>1. QuotaInv => (medium # "redis" /\ (Prompt \/ medium # "mysql") => HardQuota)
  <2> SUFFICES ASSUME QuotaInv, medium # "redis", Reliable PROVE HardQuota
    BY DEF Reliable
  <2>1. \A w \in Windows : resent[w] = 0 /\ admitted[w] + Cardinality(Holders(w)) <= Limit + resent[w]
    BY DEF QuotaInv, ResentOnRedis, QuotaBound
  <2> QED BY <2>1, QuotaAssumption DEF HardQuota
<1> QED BY QuotaInvInit, QuotaInvStep, <1>1, PTL DEF QuotaSpec
===============================================================================
