--------------------------- MODULE DequeueWaitProofs ---------------------------
(***************************************************************************)
(* Proved of the waiting Dequeue, for any number of waiters, processes and *)
(* tasks, any poll interval and any delays, on the three kinds of broker:  *)
(*   SignalsNotLost  (NoLostSignal)  a waiter does not sleep through a     *)
(*                                   task its own process wrote.           *)
(*                                                                         *)
(* The invariant (WaitInv) extends the property to the waiters on their    *)
(* way to sleep: the one that holds the mutex ("arming") and the one that  *)
(* has left its transaction ("decide").  It needs the bound on what is     *)
(* left to a RunAt, so that a timer that is not set means that no task was *)
(* there, and that a waiter is only where its kind of broker puts it.      *)
(***************************************************************************)
EXTENDS DequeueWait, FiniteSetTheorems, WellFoundedInduction, TLAPS

Pcs == {"idle", "loop", "arming", "checked", "tx", "decide", "asleep"}

Waiter == [pc : Pcs, ctx : BOOLEAN, timer : Nat, age : Nat, woken : BOOLEAN, guard : BOOLEAN]

Task == [left : Int, by : Procs]

QueuedOK ==
  /\ queued \in [DOMAIN queued -> Task] /\ DOMAIN queued \subseteq Tasks
  /\ \A t \in DOMAIN queued : queued[t].left < Never

\* Where a waiter can be.
PlacesOK ==
  /\ medium = "memory" => \A w \in Waiters : waiter[w].pc \notin {"checked", "tx", "decide"}
  /\ medium # "memory" => \A w \in Waiters : waiter[w].pc # "arming"

\* Waiter x at process p hears of task t, of which n is left.
Hears(x, p, t, n, os) == x.woken \/ <<p, t>> \in os \/ x.timer <= n \/ x.timer = 0

HearsAll ==
  \A w \in Waiters, t \in DOMAIN queued :
    queued[t].by = Home[w] /\ rowLock[t] = "free" =>
      /\ waiter[w].pc \in {"decide", "asleep"} =>
           Hears(waiter[w], Home[w], t, queued[t].left, owed)
      /\ waiter[w].pc = "arming" => waiter[w].timer <= queued[t].left \/ waiter[w].timer = 0

WaitInv ==
  /\ QueuedOK /\ rowLock \in [Tasks -> {"free", "held", "was"}]
  /\ waiter \in [Waiters -> Waiter] /\ PlacesOK /\ HearsAll

-------------------------------------------------------------------------------
(* Least and greatest elements.                                            *)

\* A set of naturals that is not empty has a least element.
LEMMA LeastNat ==
  ASSUME NEW S \in SUBSET Nat, S # {}
  PROVE  \E x \in S : \A y \in S : x <= y
<1>1. PICK R : R = {p \in Nat \X Nat : p[1] < p[2]}
  OBVIOUS
<1>2. IsWellFoundedOn(R, Nat)
  BY <1>1, NatLessThanWellFounded, Zenon DEF OpToRel
<1>3. PICK x \in S : \A y \in S : ~(<<y, x>> \in R)
  BY <1>2, WFMin, Zenon
<1>4. \A y \in S : x <= y
  <2>1. SUFFICES ASSUME NEW y \in S PROVE x <= y
    OBVIOUS
  <2>2. x \in Nat /\ y \in Nat /\ (y < x => <<y, x>> \in R)
    BY <1>1
  <2> QED BY <1>3, <2>2
<1> QED BY <1>4

HasMax(S) == \E x \in S : \A y \in S : x >= y

\* A finite set of naturals that is not empty has a greatest element: the
\* smallest without one would lose an element and still have none.
LEMMA GreatestNat ==
  ASSUME NEW S \in SUBSET Nat, S # {}, IsFiniteSet(S)
  PROVE  HasMax(S)
<1>1. SUFFICES ASSUME ~HasMax(S) PROVE FALSE
  OBVIOUS
<1>2. PICK B : B = {n \in Nat : \E X \in SUBSET S : X # {} /\ Cardinality(X) = n /\ ~HasMax(X)}
  OBVIOUS
<1>3. B \in SUBSET Nat /\ B # {}
  <2>1. Cardinality(S) \in Nat
    BY FS_CardinalityType
  <2>2. Cardinality(S) \in B
    BY <1>1, <1>2, <2>1
  <2> QED BY <1>2, <2>2
<1>4. PICK n \in B : \A m \in B : n <= m
  BY <1>3, LeastNat
<1>5. PICK X \in SUBSET S : X # {} /\ Cardinality(X) = n /\ ~HasMax(X)
  BY <1>2, <1>4
<1>6. PICK x \in X : TRUE
  BY <1>5
<1>7. IsFiniteSet(X) /\ X \subseteq Nat
  BY FS_Subset
<1>8. IsFiniteSet(X \ {x}) /\ Cardinality(X \ {x}) = n - 1
  BY <1>5, <1>6, <1>7, FS_RemoveElement
<1>9. n \in Nat /\ Cardinality(X \ {x}) \in Nat
  BY <1>3, <1>8, FS_CardinalityType
<1>10. Cardinality(X \ {x}) \notin B
  BY <1>4, <1>8, <1>9
<1>11. X \ {x} = {} \/ HasMax(X \ {x})
  BY <1>2, <1>9, <1>10
<1>12. CASE X \ {x} = {}
  BY <1>5, <1>6, <1>7, <1>12 DEF HasMax
<1>13. CASE HasMax(X \ {x})
  <2>1. PICK m \in X \ {x} : \A y \in X \ {x} : m >= y
    BY <1>13 DEF HasMax
  <2>2. m \in Nat /\ x \in Nat
    BY <1>6, <1>7
  <2>3. CASE m >= x
    BY <1>5, <2>1, <2>3 DEF HasMax
  <2>4. CASE x >= m
    BY <1>5, <1>6, <1>7, <2>1, <2>2, <2>4 DEF HasMax
  <2> QED BY <2>2, <2>3, <2>4
<1> QED BY <1>11, <1>12, <1>13

\* A timer that is not set is longer than any delay and than the poll interval.
LEMMA NeverBounds ==
  /\ Never \in Nat /\ Poll \in Nat \ {0} /\ Poll < Never /\ \A d \in Delays : d \in Nat /\ d < Never
<1>1. PICK S : S = Delays \cup {Poll}
  OBVIOUS
<1>2. S \in SUBSET Nat /\ S # {} /\ IsFiniteSet(S)
  BY <1>1, WaitAssumption, FS_AddElement
<1>3. PICK m : m = Max(S)
  OBVIOUS
<1>4. m \in S /\ \A y \in S : m >= y
  BY <1>2, <1>3, GreatestNat DEF HasMax, Max
<1>5. Never = m + 1
  BY <1>1, <1>3 DEF Never
<1> QED BY <1>1, <1>2, <1>4, <1>5, WaitAssumption

\* Max and Min of two numbers.
LEMMA OfTwo ==
  ASSUME NEW a \in Int, NEW b \in Int
  PROVE  /\ Max({a, b}) = (IF a >= b THEN a ELSE b)
         /\ Min({a, b}) = (IF a <= b THEN a ELSE b)
BY DEF Max, Min

\* The time to the next task a claim saw and could not take, or a timer that is
\* not set: no task that was not due yet is due earlier.
LEMMA NextIsEarliest ==
  ASSUME QueuedOK, NEW back \in Nat
  PROVE  /\ NextFor(back) \in Nat
         /\ \A t \in DOMAIN queued \ DueFor(back) :
              NextFor(back) <= queued[t].left \/ NextFor(back) = 0
<1>1. PICK later : later = {queued[t].left : t \in DOMAIN queued \ DueFor(back)}
  OBVIOUS
<1>2. PICK q : q = queued
  OBVIOUS
<1>3. \A n \in later : n \in Int /\ n + back \in Nat
  <2>1. SUFFICES ASSUME NEW t \in DOMAIN queued \ DueFor(back)
                 PROVE  queued[t].left \in Int /\ queued[t].left + back \in Nat
    BY <1>1
  <2>2. queued[t].left \in Int /\ ~(queued[t].left + back <= 0)
    BY <2>1 DEF QueuedOK, Task, DueFor
  <2> QED BY <2>2
<1>4. CASE later = {}
  <2>1. NextFor(back) = Never
    BY <1>1, <1>4 DEF NextFor
  <2> QED BY <1>1, <1>4, <2>1, NeverBounds
<1>5. CASE later # {}
  <2>1. PICK S : S = {n + back : n \in later}
    OBVIOUS
  <2>2. S \in SUBSET Nat /\ S # {}
    BY <1>3, <1>5, <2>1
  <2>3. PICK s \in S : \A y \in S : s <= y
    BY <2>2, LeastNat
  <2>4. PICK k \in later : s = k + back
    BY <2>1
  <2>5. \A n \in later : k <= n
    BY <1>3, <2>1, <2>3, <2>4, SMTT(60)
  <2>6. PICK m : m = Min(later)
    OBVIOUS
  <2>7. m \in later /\ \A n \in later : m <= n
    BY <2>5, <2>6 DEF Min
  <2>8. m \in Int
    BY <1>3, <2>7
  <2>9. NextFor(back) = Max({0, m})
    BY <1>1, <1>5, <2>6 DEF NextFor
  <2>10. NextFor(back) = IF 0 >= m THEN 0 ELSE m
    BY <2>8, <2>9, OfTwo
  <2>11. \A t \in DOMAIN queued \ DueFor(back) : m <= queued[t].left /\ queued[t].left \in Int
    BY <1>1, <1>3, <2>7
  <2> QED BY <2>8, <2>10, <2>11
<1> QED BY <1>4, <1>5

-------------------------------------------------------------------------------
(* One waiter moves.                                                       *)

\* A record y that waiter w may have: it hears of every task it should.
Attentive(w, y) ==
  /\ y \in Waiter
  /\ medium = "memory" => y.pc \notin {"checked", "tx", "decide"}
  /\ medium # "memory" => y.pc # "arming"
  /\ \A t \in DOMAIN queued :
       queued[t].by = Home[w] /\ rowLock[t] = "free" =>
         /\ y.pc \in {"decide", "asleep"} => Hears(y, Home[w], t, queued[t].left, owed)
         /\ y.pc = "arming" => y.timer <= queued[t].left \/ y.timer = 0

\* The queue is the same, or a task has left it.
QueueShrinks ==
  /\ DOMAIN queued' \subseteq DOMAIN queued /\ queued' \in [DOMAIN queued' -> Task]
  /\ \A t \in DOMAIN queued' : queued'[t] = queued[t]

\* A step of one waiter that leaves it attentive; the others do not notice.
LEMMA OneMoves ==
  ASSUME WaitInv, NEW w \in Waiters, NEW y, Attentive(w, y),
         waiter' = [waiter EXCEPT ![w] = y], QueueShrinks, UNCHANGED <<medium, rowLock, owed>>
  PROVE  WaitInv'
<1>1. /\ waiter' \in [Waiters -> Waiter] /\ waiter'[w] = y
      /\ \A v \in Waiters : v # w => waiter'[v] = waiter[v]
  BY DEF WaitInv, Attentive
<1>2. QueuedOK'
  BY DEF WaitInv, QueuedOK, QueueShrinks
<1>3. PlacesOK'
  BY <1>1 DEF WaitInv, PlacesOK, Attentive
<1>4. HearsAll'
  <2>1. SUFFICES ASSUME NEW v \in Waiters, NEW t \in DOMAIN queued',
                        queued'[t].by = Home[v], rowLock[t] = "free"
                 PROVE  /\ waiter'[v].pc \in {"decide", "asleep"} =>
                             Hears(waiter'[v], Home[v], t, queued'[t].left, owed)
                        /\ waiter'[v].pc = "arming" =>
                             waiter'[v].timer <= queued'[t].left \/ waiter'[v].timer = 0
    BY DEF HearsAll
  <2>2. t \in DOMAIN queued /\ queued'[t] = queued[t]
    BY <2>1 DEF QueueShrinks
  <2>3. CASE v = w
    BY <1>1, <2>1, <2>2, <2>3 DEF Attentive
  <2>4. CASE v # w
    BY <1>1, <2>1, <2>2, <2>4 DEF WaitInv, HearsAll
  <2> QED BY <2>3, <2>4
<1> QED BY <1>1, <1>2, <1>3, <1>4 DEF WaitInv

\* Outside of Dequeue, and at the top of its loop, there is nothing to hear.
LEMMA AtTop ==
  ASSUME WaitInv, NEW w \in Waiters
  PROVE  /\ Outside \in Waiter /\ Outside.pc = "idle"
         /\ Top(w) \in Waiter /\ Top(w).pc = "loop"
         /\ Attentive(w, Outside) /\ Attentive(w, Top(w))
<1>1. Outside \in Waiter /\ Outside.pc = "idle"
  BY NeverBounds DEF Outside, Waiter, Pcs
<1>2. waiter[w].ctx \in BOOLEAN
  BY DEF WaitInv, Waiter
<1>3. PICK b : b = waiter[w].ctx
  OBVIOUS
<1>4. PICK y : y = [Outside EXCEPT !.pc = "loop", !.ctx = b]
  OBVIOUS
<1>5. b \in BOOLEAN
  BY <1>2, <1>3, Zenon
<1> HIDE DEF Outside
<1>6. y \in Waiter /\ y.pc = "loop"
  BY <1>1, <1>4, <1>5 DEF Waiter, Pcs
<1>7. Top(w) = y
  BY <1>3, <1>4 DEF Top
<1> QED BY <1>1, <1>6, <1>7 DEF Attentive

\* A waiter whose place and timer stay the same is as attentive as before.
LEMMA StaysAttentive ==
  ASSUME WaitInv, NEW w \in Waiters
  PROVE  /\ waiter[w] \in Waiter /\ Attentive(w, waiter[w])
BY DEF WaitInv, Attentive, HearsAll, PlacesOK

\* The queue that does not change.
LEMMA QueueSame ==
  ASSUME WaitInv, queued' = queued
  PROVE  QueueShrinks
BY DEF WaitInv, QueuedOK, QueueShrinks

\* The task that is claimed leaves the queue.
LEMMA TakeShrinks ==
  ASSUME WaitInv, NEW w, NEW S, Take(w, S)
  PROVE  QueueShrinks /\ waiter' = [waiter EXCEPT ![w] = Outside]
<1>1. PICK t : queued' = [u \in DOMAIN queued \ {t} |-> queued[u]]
  BY DEF Take
<1> QED BY <1>1 DEF Take, Go, WaitInv, QueuedOK, QueueShrinks

\* A call of Dequeue.
LEMMA CallKeeps ==
  ASSUME WaitInv, NEW w \in Waiters, Call(w)
  PROVE  WaitInv'
<1>1. PICK y : y = Top(w)
  OBVIOUS
<1>2. Attentive(w, y) /\ QueueShrinks
  BY <1>1, AtTop, QueueSame DEF Call, store
<1>3. waiter' = [waiter EXCEPT ![w] = y] /\ UNCHANGED <<medium, rowLock, owed>>
  BY <1>1 DEF Call, Go, store
<1> QED BY <1>2, <1>3, OneMoves

\* The context of a call ends.
LEMMA CancelContextKeeps ==
  ASSUME WaitInv, NEW w \in Waiters, CancelContext(w)
  PROVE  WaitInv'
<1>1. PICK x, y : x = waiter[w] /\ y = [x EXCEPT !.ctx = TRUE]
  OBVIOUS
<1>2. x \in Waiter /\ Attentive(w, x)
  BY <1>1, StaysAttentive
<1>3. y \in Waiter /\ y.pc = x.pc /\ y.timer = x.timer /\ y.woken = x.woken
  BY <1>1, <1>2 DEF Waiter
<1>4. Attentive(w, y) /\ QueueShrinks
  BY <1>2, <1>3, QueueSame DEF Attentive, Hears, CancelContext, store
<1>5. waiter' = [waiter EXCEPT ![w] = y] /\ UNCHANGED <<medium, rowLock, owed>>
  BY <1>1 DEF CancelContext, Go, store
<1> QED BY <1>4, <1>5, OneMoves

\* The guard leaves its select.
LEMMA GuardFiresKeeps ==
  ASSUME WaitInv, NEW w \in Waiters, GuardFires(w)
  PROVE  WaitInv'
<1>1. PICK x, y : x = waiter[w] /\ y = [x EXCEPT !.guard = FALSE]
  OBVIOUS
<1>2. x \in Waiter /\ Attentive(w, x)
  BY <1>1, StaysAttentive
<1>3. y \in Waiter /\ y.pc = x.pc /\ y.timer = x.timer /\ y.woken = x.woken
  BY <1>1, <1>2 DEF Waiter
<1>4. Attentive(w, y) /\ QueueShrinks
  BY <1>2, <1>3, QueueSame DEF Attentive, Hears, GuardFires, store
<1>5. waiter' = [waiter EXCEPT ![w] = y] /\ UNCHANGED <<medium, rowLock, owed>>
  BY <1>1 DEF GuardFires, Go, store
<1> QED BY <1>4, <1>5, OneMoves

\* cond.Wait.
LEMMA CondWaitKeeps ==
  ASSUME WaitInv, NEW w \in Waiters, CondWait(w)
  PROVE  WaitInv'
<1>1. PICK x, y : x = waiter[w] /\ y = [x EXCEPT !.pc = "asleep"]
  OBVIOUS
<1>2. x \in Waiter /\ Attentive(w, x) /\ x.pc = "arming"
  BY <1>1, StaysAttentive DEF CondWait
<1>3. y \in Waiter /\ y.pc = "asleep" /\ y.timer = x.timer /\ y.woken = x.woken
  BY <1>1, <1>2 DEF Waiter, Pcs
<1>4. Attentive(w, y) /\ QueueShrinks
  BY <1>2, <1>3, QueueSame DEF Attentive, Hears, CondWait, store
<1>5. waiter' = [waiter EXCEPT ![w] = y] /\ UNCHANGED <<medium, rowLock, owed>>
  BY <1>1 DEF CondWait, Go, store
<1> QED BY <1>4, <1>5, OneMoves

\* The in-memory broker's loop: no task is due, and the guard's timer is set to
\* the earliest that is queued.
LEMMA MemoryLoopKeeps ==
  ASSUME WaitInv, NEW w \in Waiters, MemoryLoop(w)
  PROVE  WaitInv'
<1>1. UNCHANGED <<medium, rowLock, owed>> /\ medium = "memory"
  BY DEF MemoryLoop
<1>2. PICK out : out = Outside
  OBVIOUS
<1>3. Attentive(w, out)
  BY <1>2, AtTop
<1>4. CASE Go(w, Outside) /\ UNCHANGED queued
  BY <1>1, <1>2, <1>3, <1>4, QueueSame, OneMoves DEF Go
<1>5. CASE Take(w, DueFor(0))
  <2>1. PICK S : S = DueFor(0)
    OBVIOUS
  <2>2. QueueShrinks /\ waiter' = [waiter EXCEPT ![w] = out]
    BY <1>2, <1>5, <2>1, TakeShrinks
  <2> QED BY <1>1, <1>3, <2>2, OneMoves
<1>6. CASE /\ DueFor(0) = {} /\ UNCHANGED queued
           /\ Go(w, [waiter[w] EXCEPT !.pc = "arming", !.guard = TRUE, !.timer = NextFor(0)])
  <2>1. PICK x, n : x = waiter[w] /\ n = NextFor(0)
    OBVIOUS
  <2>2. n \in Nat /\ \A t \in DOMAIN queued : n <= queued[t].left \/ n = 0
    BY <1>6, <2>1, NextIsEarliest DEF WaitInv
  <2>3. PICK y : y = [x EXCEPT !.pc = "arming", !.guard = TRUE, !.timer = n]
    OBVIOUS
  <2>4. x \in Waiter
    BY <2>1, StaysAttentive
  <2>5. y \in Waiter /\ y.pc = "arming" /\ y.timer = n
    BY <2>2, <2>3, <2>4 DEF Waiter, Pcs
  <2>6. Attentive(w, y)
    BY <1>1, <2>2, <2>5 DEF Attentive
  <2>7. waiter' = [waiter EXCEPT ![w] = y] /\ QueueShrinks
    BY <1>6, <2>1, <2>3, QueueSame DEF Go
  <2> QED BY <1>1, <2>6, <2>7, OneMoves
<1> QED BY <1>4, <1>5, <1>6 DEF MemoryLoop

\* The checks of the polling brokers' loop, and the taking of the channel.
LEMMA PollLoopKeeps ==
  ASSUME WaitInv, NEW w \in Waiters, PollLoop(w) \/ wakeChan(w)
  PROVE  WaitInv'
<1>1. medium # "memory" /\ UNCHANGED <<medium, rowLock, owed>> /\ QueueShrinks
  <2>1. UNCHANGED <<medium, store>>
    BY DEF PollLoop, wakeChan
  <2>2. medium # "memory"
    BY DEF PollLoop, wakeChan, WaitInv, PlacesOK
  <2> QED BY <2>1, <2>2, QueueSame DEF store
<1>2. PICK x : x = waiter[w]
  OBVIOUS
<1>3. x \in Waiter /\ Attentive(w, Outside)
  BY <1>2, StaysAttentive, AtTop
<1>4. ASSUME NEW pc \in {"checked", "tx"} PROVE Attentive(w, [x EXCEPT !.pc = pc])
  <2>1. PICK z : z = [x EXCEPT !.pc = pc]
    OBVIOUS
  <2>2. z \in Waiter /\ z.pc = pc
    BY <1>3, <2>1 DEF Waiter, Pcs
  <2>3. Attentive(w, z)
    BY <1>1, <2>2 DEF Attentive
  <2> QED BY <2>1, <2>3
<1>5. PICK y : waiter' = [waiter EXCEPT ![w] = y] /\ Attentive(w, y)
  <2>1. waiter' = [waiter EXCEPT ![w] = IF Refused(w) THEN Outside ELSE [x EXCEPT !.pc = "checked"]]
        \/ waiter' = [waiter EXCEPT ![w] = [x EXCEPT !.pc = "tx"]]
    BY <1>2 DEF PollLoop, wakeChan, Go
  <2> QED BY <1>3, <1>4, <2>1
<1> QED BY <1>1, <1>5, OneMoves

\* The claim: a task that no transaction holds was not due, if none was taken.
LEMMA TryClaimKeeps ==
  ASSUME WaitInv, NEW w \in Waiters, TryClaim(w)
  PROVE  WaitInv'
<1>1. UNCHANGED <<medium, rowLock, owed>> /\ waiter[w].pc = "tx"
  BY DEF TryClaim
<1>2. medium # "memory"
  BY <1>1 DEF WaitInv, PlacesOK
<1>3. PICK out : out = Outside
  OBVIOUS
<1>4. Attentive(w, out)
  BY <1>3, AtTop
<1>5. PICK x, back : x = waiter[w] /\ back = waiter[w].age
  OBVIOUS
<1>6. x \in Waiter /\ back \in Nat
  BY <1>5, StaysAttentive DEF Waiter
<1>7. PICK due : due = {t \in DueFor(back) : rowLock[t] # "held"}
  OBVIOUS
<1>8. CASE Go(w, Outside) /\ UNCHANGED queued
  BY <1>1, <1>3, <1>4, <1>8, QueueSame, OneMoves DEF Go
<1>9. CASE Take(w, due)
  <2>1. QueueShrinks /\ waiter' = [waiter EXCEPT ![w] = out]
    BY <1>3, <1>9, TakeShrinks
  <2> QED BY <1>1, <1>4, <2>1, OneMoves
<1>10. CASE /\ due = {} /\ UNCHANGED queued
            /\ Go(w, [waiter[w] EXCEPT !.pc = "decide", !.age = 0, !.timer = NextFor(back)])
  <2>1. PICK n : n = NextFor(back)
    OBVIOUS
  <2>2. n \in Nat /\ \A t \in DOMAIN queued \ DueFor(back) : n <= queued[t].left \/ n = 0
    BY <1>6, <2>1, NextIsEarliest DEF WaitInv
  <2>3. \A t \in DueFor(back) : rowLock[t] # "free"
    BY <1>7, <1>10
  <2>4. PICK y : y = [x EXCEPT !.pc = "decide", !.age = 0, !.timer = n]
    OBVIOUS
  <2>5. y \in Waiter /\ y.pc = "decide" /\ y.timer = n
    BY <1>6, <2>2, <2>4 DEF Waiter, Pcs
  <2>6. Attentive(w, y)
    BY <1>2, <2>2, <2>3, <2>5 DEF Attentive, Hears
  <2>7. waiter' = [waiter EXCEPT ![w] = y] /\ QueueShrinks
    BY <1>5, <1>10, <2>1, <2>4, QueueSame DEF Go
  <2> QED BY <1>1, <2>6, <2>7, OneMoves
<1> QED BY <1>5, <1>7, <1>8, <1>9, <1>10 DEF TryClaim

\* The timer of the select is at most the time to the next task.
LEMMA SleepKeeps ==
  ASSUME WaitInv, NEW w \in Waiters, Sleep(w)
  PROVE  WaitInv'
<1>1. UNCHANGED <<medium, rowLock, owed>> /\ waiter[w].pc = "decide" /\ QueueShrinks
  BY QueueSame DEF Sleep, store
<1>2. PICK x, y : x = waiter[w] /\ y = Slept(w)
  OBVIOUS
<1>3. x \in Waiter /\ Attentive(w, x) /\ x.pc = "decide" /\ x.timer \in Nat
  BY <1>1, <1>2, StaysAttentive DEF Waiter
<1>4. Attentive(w, y)
  <2>1. CASE x.timer = 0
    BY <1>2, <2>1, AtTop DEF Slept
  <2>2. CASE x.timer # 0
    <3>0. PICK k \in Nat : k = x.timer
      BY <1>3
    <3>1. PICK n : n = Min({Poll, k})
      OBVIOUS
    <3>2. n \in Nat /\ n <= x.timer
      <4>1. Poll \in Nat
        BY WaitAssumption
      <4>2. n = IF Poll <= k THEN Poll ELSE k
        BY <3>1, <4>1, OfTwo
      <4> QED BY <3>0, <4>1, <4>2
    <3>3. y = [x EXCEPT !.pc = "asleep", !.timer = n]
      BY <1>2, <2>2, <3>0, <3>1 DEF Slept
    <3>4. y \in Waiter /\ y.pc = "asleep" /\ y.timer = n /\ y.woken = x.woken
      BY <1>3, <3>2, <3>3 DEF Waiter, Pcs
    <3>5. \A t \in DOMAIN queued : queued[t].left \in Int
      BY DEF WaitInv, QueuedOK, Task
    <3> QED BY <1>3, <3>2, <3>4, <3>5 DEF Attentive, Hears
  <2> QED BY <2>1, <2>2
<1>5. waiter' = [waiter EXCEPT ![w] = y]
  BY <1>2 DEF Sleep, Go
<1> QED BY <1>1, <1>4, <1>5, OneMoves

\* The select.
LEMMA SelectKeeps ==
  ASSUME WaitInv, NEW w \in Waiters, Select(w)
  PROVE  WaitInv'
<1>1. UNCHANGED <<medium, rowLock, owed>> /\ QueueShrinks
  BY QueueSame DEF Select, store
<1>2. \E y : Attentive(w, y) /\ waiter' = [waiter EXCEPT ![w] = y]
  <2>1. CASE Go(w, Outside)
    BY <2>1, AtTop, Zenon DEF Go
  <2>2. CASE Go(w, Top(w))
    BY <2>2, AtTop, Zenon DEF Go
  <2> QED BY <2>1, <2>2 DEF Select
<1>3. PICK y : Attentive(w, y) /\ waiter' = [waiter EXCEPT ![w] = y]
  BY <1>2
<1>4. Attentive(w, y)
  BY <1>3
<1>5. waiter' = [waiter EXCEPT ![w] = y]
  BY <1>3
<1> QED BY <1>1, <1>4, <1>5, OneMoves

-------------------------------------------------------------------------------
(* All waiters are told.                                                   *)

\* A broadcast leaves nobody asleep.
LEMMA BroadcastWaiters ==
  ASSUME WaitInv, Broadcast
  PROVE  /\ waiter' \in [Waiters -> Waiter]
         /\ \A w \in Waiters : /\ waiter'[w] = waiter[w] \/ waiter'[w].pc = "loop"
                               /\ waiter'[w].pc # "asleep"
<1>1. \A w \in Waiters : Top(w) \in Waiter /\ Top(w).pc = "loop" /\ waiter[w] \in Waiter
  BY AtTop, StaysAttentive
<1> QED BY <1>1 DEF Broadcast

\* A wake channel that is closed: those who have taken it know.
LEMMA WakeWaiters ==
  ASSUME WaitInv, NEW p, Wake(p)
  PROVE  /\ waiter' \in [Waiters -> Waiter]
         /\ \A w \in Waiters :
              /\ waiter'[w].pc = waiter[w].pc /\ waiter'[w].timer = waiter[w].timer
              /\ waiter[w].woken => waiter'[w].woken
              /\ Home[w] = p /\ waiter[w].pc \in {"decide", "asleep"} => waiter'[w].woken
<1>1. ASSUME NEW w \in Waiters
      PROVE  /\ waiter'[w] \in Waiter
             /\ waiter'[w].pc = waiter[w].pc /\ waiter'[w].timer = waiter[w].timer
             /\ waiter[w].woken => waiter'[w].woken
             /\ Home[w] = p /\ waiter[w].pc \in {"decide", "asleep"} => waiter'[w].woken
  <2>1. PICK x, y : x = waiter[w] /\ y = [x EXCEPT !.woken = TRUE]
    OBVIOUS
  <2>2. x \in Waiter
    BY <2>1, StaysAttentive
  <2>3. y \in Waiter /\ y.pc = x.pc /\ y.timer = x.timer /\ y.woken
    BY <2>1, <2>2 DEF Waiter
  <2>4. waiter'[w] = IF Home[w] = p /\ x.pc \in {"tx", "decide", "asleep"} THEN y ELSE x
    BY <2>1 DEF Wake
  <2> QED BY <2>1, <2>2, <2>3, <2>4
<1>2. waiter' = [w \in Waiters |-> waiter'[w]]
  BY DEF Wake
<1> QED BY <1>1, <1>2

\* The guard broadcasts.
LEMMA GuardBroadcastKeeps ==
  ASSUME WaitInv, NEW w, GuardBroadcast(w)
  PROVE  WaitInv'
<1>1. Broadcast /\ UNCHANGED <<medium, queued, rowLock, owed>>
  BY DEF GuardBroadcast, store
<1> QED BY <1>1, BroadcastWaiters DEF WaitInv, QueuedOK, PlacesOK, HearsAll

\* A transaction takes the lock of a row, or gives it back.
LEMMA RowLockKeeps ==
  ASSUME WaitInv, NEW t, LockRow(t) \/ RollBack(t)
  PROVE  WaitInv'
<1>1. /\ \A u \in Tasks : rowLock'[u] = "free" => rowLock[u] = "free"
      /\ rowLock' \in [Tasks -> {"free", "held", "was"}]
  BY DEF WaitInv, LockRow, RollBack
<1> QED BY <1>1 DEF WaitInv, QueuedOK, PlacesOK, HearsAll, LockRow, RollBack

\* A writer commits: in memory everybody is woken at once, elsewhere wakeAll is
\* owed.
LEMMA PutKeeps ==
  ASSUME WaitInv, NEW p \in Procs, NEW t \in Tasks, NEW delay \in Delays, Put(p, t, delay)
  PROVE  WaitInv'
<1>1. PICK new : new = [left |-> delay, by |-> p]
  OBVIOUS
<1>2. new \in Task /\ new.left < Never /\ new.by = p
  BY <1>1, NeverBounds DEF Task
<1>3. /\ DOMAIN queued' = DOMAIN queued \cup {t} /\ t \notin DOMAIN queued /\ queued'[t] = new
      /\ \A u \in DOMAIN queued : queued'[u] = queued[u]
      /\ queued' = [u \in DOMAIN queued' |-> queued'[u]]
  BY <1>1 DEF Put
<1>4. QueuedOK'
  <2>1. \A u \in DOMAIN queued' : queued'[u] \in Task /\ queued'[u].left < Never
    BY <1>2, <1>3 DEF WaitInv, QueuedOK
  <2> QED BY <1>3, <2>1 DEF WaitInv, QueuedOK
<1>5. UNCHANGED <<medium, rowLock>>
  BY DEF Put
<1>6. CASE medium = "memory" /\ MutexFree /\ Broadcast /\ UNCHANGED owed
  <2>1. /\ waiter' \in [Waiters -> Waiter]
        /\ \A w \in Waiters : (waiter'[w] = waiter[w] \/ waiter'[w].pc = "loop") /\ waiter'[w].pc # "asleep"
    BY <1>6, BroadcastWaiters
  <2>2. \A w \in Waiters : waiter'[w].pc \notin {"checked", "tx", "decide", "asleep", "arming"}
    BY <1>6, <2>1 DEF WaitInv, PlacesOK, MutexFree
  <2> QED BY <1>4, <1>5, <1>6, <2>1, <2>2 DEF WaitInv, PlacesOK, HearsAll
<1>7. CASE medium # "memory" /\ owed' = owed \cup {<<p, t>>} /\ UNCHANGED waiter
  <2>1. HearsAll'
    <3>1. SUFFICES ASSUME NEW v \in Waiters, NEW u \in DOMAIN queued',
                          queued'[u].by = Home[v], rowLock[u] = "free"
                   PROVE  /\ waiter[v].pc \in {"decide", "asleep"} =>
                               Hears(waiter[v], Home[v], u, queued'[u].left, owed')
                          /\ waiter[v].pc = "arming" =>
                               waiter[v].timer <= queued'[u].left \/ waiter[v].timer = 0
      BY <1>5, <1>7 DEF HearsAll
    <3>2. waiter[v].pc # "arming"
      BY <1>7 DEF WaitInv, PlacesOK
    <3>3. CASE u = t
      BY <1>2, <1>3, <1>7, <3>1, <3>2, <3>3 DEF Hears
    <3>4. CASE u # t
      <4>1. u \in DOMAIN queued /\ queued'[u] = queued[u]
        BY <1>3, <3>4
      <4>2. waiter[v].pc \in {"decide", "asleep"} => Hears(waiter[v], Home[v], u, queued[u].left, owed)
        BY <3>1, <4>1 DEF WaitInv, HearsAll
      <4> QED BY <1>7, <3>2, <4>1, <4>2 DEF Hears
    <3> QED BY <3>3, <3>4
  <2> QED BY <1>4, <1>5, <1>7, <2>1 DEF WaitInv, PlacesOK
<1> QED BY <1>6, <1>7 DEF Put

\* The wake channel of a process is closed, after a commit or by Close.
LEMMA WakeKeeps ==
  ASSUME WaitInv, NEW p, Wake(p), UNCHANGED <<medium, queued, rowLock>>,
         \A q, t : q # p /\ <<q, t>> \in owed => <<q, t>> \in owed'
  PROVE  WaitInv'
<1>1. /\ waiter' \in [Waiters -> Waiter]
      /\ \A w \in Waiters :
           /\ waiter'[w].pc = waiter[w].pc /\ waiter'[w].timer = waiter[w].timer
           /\ waiter[w].woken => waiter'[w].woken
           /\ Home[w] = p /\ waiter[w].pc \in {"decide", "asleep"} => waiter'[w].woken
  BY WakeWaiters
<1>2. QueuedOK' /\ PlacesOK'
  BY <1>1 DEF WaitInv, QueuedOK, PlacesOK
<1>3. HearsAll'
  <2>1. SUFFICES ASSUME NEW v \in Waiters, NEW u \in DOMAIN queued,
                        queued[u].by = Home[v], rowLock[u] = "free"
                 PROVE  /\ waiter'[v].pc \in {"decide", "asleep"} =>
                             Hears(waiter'[v], Home[v], u, queued[u].left, owed')
                        /\ waiter'[v].pc = "arming" =>
                             waiter'[v].timer <= queued[u].left \/ waiter'[v].timer = 0
    BY DEF HearsAll
  <2>2. /\ waiter[v].pc \in {"decide", "asleep"} => Hears(waiter[v], Home[v], u, queued[u].left, owed)
        /\ waiter[v].pc = "arming" => waiter[v].timer <= queued[u].left \/ waiter[v].timer = 0
    BY <2>1 DEF WaitInv, HearsAll
  <2>3. CASE Home[v] = p
    BY <1>1, <2>2, <2>3 DEF Hears
  <2>4. CASE Home[v] # p
    <3>1. <<Home[v], u>> \in owed => <<Home[v], u>> \in owed'
      BY <2>4
    <3> QED BY <1>1, <2>2, <3>1 DEF Hears
  <2> QED BY <2>3, <2>4
<1> QED BY <1>1, <1>2, <1>3 DEF WaitInv

\* wakeAll.
LEMMA WakeAllKeeps ==
  ASSUME WaitInv, NEW p, NEW t, wakeAll(p, t)
  PROVE  WaitInv'
<1>1. Wake(p) /\ UNCHANGED <<medium, queued, rowLock>> /\ owed' = owed \ {<<p, t>>}
  BY DEF wakeAll
<1>2. \A q, u : q # p /\ <<q, u>> \in owed => <<q, u>> \in owed'
  BY <1>1
<1>3. Wake(p) /\ UNCHANGED <<medium, queued, rowLock>>
  BY <1>1
<1> QED BY <1>2, <1>3, WakeKeeps

\* Close.
LEMMA CloseKeeps ==
  ASSUME WaitInv, NEW p, Close(p)
  PROVE  WaitInv'
<1>1. UNCHANGED <<medium, queued, rowLock, owed>>
  BY DEF Close
<1>2. CASE Broadcast
  BY <1>1, <1>2, BroadcastWaiters DEF WaitInv, QueuedOK, PlacesOK, HearsAll
<1>3. CASE Wake(p)
  BY <1>1, <1>3, WakeKeeps
<1> QED BY <1>2, <1>3 DEF Close

\* The clock: a timer and the task it was set for go on together.
LEMMA TickKeeps ==
  ASSUME WaitInv, Tick
  PROVE  WaitInv'
<1>1. ASSUME NEW t \in DOMAIN queued
      PROVE  /\ queued'[t] \in Task /\ queued'[t].by = queued[t].by
             /\ queued[t].left \in Int /\ queued[t].left < Never
             /\ queued'[t].left >= queued[t].left - 1 /\ queued'[t].left < Never
  <2>1. PICK q, n : q = queued[t] /\ n = Max({-MaxLag, q.left - 1})
    OBVIOUS
  <2>2. q \in Task /\ q.left \in Int /\ q.left < Never
    BY <2>1 DEF WaitInv, QueuedOK, Task
  <2>3. -MaxLag \in Int /\ q.left - 1 \in Int /\ MaxLag \in Nat /\ Never \in Nat
    BY <2>2, WaitAssumption, NeverBounds
  <2>4. PICK a \in Int, b \in Int : a = -MaxLag /\ b = q.left - 1
    BY <2>3
  <2>5. n = IF a >= b THEN a ELSE b
    BY <2>1, <2>4, OfTwo
  <2>6. n \in Int /\ n >= q.left - 1 /\ n < Never
    <3>1. Never > 0
      BY NeverBounds
    <3> QED BY <2>2, <2>3, <2>4, <2>5, <3>1
  <2>7. queued'[t] = [q EXCEPT !.left = n]
    BY <2>1 DEF Tick
  <2>8. [q EXCEPT !.left = n] \in Task /\ [q EXCEPT !.left = n].left = n /\ [q EXCEPT !.left = n].by = q.by
    BY <2>2, <2>6 DEF Task
  <2> QED BY <2>1, <2>2, <2>6, <2>7, <2>8
<1>2. DOMAIN queued' = DOMAIN queued /\ queued' = [t \in DOMAIN queued' |-> queued'[t]]
  BY DEF Tick
<1>3. QueuedOK'
  BY <1>1, <1>2 DEF WaitInv, QueuedOK
<1>4. ASSUME NEW w \in Waiters
      PROVE  /\ waiter'[w] \in Waiter
             /\ waiter'[w].pc = waiter[w].pc /\ waiter'[w].woken = waiter[w].woken
             /\ waiter[w].timer \in Nat
             /\ waiter'[w].timer = IF waiter[w].timer \in {0, Never} THEN waiter[w].timer
                                   ELSE waiter[w].timer - 1
  <2>1. PICK x, n, a : /\ x = waiter[w] /\ n = (IF x.timer \in {0, Never} THEN x.timer ELSE x.timer - 1)
                       /\ a = (IF x.pc = "tx" THEN x.age + 1 ELSE 0)
    OBVIOUS
  <2>2. x \in Waiter /\ x.timer \in Nat /\ x.age \in Nat
    BY <2>1, StaysAttentive DEF Waiter
  <2>3. n \in Nat /\ a \in Nat
    BY <2>1, <2>2
  <2>4. PICK y : y = [x EXCEPT !.timer = n, !.age = a]
    OBVIOUS
  <2>5. y \in Waiter /\ y.pc = x.pc /\ y.woken = x.woken /\ y.timer = n
    BY <2>2, <2>3, <2>4 DEF Waiter
  <2>6. waiter'[w] = y
    BY <2>1, <2>4 DEF Tick
  <2> QED BY <2>1, <2>2, <2>5, <2>6
<1>5. waiter' \in [Waiters -> Waiter]
  <2>1. waiter' = [w \in Waiters |-> waiter'[w]]
    BY DEF Tick
  <2> QED BY <1>4, <2>1
<1>6. UNCHANGED <<medium, rowLock, owed>>
  BY DEF Tick
<1>7. PlacesOK'
  BY <1>4, <1>6 DEF WaitInv, PlacesOK
<1>8. HearsAll'
  <2>1. SUFFICES ASSUME NEW v \in Waiters, NEW u \in DOMAIN queued,
                        queued'[u].by = Home[v], rowLock[u] = "free"
                 PROVE  /\ waiter'[v].pc \in {"decide", "asleep"} =>
                             Hears(waiter'[v], Home[v], u, queued'[u].left, owed)
                        /\ waiter'[v].pc = "arming" =>
                             waiter'[v].timer <= queued'[u].left \/ waiter'[v].timer = 0
    BY <1>2, <1>6 DEF HearsAll
  <2>2. /\ waiter[v].pc \in {"decide", "asleep"} => Hears(waiter[v], Home[v], u, queued[u].left, owed)
        /\ waiter[v].pc = "arming" => waiter[v].timer <= queued[u].left \/ waiter[v].timer = 0
    BY <1>1, <2>1 DEF WaitInv, HearsAll
  <2>3. PICK m, n, k, l : /\ m = waiter[v].timer /\ n = waiter'[v].timer
                          /\ k = queued[u].left /\ l = queued'[u].left
    OBVIOUS
  <2>4. /\ m \in Nat /\ n = (IF m \in {0, Never} THEN m ELSE m - 1) /\ Never \in Nat
        /\ k \in Int /\ k < Never /\ l >= k - 1 /\ l \in Int
    BY <1>1, <1>4, <2>1, <2>3, NeverBounds DEF Task
  <2>5. m <= k \/ m = 0 => n <= l \/ n = 0
    BY <2>4
  <2>6. waiter[v].timer <= queued[u].left \/ waiter[v].timer = 0 =>
          waiter'[v].timer <= queued'[u].left \/ waiter'[v].timer = 0
    BY <2>3, <2>5
  <2>7. waiter'[v].pc = waiter[v].pc /\ waiter'[v].woken = waiter[v].woken
    BY <1>4
  <2> QED BY <2>2, <2>6, <2>7 DEF Hears
<1> QED BY <1>3, <1>5, <1>6, <1>7, <1>8 DEF WaitInv

-------------------------------------------------------------------------------
(* The theorem.                                                            *)

\* Nobody waits and nothing is queued.
LEMMA WaitInit_Inv ==
  ASSUME WaitInit PROVE WaitInv
<1>1. Outside \in Waiter /\ Outside.pc = "idle"
  BY NeverBounds DEF Outside, Waiter, Pcs
<1> HIDE DEF Outside
<1>2. QueuedOK
  BY DEF WaitInit, QueuedOK
<1> QED BY <1>1, <1>2 DEF WaitInit, WaitInv, PlacesOK, HearsAll

\* Every step of every waiter, guard, writer and of the clock preserves the
\* invariant.
LEMMA WaitNext_Inv ==
  ASSUME WaitInv, WaitNext PROVE WaitInv'
<1>1. ASSUME NEW w \in Waiters,
             \/ Call(w) \/ CancelContext(w)
             \/ MemoryLoop(w) \/ WaiterStep(w) \/ GuardFires(w) \/ GuardBroadcast(w)
      PROVE  WaitInv'
  BY <1>1, CallKeeps, CancelContextKeeps, MemoryLoopKeeps, CondWaitKeeps, PollLoopKeeps,
     TryClaimKeeps, SleepKeeps, SelectKeeps, GuardFiresKeeps, GuardBroadcastKeeps DEF WaiterStep
<1>2. ASSUME NEW p, Close(p) PROVE WaitInv'
  BY <1>2, CloseKeeps
<1>3. ASSUME NEW p \in Procs, NEW t \in Tasks, wakeAll(p, t) \/ \E delay \in Delays : Put(p, t, delay)
      PROVE  WaitInv'
  BY <1>3, WakeAllKeeps, PutKeeps
<1>4. ASSUME NEW t \in Tasks, LockRow(t) \/ RollBack(t) PROVE WaitInv'
  BY <1>4, RowLockKeeps
<1> QED BY <1>1, <1>2, <1>3, <1>4, TickKeeps DEF WaitNext

\* On every kind of broker: a waiter that has gone to sleep after a claim that
\* found nothing is woken by its timer no later than any task of its process
\* becomes due, or by a wake signal that was given or is owed; whatever writers,
\* closings, contexts, rolled back transactions and clock ticks came between
\* the claim and the sleep ("take the signal first, then try").
THEOREM SignalsNotLost == WaitSpec => []NoLostSignal
<1>1. WaitInit => WaitInv
  BY WaitInit_Inv
<1>2. WaitInv /\ [WaitNext]_waitVars => WaitInv'
  <2>1. CASE UNCHANGED waitVars
    BY <2>1 DEF waitVars, WaitInv, QueuedOK, PlacesOK, HearsAll
  <2> QED BY <2>1, WaitNext_Inv
<1>3. WaitInv => NoLostSignal
  <2>1. SUFFICES ASSUME WaitInv, NEW w \in Waiters, NEW t \in DOMAIN queued,
                        waiter[w].pc = "asleep", queued[t].by = Home[w], rowLock[t] = "free"
                 PROVE  \/ waiter[w].woken \/ <<Home[w], t>> \in owed
                        \/ waiter[w].timer <= Max({0, queued[t].left})
    BY DEF NoLostSignal
  <2>2. PICK n, k : n = queued[t].left /\ k = waiter[w].timer
    OBVIOUS
  <2>3. n \in Int /\ k \in Nat
    BY <2>1, <2>2 DEF WaitInv, QueuedOK, Task, Waiter
  <2>4. Max({0, n}) = IF 0 >= n THEN 0 ELSE n
    BY <2>3, OfTwo
  <2>5. k <= n \/ k = 0 => k <= Max({0, n})
    BY <2>3, <2>4
  <2>6. waiter[w].woken \/ <<Home[w], t>> \in owed \/ k <= n \/ k = 0
    BY <2>1, <2>2 DEF WaitInv, HearsAll, Hears
  <2> QED BY <2>2, <2>5, <2>6
<1> QED BY <1>1, <1>2, <1>3, PTL DEF WaitSpec
===============================================================================
