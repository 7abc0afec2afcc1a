--------------------------- MODULE RedisLimiterProofs ---------------------------
(* The shared concurrency slots, for any number of processes, slots, crashes *)
(* and lost calls.  The argument: a slot is in exactly one of four places,   *)
(* held (once), being released before or after its renewal was joined, or    *)
(* given up; a held slot that is renewed in time is counted by every         *)
(* acquisition, so the count that leaves room bounds the holders too; and    *)
(* no score, in Redis or on its way, is later than a TTL after the slot was  *)
(* given up, because the renewal has ended by then.                          *)
EXTENDS RedisLimiter, FiniteSetTheorems, SequenceTheorems, TLAPS

LimiterTypeOK ==
  /\ clock \in Nat /\ made \in Nat
  /\ DOMAIN sem \subseteq 1..made
  /\ \A m \in DOMAIN sem : sem[m] \in Nat
  /\ held \in [Procs -> Seq(1..made)]
  /\ stopping \subseteq 1..made /\ joined \subseteq 1..made /\ released \subseteq 1..made
  /\ \A z \in late : z.member \in 1..made /\ z.score \in Nat
  /\ \A m \in released : gone[m] \in Nat

\* No slot is filed twice, in one process or in two.
HeldOnce(h) ==
  \A p, q \in Procs : \A i \in DOMAIN h[p], j \in DOMAIN h[q] :
     h[p][i] = h[q][j] => p = q /\ i = j

\* A slot that is being released or was given up is in use no more, and its
\* release goes through stopping, joined and released in this order.
PlacesApart ==
  /\ InUse(held) \cap (stopping \cup joined \cup released) = {}
  /\ stopping \cap (joined \cup released) = {}
  /\ joined \cap released = {}

PlacesInv == LimiterTypeOK /\ HeldOnce(held) /\ PlacesApart

\* A slot in use is known to Redis and has not expired.
Alive == \A m \in InUse(held) : m \in DOMAIN sem /\ sem[m] > clock

\* What holds when every holder renews in time.
TimelyInv == TimelyRenew => Alive /\ ConcurrencyBound

\* No score was computed in the future, nor after the slot was given up.
ScoresDated ==
  /\ \A m \in DOMAIN sem : sem[m] <= clock + TTL
  /\ \A z \in late : z.score <= clock + TTL
  /\ \A m \in released : gone[m] <= clock
  /\ \A z \in late : z.member \in released => z.score <= gone[z.member] + TTL

-------------------------------------------------------------------------------
\* Membership in InUse.
LEMMA InUseMember ==
  ASSUME NEW h, NEW m
  PROVE  m \in InUse(h) <=> \E p \in Procs : \E i \in DOMAIN h[p] : m = h[p][i]
  BY DEF InUse, Range

\* The slots in use are among those made.
LEMMA InUseMade ==
  ASSUME LimiterTypeOK
  PROVE  InUse(held) \subseteq 1..made
  BY InUseMember DEF LimiterTypeOK

\* Giving up slots records the time and leaves the other records alone.
LEMMA GivenUp ==
  ASSUME NEW S, GiveUp(S)
  PROVE  /\ released' = released \cup S
         /\ \A m \in S : gone'[m] = clock
         /\ \A m \in released \ S : gone'[m] = gone[m]
  BY DEF GiveUp, released

\* The sorted set after the three scripts.
LEMMA SemScripts ==
  ASSUME LimiterTypeOK, NEW m
  PROVE  /\ DOMAIN Pruned = {n \in DOMAIN sem : sem[n] > clock}
         /\ \A n \in DOMAIN Pruned : Pruned[n] = sem[n]
         /\ DOMAIN Add(Pruned, m) = DOMAIN Pruned \cup {m}
         /\ Add(Pruned, m)[m] = clock + TTL
         /\ \A n \in DOMAIN Pruned \ {m} : Add(Pruned, m)[n] = sem[n]
         /\ DOMAIN Add(sem, m) = DOMAIN sem \cup {m}
         /\ Add(sem, m)[m] = clock + TTL
         /\ \A n \in DOMAIN sem \ {m} : Add(sem, m)[n] = sem[n]
         /\ DOMAIN Remove(sem, m) = DOMAIN sem \ {m}
         /\ \A n \in DOMAIN sem \ {m} : Remove(sem, m)[n] = sem[n]
<1>1. /\ DOMAIN Pruned = {n \in DOMAIN sem : sem[n] > clock}
      /\ \A n \in DOMAIN Pruned : Pruned[n] = sem[n]
  BY DEF Pruned, Restrict
<1>2. /\ DOMAIN Add(sem, m) = DOMAIN sem \cup {m}
      /\ Add(sem, m)[m] = clock + TTL
      /\ \A n \in DOMAIN sem \ {m} : Add(sem, m)[n] = sem[n]
  BY DEF Add, Put
<1>3. /\ DOMAIN Add(Pruned, m) = DOMAIN Pruned \cup {m}
      /\ Add(Pruned, m)[m] = clock + TTL
      /\ \A n \in DOMAIN Pruned \ {m} : Add(Pruned, m)[n] = Pruned[n]
  BY DEF Add, Put
<1>4. /\ DOMAIN Remove(sem, m) = DOMAIN sem \ {m}
      /\ \A n \in DOMAIN sem \ {m} : Remove(sem, m)[n] = sem[n]
  BY DEF Remove, Restrict
<1>5. QED
  BY <1>1, <1>2, <1>3, <1>4

\* A renewed or new slot is alive.
LEMMA DeadlineLater ==
  ASSUME LimiterTypeOK
  PROVE  clock + TTL \in Nat /\ clock + TTL > clock
  BY LimiterAssumption DEF LimiterTypeOK

\* startRenew files a fresh slot.
LEMMA HeldAppend ==
  ASSUME PlacesInv, NEW p \in Procs, NEW h, h = [held EXCEPT ![p] = Append(@, made + 1)]
  PROVE  /\ h \in [Procs -> Seq(1..(made + 1))]
         /\ InUse(h) = InUse(held) \cup {made + 1}
         /\ HeldOnce(h)
<1>1. /\ held \in [Procs -> Seq(1..made)] /\ made \in Nat
      /\ \A q \in Procs : held[q] \in Seq(1..made)
  BY DEF PlacesInv, LimiterTypeOK
<1>2. /\ h[p] = Append(held[p], made + 1)
      /\ \A q \in Procs \ {p} : h[q] = held[q]
  BY <1>1
<1> DEFINE n == Len(held[p])
<1>3. /\ n \in Nat /\ DOMAIN held[p] = 1..n /\ DOMAIN h[p] = 1..(n + 1)
      /\ h[p][n + 1] = made + 1
      /\ \A i \in 1..n : h[p][i] = held[p][i]
  BY <1>1, <1>2
<1>4. \A q \in Procs : \A i \in DOMAIN held[q] : held[q][i] \in 1..made
  BY <1>1
<1>5. h \in [Procs -> Seq(1..(made + 1))]
  <2>1. \A q \in Procs : held[q] \in Seq(1..(made + 1))
    BY <1>1
  <2>2. made + 1 \in 1..(made + 1)
    BY <1>1
  <2>3. Append(held[p], made + 1) \in Seq(1..(made + 1))
    BY <2>1, <2>2
  <2>4. QED
    BY <1>1, <2>1, <2>3
<1> HIDE DEF n
<1>6. InUse(h) = InUse(held) \cup {made + 1}
  <2>1. ASSUME NEW m PROVE m \in InUse(h) <=> m \in InUse(held) \/ m = made + 1
    <3>1. CASE m = made + 1
      <4>1. n + 1 \in DOMAIN h[p] /\ m = h[p][n + 1]
        BY <1>3, <3>1
      <4>2. QED
        BY <4>1, <3>1, InUseMember
    <3>2. CASE m # made + 1
      <4>1. ASSUME NEW q \in Procs, NEW i \in DOMAIN h[q], m = h[q][i]
            PROVE  i \in DOMAIN held[q] /\ m = held[q][i]
        BY <1>2, <1>3, <3>2, <4>1
      <4>2. ASSUME NEW q \in Procs, NEW i \in DOMAIN held[q], m = held[q][i]
            PROVE  i \in DOMAIN h[q] /\ m = h[q][i]
        BY <1>2, <1>3, <4>2
      <4>3. (\E q \in Procs : \E i \in DOMAIN h[q] : m = h[q][i])
            <=> (\E q \in Procs : \E i \in DOMAIN held[q] : m = held[q][i])
        BY <4>1, <4>2
      <4>4. /\ m \in InUse(h) <=> \E q \in Procs : \E i \in DOMAIN h[q] : m = h[q][i]
            /\ m \in InUse(held) <=> \E q \in Procs : \E i \in DOMAIN held[q] : m = held[q][i]
        BY DEF InUse, Range
      <4>5. QED
        BY <3>2, <4>3, <4>4
    <3>3. QED
      BY <3>1, <3>2
  <2>2. QED
    BY <2>1
<1>7. HeldOnce(h)
  <2>1. SUFFICES ASSUME NEW q \in Procs, NEW r \in Procs, NEW i \in DOMAIN h[q], NEW j \in DOMAIN h[r],
                        h[q][i] = h[r][j]
                 PROVE  q = r /\ i = j
    BY DEF HeldOnce
  <2>2. ASSUME NEW s \in Procs, NEW k \in DOMAIN h[s]
        PROVE  \/ k \in DOMAIN held[s] /\ h[s][k] = held[s][k] /\ h[s][k] # made + 1
               \/ s = p /\ k = n + 1 /\ h[s][k] = made + 1
    BY <1>1, <1>2, <1>3, <1>4
  <2>3. QED
    BY <2>1, <2>2 DEF PlacesInv, HeldOnce
<1>8. QED
  BY <1>5, <1>6, <1>7

\* A process gives up slots from the end of its list: the newest, or all.
LEMMA HeldShrink ==
  ASSUME PlacesInv, NEW p \in Procs, NEW k \in 0..Len(held[p]),
         NEW h, h = [held EXCEPT ![p] = SubSeq(@, 1, k)]
  PROVE  /\ h \in [Procs -> Seq(1..made)]
         /\ InUse(h) \subseteq InUse(held)
         /\ \A i \in (k + 1)..Len(held[p]) : held[p][i] \notin InUse(h)
         /\ HeldOnce(h)
<1>1. /\ held \in [Procs -> Seq(1..made)] /\ made \in Nat
      /\ \A q \in Procs : held[q] \in Seq(1..made)
  BY DEF PlacesInv, LimiterTypeOK
<1>2. /\ h[p] = SubSeq(held[p], 1, k)
      /\ \A q \in Procs \ {p} : h[q] = held[q]
  BY <1>1
<1>3. Len(held[p]) \in Nat /\ DOMAIN held[p] = 1..Len(held[p])
  BY <1>1
<1>4. /\ SubSeq(held[p], 1, k) \in Seq(1..made)
      /\ DOMAIN SubSeq(held[p], 1, k) = 1..k
      /\ \A i \in 1..k : SubSeq(held[p], 1, k)[i] = held[p][i]
  BY <1>1, <1>3
<1>5. h \in [Procs -> Seq(1..made)]
  BY <1>1, <1>4
<1>6. ASSUME NEW q \in Procs, NEW i \in DOMAIN h[q]
      PROVE  i \in DOMAIN held[q] /\ h[q][i] = held[q][i] /\ (q = p => i <= k)
  BY <1>2, <1>3, <1>4
<1>7. InUse(h) \subseteq InUse(held)
  <2>1. SUFFICES ASSUME NEW m \in InUse(h) PROVE m \in InUse(held)
    OBVIOUS
  <2>2. PICK q \in Procs : \E i \in DOMAIN h[q] : m = h[q][i]
    <3>1. m \in InUse(h) <=> \E q \in Procs : \E i \in DOMAIN h[q] : m = h[q][i]
      BY DEF InUse, Range
    <3>2. QED
      BY <2>1, <3>1
  <2>3. \E i \in DOMAIN held[q] : m = held[q][i]
    BY <1>6, <2>2
  <2>4. QED
    BY <2>3, InUseMember
<1>8. HeldOnce(h)
  BY <1>6 DEF PlacesInv, HeldOnce
<1>9. ASSUME NEW i \in (k + 1)..Len(held[p]) PROVE held[p][i] \notin InUse(h)
  <2>1. SUFFICES ASSUME NEW q \in Procs, NEW j \in DOMAIN h[q], held[p][i] = h[q][j] PROVE FALSE
    BY InUseMember
  <2>2. i \in DOMAIN held[p] /\ i > k
    BY <1>3
  <2>3. held[p][i] = held[q][j] /\ j \in DOMAIN held[q] /\ (q = p => j <= k)
    BY <1>6, <2>1
  <2>4. q = p /\ i = j
    BY <2>2, <2>3 DEF PlacesInv, HeldOnce
  <2>5. QED
    BY <2>2, <2>3, <2>4
<1>10. QED
  BY <1>5, <1>7, <1>8, <1>9

-------------------------------------------------------------------------------
(* The steps.                                                              *)

\* Acquire, with and without an answer: the dead slots are dropped, the fresh
\* one is added alive, and no other changes.
LEMMA AcquireSem ==
  ASSUME LimiterTypeOK, sem' = Add(Pruned, made + 1), made' = made + 1
  PROVE  /\ made' \in Nat /\ 1..made \subseteq 1..made'
         /\ DOMAIN sem' \subseteq 1..made' /\ \A m \in DOMAIN sem' : sem'[m] \in Nat
         /\ made + 1 \in DOMAIN sem' /\ sem'[made + 1] > clock
         /\ \A m \in 1..made : /\ m \in DOMAIN sem' <=> m \in DOMAIN sem /\ sem[m] > clock
                               /\ m \in DOMAIN sem' => sem'[m] = sem[m]
<1>1. /\ DOMAIN sem \subseteq 1..made /\ made \in Nat /\ clock \in Nat
      /\ \A m \in DOMAIN sem : sem[m] \in Nat
  BY DEF LimiterTypeOK
<1>2. /\ DOMAIN sem' = {n \in DOMAIN sem : sem[n] > clock} \cup {made + 1}
      /\ sem'[made + 1] = clock + TTL
      /\ \A n \in {n \in DOMAIN sem : sem[n] > clock} \ {made + 1} : sem'[n] = sem[n]
  BY SemScripts
<1>3. QED
  BY <1>1, <1>2, DeadlineLater

\* Every step keeps each slot in one place.
LEMMA PlacesStep ==
  ASSUME PlacesInv, [LimiterNext]_limiterVars
  PROVE  PlacesInv'
<1>0. LimiterTypeOK /\ HeldOnce(held) /\ PlacesApart /\ InUse(held) \subseteq 1..made
  BY InUseMade DEF PlacesInv
<1>1. ASSUME NEW p \in Procs, Acquire(p) PROVE PlacesInv'
  <2>1. /\ made' = made + 1 /\ sem' = Add(Pruned, made + 1)
        /\ held' = [held EXCEPT ![p] = Append(@, made + 1)]
        /\ UNCHANGED <<clock, stopping, joined, late, gone>>
    BY <1>1 DEF Acquire
  <2>2. /\ held' \in [Procs -> Seq(1..made')] /\ InUse(held') = InUse(held) \cup {made + 1}
        /\ HeldOnce(held')
    BY <2>1, HeldAppend
  <2>3. LimiterTypeOK'
    BY <1>0, <2>1, <2>2, AcquireSem DEF LimiterTypeOK, released
  <2>4. made + 1 \notin stopping \cup joined \cup released
    BY <1>0 DEF LimiterTypeOK, released
  <2>5. PlacesApart'
    BY <1>0, <2>1, <2>2, <2>4 DEF PlacesApart, released
  <2>6. QED
    BY <2>2, <2>3, <2>5 DEF PlacesInv
<1>2. ASSUME NEW p \in Procs, AcquireFull(p) PROVE PlacesInv'
  <2>1. sem' = Pruned /\ UNCHANGED <<clock, held, stopping, joined, late, made, gone>>
    BY <1>2 DEF AcquireFull
  <2>2. LimiterTypeOK'
    BY <1>0, <2>1, SemScripts DEF LimiterTypeOK, released
  <2>3. QED
    BY <1>0, <2>1, <2>2 DEF PlacesInv, PlacesApart, HeldOnce, released
<1>3. ASSUME NEW p \in Procs, AcquireLost(p) PROVE PlacesInv'
  <2>1. /\ made' = made + 1 /\ sem' = Add(Pruned, made + 1)
        /\ released' = released \cup {made + 1}
        /\ UNCHANGED <<clock, held, stopping, joined, late>>
        /\ \A m \in released' : gone'[m] \in Nat
    BY <1>0, <1>3, GivenUp DEF AcquireLost, LimiterTypeOK
  <2>2. held \in [Procs -> Seq(1..made')]
    BY <1>0, <2>1 DEF LimiterTypeOK, released
  <2>3. LimiterTypeOK'
    BY <1>0, <2>1, <2>2, AcquireSem DEF LimiterTypeOK, released
  <2>4. made + 1 \notin stopping \cup joined \cup InUse(held)
    BY <1>0 DEF LimiterTypeOK, released
  <2>5. PlacesApart'
    BY <1>0, <2>1, <2>4 DEF PlacesApart, released
  <2>6. QED
    BY <1>0, <2>1, <2>3, <2>5 DEF PlacesInv, HeldOnce
<1>4. ASSUME NEW p \in Procs, Release(p) PROVE PlacesInv'
  <2> DEFINE n == Len(held[p])
  <2>1. /\ held[p] # <<>>
        /\ held' = [held EXCEPT ![p] = SubSeq(@, 1, n - 1)]
        /\ stopping' = stopping \cup {held[p][n]}
        /\ UNCHANGED <<clock, sem, joined, late, made, gone>>
    BY <1>4 DEF Release
  <2>2. held[p] \in Seq(1..made)
    BY <1>0 DEF LimiterTypeOK, released
  <2>3. n - 1 \in 0..n /\ n \in ((n - 1) + 1)..n /\ n \in DOMAIN held[p] /\ held[p][n] \in 1..made
    <3>1. n \in Nat /\ DOMAIN held[p] = 1..n
      BY <2>2
    <3>2. n # 0
      BY <2>1, <2>2, EmptySeq
    <3>3. \A i \in DOMAIN held[p] : held[p][i] \in 1..made
      BY <2>2, <3>1, ElementOfSeq
    <3> HIDE DEF n
    <3>4. n - 1 \in 0..n /\ n \in ((n - 1) + 1)..n /\ n \in DOMAIN held[p]
      BY <3>1, <3>2
    <3>5. QED
      BY <3>3, <3>4
  <2> HIDE DEF n
  <2>4. /\ held' \in [Procs -> Seq(1..made)] /\ InUse(held') \subseteq InUse(held)
        /\ held[p][n] \notin InUse(held') /\ HeldOnce(held')
    BY <2>1, <2>3, HeldShrink DEF n
  <2>5. held[p][n] \in InUse(held)
    BY <2>3, InUseMember
  <2>6. PlacesApart'
    BY <1>0, <2>1, <2>4, <2>5 DEF PlacesApart, released
  <2>7. LimiterTypeOK'
    BY <1>0, <2>1, <2>3, <2>4 DEF LimiterTypeOK, released
  <2>8. QED
    BY <2>4, <2>6, <2>7 DEF PlacesInv
<1>5. ASSUME NEW p \in Procs, Crash(p) PROVE PlacesInv'
  <2>1. /\ held' = [held EXCEPT ![p] = <<>>]
        /\ released' = released \cup Range(held[p])
        /\ UNCHANGED <<clock, sem, stopping, joined, late, made>>
        /\ \A m \in released' : gone'[m] \in Nat
    BY <1>0, <1>5, GivenUp DEF Crash, LimiterTypeOK
  <2>2. held[p] \in Seq(1..made)
    BY <1>0 DEF LimiterTypeOK, released
  <2>3. 0 \in 0..Len(held[p]) /\ SubSeq(held[p], 1, 0) = <<>> /\ DOMAIN held[p] = (0 + 1)..Len(held[p])
    BY <2>2
  <2>4. /\ held' \in [Procs -> Seq(1..made)] /\ InUse(held') \subseteq InUse(held)
        /\ \A i \in DOMAIN held[p] : held[p][i] \notin InUse(held')
        /\ HeldOnce(held')
    BY <2>1, <2>3, HeldShrink
  <2>5. Range(held[p]) \cap InUse(held') = {} /\ Range(held[p]) \subseteq InUse(held)
    BY <2>4, InUseMember DEF Range
  <2>6. PlacesApart'
    BY <1>0, <2>1, <2>4, <2>5 DEF PlacesApart, released
  <2>7. LimiterTypeOK'
    BY <1>0, <2>1, <2>4, <2>5 DEF LimiterTypeOK, released
  <2>8. QED
    BY <2>4, <2>6, <2>7 DEF PlacesInv
<1>6. ASSUME NEW m \in 1..made, Renew(m) PROVE PlacesInv'
  <2>1. sem' = Add(sem, m) /\ UNCHANGED <<clock, held, stopping, joined, late, made, gone>>
    BY <1>6 DEF Renew
  <2>2. /\ DOMAIN sem' = DOMAIN sem \cup {m} /\ sem'[m] = clock + TTL
        /\ \A n \in DOMAIN sem \ {m} : sem'[n] = sem[n]
    BY <1>0, <2>1, SemScripts
  <2>3. DOMAIN sem' \subseteq 1..made /\ \A n \in DOMAIN sem' : sem'[n] \in Nat
    BY <1>0, <2>2, DeadlineLater DEF LimiterTypeOK, released
  <2>4. LimiterTypeOK'
    BY <1>0, <2>1, <2>3 DEF LimiterTypeOK, released
  <2>5. QED
    BY <1>0, <2>1, <2>4 DEF PlacesInv, PlacesApart, HeldOnce, released
<1>7. ASSUME NEW m \in 1..made, Join(m) PROVE PlacesInv'
  <2>1. /\ m \in stopping /\ stopping' = stopping \ {m} /\ joined' = joined \cup {m}
        /\ UNCHANGED <<clock, sem, held, late, made, gone>>
    BY <1>7 DEF Join
  <2>2. LimiterTypeOK' /\ PlacesApart'
    BY <1>0, <2>1 DEF LimiterTypeOK, PlacesApart, released
  <2>3. QED
    BY <1>0, <2>1, <2>2 DEF PlacesInv, HeldOnce
<1>8. ASSUME NEW m \in 1..made, ZRem(m) PROVE PlacesInv'
  <2>1. /\ m \in joined /\ joined' = joined \ {m} /\ released' = released \cup {m}
        /\ sem' = Remove(sem, m) \/ sem' = sem
        /\ UNCHANGED <<clock, held, stopping, late, made>>
        /\ \A n \in released' : gone'[n] \in Nat
    BY <1>0, <1>8, GivenUp DEF ZRem, LimiterTypeOK
  <2>2. /\ DOMAIN Remove(sem, m) = DOMAIN sem \ {m}
        /\ \A n \in DOMAIN sem \ {m} : Remove(sem, m)[n] = sem[n]
    BY <1>0, SemScripts
  <2>3. DOMAIN sem' \subseteq 1..made /\ \A n \in DOMAIN sem' : sem'[n] \in Nat
    BY <1>0, <2>1, <2>2 DEF LimiterTypeOK, released
  <2>4. LimiterTypeOK' /\ PlacesApart'
    BY <1>0, <2>1, <2>3 DEF LimiterTypeOK, PlacesApart, released
  <2>5. QED
    BY <1>0, <2>1, <2>4 DEF PlacesInv, HeldOnce
<1>9. CASE Tick
  BY <1>0, <1>9 DEF Tick, PlacesInv, PlacesApart, HeldOnce, LimiterTypeOK, released
<1>10. CASE UNCHANGED limiterVars
  BY <1>0, <1>10 DEF limiterVars, PlacesInv, PlacesApart, HeldOnce, LimiterTypeOK, released
<1>11. ASSUME NEW m \in 1..made, RenewTimesOut(m) PROVE PlacesInv'
  <2>1. /\ late' = late \cup {[member |-> m, score |-> clock + TTL]}
        /\ UNCHANGED <<clock, sem, held, stopping, joined, made, gone>>
    BY <1>11 DEF RenewTimesOut
  <2>2. LimiterTypeOK'
    BY <1>0, <2>1, DeadlineLater DEF LimiterTypeOK, released
  <2>3. QED
    BY <1>0, <2>1, <2>2 DEF PlacesInv, PlacesApart, HeldOnce, released
<1>12. ASSUME NEW z \in late, RenewLate(z) PROVE PlacesInv'
  <2>1. /\ sem' = Put(sem, z.member, z.score) /\ late' = late \ {z}
        /\ UNCHANGED <<clock, held, stopping, joined, made, gone>>
    BY <1>12 DEF RenewLate
  <2>2. z.member \in 1..made /\ z.score \in Nat
    BY <1>0 DEF LimiterTypeOK, released
  <2>3. DOMAIN sem' \subseteq 1..made /\ \A n \in DOMAIN sem' : sem'[n] \in Nat
    <3>1. /\ DOMAIN sem' = DOMAIN sem \cup {z.member} /\ sem'[z.member] = z.score
          /\ \A n \in DOMAIN sem \ {z.member} : sem'[n] = sem[n]
      BY <2>1 DEF Put
    <3>2. QED
      BY <1>0, <2>2, <3>1 DEF LimiterTypeOK
  <2>4. LimiterTypeOK'
    BY <1>0, <2>1, <2>3 DEF LimiterTypeOK, released
  <2>5. QED
    BY <1>0, <2>1, <2>4 DEF PlacesInv, PlacesApart, HeldOnce, released
<1>13. QED
  BY <1>1, <1>2, <1>3, <1>4, <1>5, <1>6, <1>7, <1>8, <1>9, <1>10, <1>11, <1>12 DEF LimiterNext

\* Slots renewed in time stay alive and bounded: each acquisition counts all
\* the slots in use, because they are in the set it has just pruned.
LEMMA TimelyStep ==
  ASSUME PlacesInv, TimelyInv, TimelyRenew, [LimiterNext]_limiterVars
  PROVE  Alive' /\ ConcurrencyBound'
<1>1. /\ LimiterTypeOK /\ PlacesApart /\ InUse(held) \subseteq 1..made
      /\ Alive /\ ConcurrencyBound
      /\ made \in Nat /\ clock \in Nat /\ Workers \in Nat
  BY InUseMade, LimiterAssumption DEF PlacesInv, TimelyInv, LimiterTypeOK
<1>2. IsFiniteSet(InUse(held)) /\ IsFiniteSet(DOMAIN Pruned)
  <2>1. IsFiniteSet(1..made)
    BY <1>1, FS_Interval
  <2>2. DOMAIN Pruned \subseteq 1..made
    BY <1>1, SemScripts DEF LimiterTypeOK
  <2>3. QED
    BY <1>1, <2>1, <2>2, FS_Subset
<1>3. ASSUME InUse(held') \subseteq InUse(held) PROVE ConcurrencyBound'
  <2>1. /\ Cardinality(InUse(held')) <= Cardinality(InUse(held))
        /\ Cardinality(InUse(held')) \in Nat /\ Cardinality(InUse(held)) \in Nat
    BY <1>2, <1>3, FS_Subset, FS_CardinalityType
  <2>2. QED
    BY <1>1, <2>1 DEF ConcurrencyBound
<1>4. ASSUME InUse(held') \subseteq InUse(held), clock' = clock,
             \A m \in InUse(held') : m \in DOMAIN sem' /\ (sem'[m] = sem[m] \/ sem'[m] > clock)
      PROVE  Alive' /\ ConcurrencyBound'
  BY <1>1, <1>3, <1>4 DEF Alive
<1>5. InUse(held) \subseteq DOMAIN Pruned
  BY <1>1, SemScripts DEF Alive
<1>6. ASSUME NEW p \in Procs, Acquire(p) PROVE Alive' /\ ConcurrencyBound'
  <2>1. /\ made' = made + 1 /\ sem' = Add(Pruned, made + 1) /\ clock' = clock
        /\ held' = [held EXCEPT ![p] = Append(@, made + 1)]
        /\ Cardinality(DOMAIN Pruned) < Workers
    BY <1>6 DEF Acquire, HasRoom
  <2>2. InUse(held') = InUse(held) \cup {made + 1}
    BY <2>1, HeldAppend
  <2>3. Alive'
    BY <1>1, <2>1, <2>2, AcquireSem DEF Alive
  <2>4. /\ Cardinality(InUse(held)) <= Cardinality(DOMAIN Pruned)
        /\ Cardinality(InUse(held)) \in Nat /\ Cardinality(DOMAIN Pruned) \in Nat
    BY <1>2, <1>5, FS_Subset, FS_CardinalityType
  <2>5. made + 1 \notin InUse(held)
    BY <1>1
  <2>6. Cardinality(InUse(held')) = Cardinality(InUse(held)) + 1
    BY <1>2, <2>2, <2>5, FS_AddElement
  <2>7. ConcurrencyBound'
    BY <1>1, <2>1, <2>4, <2>6 DEF ConcurrencyBound
  <2>8. QED
    BY <2>3, <2>7
<1>7. ASSUME NEW p \in Procs, AcquireFull(p) PROVE Alive' /\ ConcurrencyBound'
  <2>1. sem' = Pruned /\ UNCHANGED <<clock, held>>
    BY <1>7 DEF AcquireFull
  <2>2. \A m \in InUse(held) : m \in DOMAIN sem' /\ sem'[m] = sem[m]
    BY <1>1, <1>5, <2>1, SemScripts
  <2>3. QED
    BY <1>4, <2>1, <2>2
<1>8. ASSUME NEW p \in Procs, AcquireLost(p) PROVE Alive' /\ ConcurrencyBound'
  <2>1. made' = made + 1 /\ sem' = Add(Pruned, made + 1) /\ UNCHANGED <<clock, held>>
    BY <1>8 DEF AcquireLost
  <2>2. \A m \in InUse(held) : m \in DOMAIN sem' /\ sem'[m] = sem[m]
    BY <1>1, <2>1, AcquireSem DEF Alive
  <2>3. QED
    BY <1>4, <2>1, <2>2
<1>9. ASSUME NEW p \in Procs, Release(p) \/ Crash(p) PROVE Alive' /\ ConcurrencyBound'
  <2>1. sem' = sem /\ clock' = clock
    BY <1>9 DEF Release, Crash
  <2>2. PICK k \in 0..Len(held[p]) : held' = [held EXCEPT ![p] = SubSeq(@, 1, k)]
    <3>1. held[p] \in Seq(1..made)
      BY <1>1 DEF LimiterTypeOK
    <3>2. CASE Release(p)
      <4>1. Len(held[p]) \in Nat \ {0}
        BY <3>1, <3>2, EmptySeq DEF Release
      <4>2. Len(held[p]) - 1 \in 0..Len(held[p])
        BY <4>1
      <4>3. QED
        BY <3>2, <4>2 DEF Release
    <3>3. CASE Crash(p)
      <4>1. 0 \in 0..Len(held[p]) /\ SubSeq(held[p], 1, 0) = <<>>
        BY <3>1
      <4>2. QED
        BY <3>3, <4>1 DEF Crash
    <3>4. QED
      BY <1>9, <3>2, <3>3
  <2>3. InUse(held') \subseteq InUse(held)
    BY <2>2, HeldShrink
  <2>4. QED
    BY <1>1, <1>4, <2>1, <2>3 DEF Alive
<1>10. ASSUME NEW m \in 1..made, Renew(m) PROVE Alive' /\ ConcurrencyBound'
  <2>1. sem' = Add(sem, m) /\ UNCHANGED <<clock, held>>
    BY <1>10 DEF Renew
  <2>2. /\ DOMAIN sem' = DOMAIN sem \cup {m} /\ sem'[m] = clock + TTL
        /\ \A n \in DOMAIN sem \ {m} : sem'[n] = sem[n]
    BY <1>1, <2>1, SemScripts
  <2>3. \A n \in InUse(held) : n \in DOMAIN sem' /\ (sem'[n] = sem[n] \/ sem'[n] > clock)
    BY <1>1, <2>2, DeadlineLater DEF Alive
  <2>4. QED
    BY <1>4, <2>1, <2>3
<1>11. ASSUME NEW m \in 1..made, Join(m) PROVE Alive' /\ ConcurrencyBound'
  BY <1>1, <1>4, <1>11 DEF Join, Alive
<1>12. ASSUME NEW m \in 1..made, ZRem(m) PROVE Alive' /\ ConcurrencyBound'
  <2>1. m \in joined /\ (sem' = Remove(sem, m) \/ sem' = sem) /\ UNCHANGED <<clock, held>>
    BY <1>12 DEF ZRem
  <2>2. /\ DOMAIN Remove(sem, m) = DOMAIN sem \ {m}
        /\ \A n \in DOMAIN sem \ {m} : Remove(sem, m)[n] = sem[n]
    BY <1>1, SemScripts
  <2>3. m \notin InUse(held)
    BY <1>1, <2>1 DEF PlacesApart
  <2>4. \A n \in InUse(held) : n \in DOMAIN sem' /\ sem'[n] = sem[n]
    BY <1>1, <2>1, <2>2, <2>3 DEF Alive
  <2>5. QED
    BY <1>4, <2>1, <2>4
<1>13. CASE Tick
  <2>1. /\ \A m \in InUse(held) : m \in DOMAIN sem /\ sem[m] > clock + 1
        /\ clock' = clock + 1 /\ UNCHANGED <<sem, held>>
    BY <1>13 DEF Tick
  <2>2. QED
    BY <1>1, <2>1 DEF Alive, ConcurrencyBound
<1>14. CASE UNCHANGED limiterVars
  BY <1>1, <1>14 DEF limiterVars, Alive, ConcurrencyBound
<1>15. ASSUME NEW m \in 1..made, RenewTimesOut(m) PROVE Alive' /\ ConcurrencyBound'
  BY <1>1, <1>4, <1>15 DEF RenewTimesOut, Alive
<1>16. ASSUME NEW z \in late, RenewLate(z) PROVE Alive' /\ ConcurrencyBound'
  <2>1. /\ sem' = Put(sem, z.member, z.score) /\ UNCHANGED <<clock, held>>
        /\ z.member \in InUse(held) => z.score > clock
    BY <1>16 DEF RenewLate
  <2>2. /\ DOMAIN sem' = DOMAIN sem \cup {z.member} /\ sem'[z.member] = z.score
        /\ \A n \in DOMAIN sem \ {z.member} : sem'[n] = sem[n]
    BY <2>1 DEF Put
  <2>3. \A n \in InUse(held) : n \in DOMAIN sem' /\ (sem'[n] = sem[n] \/ sem'[n] > clock)
    BY <1>1, <2>1, <2>2 DEF Alive
  <2>4. QED
    BY <1>4, <2>1, <2>3
<1>17. QED
  BY <1>6, <1>7, <1>8, <1>9, <1>10, <1>11, <1>12, <1>13, <1>14, <1>15, <1>16 DEF LimiterNext

\* The initial state.
LEMMA LimiterInitInv ==
  ASSUME LimiterInit
  PROVE  PlacesInv /\ TimelyInv
<1>1. \A p \in Procs : held[p] = <<>> /\ DOMAIN held[p] = {}
  BY DEF LimiterInit
<1>2. InUse(held) = {}
  BY <1>1, InUseMember
<1>3. held \in [Procs -> Seq(1..made)]
  BY DEF LimiterInit
<1>4. DOMAIN sem = {} /\ made \in Nat /\ clock \in Nat /\ stopping = {} /\ joined = {} /\ released = {} /\ late = {}
  BY DEF LimiterInit, released
<1>5. PlacesInv
  BY <1>1, <1>2, <1>3, <1>4 DEF PlacesInv, LimiterTypeOK, HeldOnce, PlacesApart
<1>6. TimelyInv
  BY <1>2, FS_EmptySet, LimiterAssumption DEF TimelyInv, Alive, ConcurrencyBound
<1>7. QED
  BY <1>5, <1>6

\* The concurrency limit of a queue over all processes: while holders renew in
\* time, no more than Workers slots are in use, for any number of processes,
\* crashes, lost answers and releases half done.
THEOREM SlotsBounded == LimiterSpec => [](TimelyRenew => ConcurrencyBound)
<1>1. LimiterInit => PlacesInv /\ TimelyInv
  BY LimiterInitInv
<1>2. PlacesInv /\ TimelyInv /\ [LimiterNext]_limiterVars => PlacesInv' /\ TimelyInv'
  BY PlacesStep, TimelyStep DEF TimelyInv
<1>3. TimelyInv => (TimelyRenew => ConcurrencyBound)
  BY DEF TimelyInv
<1>4. QED
  BY <1>1, <1>2, <1>3, PTL DEF LimiterSpec

\* Scores are computed when a call is sent, and none is sent for a slot that
\* was given up: the renewal is joined first, or died with its process.
LEMMA ScoresStep ==
  ASSUME PlacesInv, ScoresDated, GhostsFade, [LimiterNext]_limiterVars
  PROVE  ScoresDated' /\ GhostsFade'
<1> USE DEF released
<1>1. /\ LimiterTypeOK /\ PlacesApart /\ InUse(held) \subseteq 1..made
      /\ made \in Nat /\ clock \in Nat /\ TTL \in Nat
  BY InUseMade, LimiterAssumption DEF PlacesInv, LimiterTypeOK
<1>2. ASSUME clock' = clock, late' = late,
             \A m \in released' : \/ m \in released /\ gone'[m] = gone[m]
                                  \/ gone'[m] = clock,
             \A m \in DOMAIN sem' : \/ m \in DOMAIN sem /\ sem'[m] = sem[m]
                                    \/ sem'[m] = clock + TTL /\ m \notin released
      PROVE  ScoresDated' /\ GhostsFade'
  <2>1. \A m \in released' : gone'[m] \in Nat /\ gone'[m] <= clock
    BY <1>1, <1>2 DEF ScoresDated, LimiterTypeOK
  <2>2. \A m \in DOMAIN sem' : sem'[m] <= clock + TTL
    BY <1>1, <1>2 DEF ScoresDated
  <2>3. ASSUME NEW z \in late, z.member \in released' PROVE z.score <= gone'[z.member] + TTL
    <3>1. z.score <= clock + TTL /\ (z.member \in released => z.score <= gone[z.member] + TTL)
      BY DEF ScoresDated
    <3>2. QED
      BY <1>2, <2>3, <3>1
  <2>4. ASSUME NEW m \in released', m \in DOMAIN sem' PROVE sem'[m] <= gone'[m] + TTL
    BY <1>1, <1>2, <2>2, <2>4 DEF GhostsFade, LimiterTypeOK
  <2>5. ScoresDated'
    BY <1>2, <2>1, <2>2, <2>3 DEF ScoresDated
  <2>6. QED
    BY <2>4, <2>5 DEF GhostsFade
<1>3. ASSUME gone' = gone
      PROVE  \A m \in released' : \/ m \in released /\ gone'[m] = gone[m]
                                  \/ gone'[m] = clock
  BY <1>3 DEF released
<1>4. ASSUME NEW p \in Procs, Acquire(p) \/ AcquireLost(p) PROVE ScoresDated' /\ GhostsFade'
  <2>1. sem' = Add(Pruned, made + 1) /\ clock' = clock /\ late' = late
    BY <1>4 DEF Acquire, AcquireLost
  <2>2. /\ DOMAIN sem' = {n \in DOMAIN sem : sem[n] > clock} \cup {made + 1}
        /\ sem'[made + 1] = clock + TTL
        /\ \A n \in {n \in DOMAIN sem : sem[n] > clock} \ {made + 1} : sem'[n] = sem[n]
    BY <1>1, <2>1, SemScripts
  <2>3. made + 1 \notin released
    BY <1>1 DEF LimiterTypeOK
  <2>4. \A m \in DOMAIN sem' : \/ m \in DOMAIN sem /\ sem'[m] = sem[m]
                               \/ sem'[m] = clock + TTL /\ m \notin released
    BY <2>2, <2>3
  <2>5. \A m \in released' : \/ m \in released /\ gone'[m] = gone[m]
                             \/ gone'[m] = clock
    <3>1. CASE Acquire(p)
      BY <1>3, <3>1 DEF Acquire
    <3>2. CASE AcquireLost(p)
      <4>1. GiveUp({made + 1})
        BY <3>2 DEF AcquireLost
      <4>2. QED
        BY <4>1, GivenUp
    <3>3. QED
      BY <1>4, <3>1, <3>2
  <2>6. QED
    BY <1>2, <2>1, <2>4, <2>5
<1>5. ASSUME NEW p \in Procs, AcquireFull(p) PROVE ScoresDated' /\ GhostsFade'
  <2>1. sem' = Pruned /\ clock' = clock /\ late' = late /\ gone' = gone
    BY <1>5 DEF AcquireFull
  <2>2. \A m \in DOMAIN sem' : m \in DOMAIN sem /\ sem'[m] = sem[m]
    BY <1>1, <2>1, SemScripts
  <2>3. QED
    BY <1>2, <1>3, <2>1, <2>2
<1>6. ASSUME NEW p \in Procs, Release(p) PROVE ScoresDated' /\ GhostsFade'
  <2>1. sem' = sem /\ clock' = clock /\ late' = late /\ gone' = gone
    BY <1>6 DEF Release
  <2>2. \A m \in released' : \/ m \in released /\ gone'[m] = gone[m]
                             \/ gone'[m] = clock
    BY <1>3, <2>1
  <2>3. \A m \in DOMAIN sem' : \/ m \in DOMAIN sem /\ sem'[m] = sem[m]
                               \/ sem'[m] = clock + TTL /\ m \notin released
    BY <2>1
  <2>4. QED
    BY <1>2, <2>1, <2>2, <2>3
<1>7. ASSUME NEW p \in Procs, Crash(p) PROVE ScoresDated' /\ GhostsFade'
  <2>1. sem' = sem /\ clock' = clock /\ late' = late /\ GiveUp(Range(held[p]))
    BY <1>7 DEF Crash
  <2>2. \A m \in released' : \/ m \in released /\ gone'[m] = gone[m]
                             \/ gone'[m] = clock
    BY <2>1, GivenUp
  <2>3. QED
    BY <1>2, <2>1, <2>2
<1>8. ASSUME NEW m \in 1..made, Renew(m) PROVE ScoresDated' /\ GhostsFade'
  <2>1. sem' = Add(sem, m) /\ m \notin released /\ clock' = clock /\ late' = late /\ gone' = gone
    BY <1>1, <1>8 DEF Renew, PlacesApart
  <2>2. /\ DOMAIN sem' = DOMAIN sem \cup {m} /\ sem'[m] = clock + TTL
        /\ \A n \in DOMAIN sem \ {m} : sem'[n] = sem[n]
    BY <1>1, <2>1, SemScripts
  <2>3. \A n \in DOMAIN sem' : \/ n \in DOMAIN sem /\ sem'[n] = sem[n]
                               \/ sem'[n] = clock + TTL /\ n \notin released
    BY <2>1, <2>2
  <2>4. QED
    BY <1>2, <1>3, <2>1, <2>3
<1>9. ASSUME NEW m \in 1..made, RenewTimesOut(m) PROVE ScoresDated' /\ GhostsFade'
  <2>1. /\ late' = late \cup {[member |-> m, score |-> clock + TTL]} /\ m \notin released
        /\ UNCHANGED <<clock, sem, gone>>
    BY <1>1, <1>9 DEF RenewTimesOut, PlacesApart
  <2>2. clock + TTL <= clock + TTL
    BY <1>1
  <2>3. QED
    BY <2>1, <2>2 DEF ScoresDated, GhostsFade, released
<1>10. ASSUME NEW z \in late, RenewLate(z) PROVE ScoresDated' /\ GhostsFade'
  <2>1. sem' = Put(sem, z.member, z.score) /\ late' = late \ {z} /\ UNCHANGED <<clock, gone>>
    BY <1>10 DEF RenewLate
  <2>2. /\ DOMAIN sem' = DOMAIN sem \cup {z.member} /\ sem'[z.member] = z.score
        /\ \A n \in DOMAIN sem \ {z.member} : sem'[n] = sem[n]
    BY <2>1 DEF Put
  <2>3. \A n \in DOMAIN sem' : \/ n \in DOMAIN sem /\ sem'[n] = sem[n]
                               \/ n = z.member /\ sem'[n] = z.score
    BY <2>2
  <2>4. QED
    BY <2>1, <2>3 DEF ScoresDated, GhostsFade, released
<1>11. ASSUME NEW m \in 1..made, Join(m) PROVE ScoresDated' /\ GhostsFade'
  <2>1. sem' = sem /\ clock' = clock /\ late' = late /\ gone' = gone
    BY <1>11 DEF Join
  <2>2. QED
    BY <1>2, <1>3, <2>1
<1>12. ASSUME NEW m \in 1..made, ZRem(m) PROVE ScoresDated' /\ GhostsFade'
  <2>1. /\ sem' = Remove(sem, m) \/ sem' = sem
        /\ clock' = clock /\ late' = late /\ GiveUp({m})
    BY <1>12 DEF ZRem
  <2>2. /\ DOMAIN Remove(sem, m) = DOMAIN sem \ {m}
        /\ \A n \in DOMAIN sem \ {m} : Remove(sem, m)[n] = sem[n]
    BY <1>1, SemScripts
  <2>3. \A n \in DOMAIN sem' : n \in DOMAIN sem /\ sem'[n] = sem[n]
    BY <2>1, <2>2
  <2>4. \A n \in released' : \/ n \in released /\ gone'[n] = gone[n]
                             \/ gone'[n] = clock
    BY <2>1, GivenUp
  <2>5. QED
    BY <1>2, <2>1, <2>3, <2>4
<1>13. CASE Tick
  <2>1. clock' = clock + 1 /\ UNCHANGED <<sem, late, gone>>
    BY <1>13 DEF Tick
  <2>2. /\ \A m \in DOMAIN sem : sem[m] \in Nat
        /\ \A z \in late : z.score \in Nat
        /\ \A m \in released : gone[m] \in Nat
    BY <1>1 DEF LimiterTypeOK
  <2>3. QED
    BY <1>1, <2>1, <2>2 DEF ScoresDated, GhostsFade, released
<1>14. CASE UNCHANGED limiterVars
  BY <1>14 DEF limiterVars, ScoresDated, GhostsFade, released
<1>15. QED
  BY <1>4, <1>5, <1>6, <1>7, <1>8, <1>9, <1>10, <1>11, <1>12, <1>13, <1>14 DEF LimiterNext

\* A slot that was given up is gone a TTL later, whether renewals are timely or
\* not and whatever Redis carries out late: ReleaseSlot waits for the renewal
\* before it removes the member, and no other process knows the name.
THEOREM GhostSlotsFade == LimiterSpec => []GhostsFade
<1>1. LimiterInit => PlacesInv /\ ScoresDated /\ GhostsFade
  BY LimiterInitInv DEF LimiterInit, ScoresDated, GhostsFade, released
<1>2. PlacesInv /\ ScoresDated /\ GhostsFade /\ [LimiterNext]_limiterVars
      => PlacesInv' /\ ScoresDated' /\ GhostsFade'
  BY PlacesStep, ScoresStep
<1>3. QED
  BY <1>1, <1>2, PTL DEF LimiterSpec
===============================================================================
