--------------------------- MODULE RedisBrokerProofs ---------------------------
(* The scripts of the Redis broker keep every structure in agreement with  *)
(* the hashes, and implement the abstract lifecycle, for every value of    *)
(* the constants and every lag of a caller's clock.                        *)
(*                                                                         *)
(* Books(d, Q, L, I) says that the structures d hold the queues Q, the     *)
(* leases L and the indexes I, each task once; Agrees(d, rs) that these    *)
(* are the ones the hashes rs call for.  Each command has a lemma on what  *)
(* it does to Books; each kind of move (a task ends, is canceled, woken,   *)
(* taken back, claimed, created) one that combines them into Agrees.  A    *)
(* cascade is a sequence of moves: AllMovedAgrees follows it for any order *)
(* of the tasks, by the least move after which agreement would be lost.    *)
(* The hashes themselves behave as the records of MemoryBroker, whose      *)
(* lemmas give the dependency invariant and the steps of the lifecycle.    *)
EXTENDS RedisBroker, MemoryBrokerProofs, SequenceTheorems, WellFoundedInduction

-------------------------------------------------------------------------------
(* Lists.                                                                  *)

\* A set of natural numbers that is not empty has a least element.
LEMMA LeastNat ==
  ASSUME NEW S \in SUBSET Nat, S # {}
  PROVE  \E x \in S : \A y \in S : x <= y
<1>1. PICK R : R = {p \in Nat \X Nat : p[1] < p[2]}
  OBVIOUS
<1>2. IsWellFoundedOn(R, Nat)
  BY <1>1, NatLessThanWellFounded, Zenon DEF OpToRel
<1>3. PICK x \in S : \A y \in S : ~(<<y, x>> \in R)
  BY <1>2, WFMin, Zenon
<1>4. \A y \in S : x <= y
  <2>1. SUFFICES ASSUME NEW y \in S PROVE x <= y
    OBVIOUS
  <2>2. x \in Nat /\ y \in Nat /\ (y < x => <<y, x>> \in R)
    BY <1>1
  <2> QED BY <1>3, <2>2
<1> QED BY <1>4

\* A set of numbers up to N that holds 0 and, with each n < N, n + 1, holds them all.
LEMMA Reaches ==
  ASSUME NEW N \in Nat, NEW S, 0 \in S, \A n \in 0..N : n # N /\ n \in S => n + 1 \in S
  PROVE  \A n \in 0..N : n \in S
<1> DEFINE bad == {n \in 0..N : n \notin S}
<1>1. SUFFICES ASSUME bad # {} PROVE FALSE
  OBVIOUS
<1>2. PICK n \in bad : \A m \in bad : n <= m
  <2>1. bad \in SUBSET Nat
    OBVIOUS
  <2> HIDE DEF bad
  <2>2. QED
    BY <1>1, <2>1, LeastNat
<1>3. n \in 0..N /\ n # 0 /\ n - 1 \in 0..N /\ n - 1 # N
  BY <1>2
<1>4. n - 1 \notin bad
  BY <1>2, <1>3
<1>5. (n - 1) + 1 \in S
  BY <1>3, <1>4
<1>6. QED
  BY <1>2, <1>3, <1>5

\* A list in which nothing stands twice.
Distinct(list) == list \in Seq(Tasks) /\ \A i, j \in DOMAIN list : list[i] = list[j] => i = j

\* The function that LRem computes exists: it is built one entry at a time.
LEMMA LRemRecursion ==
  ASSUME NEW list \in Seq(Tasks), NEW id
  PROVE  \E f : /\ \A n \in 0..Len(list) :
                     f[n] = IF n = 0 THEN <<>>
                            ELSE IF list[n] = id THEN f[n - 1] ELSE Append(f[n - 1], list[n])
                /\ LRem(list, id) = f[Len(list)]
<1> DEFINE N == Len(list)
           body(g, n) == IF n = 0 THEN <<>>
                         ELSE IF list[n] = id THEN g[n - 1] ELSE Append(g[n - 1], list[n])
           S == {n \in Nat : \E g : \A m \in 0..n : g[m] = body(g, m)}
           kept == CHOOSE f : f = [n \in 0..N |-> body(f, n)]
<1>1. N \in Nat
  OBVIOUS
<1>2. 0 \in S
  <2>1. \A m \in 0..0 : [x \in {0} |-> <<>>][m] = body([x \in {0} |-> <<>>], m)
    OBVIOUS
  <2>2. QED
    BY <2>1
<1>3. ASSUME NEW n \in 0..N, n # N, n \in S PROVE n + 1 \in S
  <2>1. PICK g : \A m \in 0..n : g[m] = body(g, m)
    BY <1>3
  <2> DEFINE h == [x \in 0..(n + 1) |-> IF x = n + 1 THEN body(g, n + 1) ELSE g[x]]
  <2>2. \A m \in 0..n : h[m] = g[m]
    BY <1>3
  <2>3. h[n + 1] = body(g, n + 1)
    BY <1>3
  <2> HIDE DEF h
  <2>4. ASSUME NEW m \in 0..(n + 1) PROVE h[m] = body(h, m)
    <3>1. CASE m = 0
      BY <2>1, <2>2, <3>1, <1>3
    <3>2. CASE m # 0 /\ m # n + 1
      <4>1. m \in 0..n /\ m - 1 \in 0..n
        BY <3>2
      <4>2. QED
        BY <2>1, <2>2, <3>2, <4>1
    <3>3. CASE m = n + 1
      BY <2>2, <2>3, <3>3, <1>3
    <3>4. QED
      BY <3>1, <3>2, <3>3
  <2>5. QED
    BY <2>4
<1>4. PICK g : \A m \in 0..N : g[m] = body(g, m)
  <2>1. \A n \in 0..N : n \in S
    <3> HIDE DEF S, N
    <3>1. QED
      BY <1>1, <1>2, <1>3, Reaches
  <2>2. N \in S
    BY <1>1, <2>1
  <2>3. QED
    BY <2>2
<1>5. \E f : f = [n \in 0..N |-> body(f, n)]
  <2> DEFINE f == [n \in 0..N |-> g[n]]
  <2>1. \A n \in 0..N : n # 0 => n - 1 \in 0..N
    BY <1>1
  <2>2. \A n \in 0..N : f[n] = g[n] /\ (n # 0 => f[n - 1] = g[n - 1])
    BY <2>1
  <2>3. \A n \in 0..N : g[n] = body(f, n)
    BY <1>4, <2>2
  <2>4. f = [n \in 0..N |-> body(f, n)]
    BY <2>3, SMTT(60)
  <2>5. QED
    BY <2>4
<1>6. kept = [n \in 0..N |-> body(kept, n)]
  BY <1>5, ZenonT(60)
<1>7. LRem(list, id) = kept[N]
  BY DEF LRem
<1> HIDE DEF kept
<1>8. \A n \in 0..N : kept[n] = body(kept, n)
  BY <1>6
<1>9. QED
  BY <1>7, <1>8

\* A new task at the end of a list.
LEMMA AppendDistinct ==
  ASSUME NEW list, Distinct(list), NEW t \in Tasks, t \notin Range(list)
  PROVE  Distinct(Append(list, t)) /\ Range(Append(list, t)) = Range(list) \cup {t}
<1> DEFINE L == Append(list, t)
<1>1. /\ list \in Seq(Tasks) /\ Len(list) \in Nat /\ DOMAIN list = 1..Len(list)
      /\ L \in Seq(Tasks) /\ DOMAIN L = 1..(Len(list) + 1) /\ L[Len(list) + 1] = t
      /\ \A i \in 1..Len(list) : L[i] = list[i]
  BY DEF Distinct
<1> HIDE DEF L
<1>2. \A i \in 1..Len(list) : list[i] # t
  BY <1>1 DEF Range
<1>3. Distinct(L)
  <2>1. SUFFICES ASSUME NEW i \in DOMAIN L, NEW j \in DOMAIN L, L[i] = L[j] PROVE i = j
    BY <1>1 DEF Distinct
  <2>2. CASE i \in 1..Len(list) /\ j \in 1..Len(list)
    BY <1>1, <2>1, <2>2 DEF Distinct
  <2>3. QED
    BY <1>1, <1>2, <2>1, <2>2
<1>4. Range(L) = Range(list) \cup {t}
  <2>1. ASSUME NEW x \in Range(L) PROVE x \in Range(list) \cup {t}
    <3>1. PICK i \in DOMAIN L : x = L[i]
      BY <2>1 DEF Range
    <3>2. CASE i = Len(list) + 1
      BY <1>1, <3>1, <3>2
    <3>3. CASE i \in 1..Len(list)
      BY <1>1, <3>1, <3>3 DEF Range
    <3>4. QED
      BY <1>1, <3>1, <3>2, <3>3
  <2>2. ASSUME NEW x \in Range(list) PROVE x \in Range(L)
    <3>1. PICK i \in DOMAIN list : x = list[i]
      BY <2>2 DEF Range
    <3>2. i \in DOMAIN L /\ L[i] = x
      BY <1>1, <3>1
    <3>3. QED
      BY <3>2 DEF Range
  <2>3. t \in Range(L)
    <3>1. Len(list) + 1 \in DOMAIN L
      BY <1>1
    <3>2. QED
      BY <1>1, <3>1 DEF Range
  <2>4. QED
    BY <2>1, <2>2, <2>3
<1>5. QED
  BY <1>3, <1>4 DEF L

\* LREM takes one task out of a list and nothing else.
LEMMA LRemDistinct ==
  ASSUME NEW list, Distinct(list), NEW id
  PROVE  Distinct(LRem(list, id)) /\ Range(LRem(list, id)) = Range(list) \ {id}
<1>1. /\ list \in Seq(Tasks) /\ Len(list) \in Nat /\ DOMAIN list = 1..Len(list)
      /\ \A i \in 1..Len(list) : list[i] \in Tasks
  BY DEF Distinct
<1>2. PICK f : /\ \A n \in 0..Len(list) :
                    f[n] = IF n = 0 THEN <<>>
                           ELSE IF list[n] = id THEN f[n - 1] ELSE Append(f[n - 1], list[n])
               /\ LRem(list, id) = f[Len(list)]
  BY <1>1, LRemRecursion
<1> DEFINE upto(n) == {list[i] : i \in 1..n}
           S == {n \in Nat : Distinct(f[n]) /\ Range(f[n]) = upto(n) \ {id}}
<1>3. 0 \in S
  <2>1. f[0] = <<>>
    BY <1>1, <1>2
  <2>2. Distinct(<<>>) /\ Range(<<>>) = {}
    BY DEF Distinct, Range
  <2>3. upto(0) = {}
    OBVIOUS
  <2>4. QED
    BY <2>1, <2>2, <2>3
<1>4. ASSUME NEW n \in 0..Len(list), n # Len(list), n \in S PROVE n + 1 \in S
  <2>1. /\ n \in Nat /\ n + 1 \in 0..Len(list) /\ n + 1 \in DOMAIN list /\ (n + 1) - 1 = n
        /\ n + 1 # 0
    <3>1. PICK N \in Nat : N = Len(list)
      BY <1>1
    <3>2. n \in 0..N /\ n # N
      BY <1>4, <3>1
    <3>3. n \in Nat /\ n + 1 \in 0..N /\ n + 1 \in 1..N /\ (n + 1) - 1 = n /\ n + 1 # 0
      BY <3>2
    <3>4. QED
      BY <1>1, <3>1, <3>3, SMTT(60)
  <2>2. Distinct(f[n]) /\ Range(f[n]) = upto(n) \ {id}
    BY <1>4
  <2>3. upto(n + 1) = upto(n) \cup {list[n + 1]}
    <3>1. \A i : i \in 1..(n + 1) <=> i \in 1..n \/ i = n + 1
      BY <2>1
    <3>2. QED
      BY <3>1
  <2>4. list[n + 1] \notin upto(n)
    <3>1. \A i \in 1..n : i \in DOMAIN list /\ i # n + 1
      BY <1>1, <2>1
    <3>2. QED
      BY <2>1, <3>1 DEF Distinct
  <2>5. f[n + 1] = IF list[n + 1] = id THEN f[n] ELSE Append(f[n], list[n + 1])
    BY <1>2, <2>1
  <2>6. CASE list[n + 1] = id
    BY <2>1, <2>2, <2>3, <2>5, <2>6
  <2>7. CASE list[n + 1] # id
    <3>1. list[n + 1] \in Tasks /\ list[n + 1] \notin Range(f[n])
      BY <1>1, <2>1, <2>2, <2>4
    <3>2. /\ Distinct(f[n + 1])
          /\ Range(f[n + 1]) = (upto(n) \ {id}) \cup {list[n + 1]}
      BY <2>2, <2>5, <2>7, <3>1, AppendDistinct, SMTT(60)
    <3>3. QED
      BY <2>1, <2>3, <2>7, <3>2
  <2>8. QED
    BY <2>6, <2>7
<1>5. Len(list) \in S
  <2> HIDE DEF S
  <2>1. \A n \in 0..Len(list) : n \in S
    BY <1>1, <1>3, <1>4, Reaches
  <2>2. QED
    BY <1>1, <2>1
<1>6. upto(Len(list)) = Range(list)
  BY <1>1 DEF Range
<1>7. QED
  BY <1>2, <1>5, <1>6

-------------------------------------------------------------------------------
(* The structures and what they ought to hold.                             *)

\* Sorted sets, by their members, and the keys of the database.
ZSets == UNION {[X -> Nat] : X \in SUBSET Tasks}

DBs == [pending : [Queues -> Seq(Tasks)], delayed : [Queues -> ZSets], inflight : ZSets,
        index : [Statuses -> SUBSET Tasks], stats : [Statuses -> Int]]

\* The list and the sorted set of a queue hold the tasks of T, each once.
Holds(list, z, T) ==
  /\ Distinct(list)
  /\ z \in ZSets
  /\ Range(list) \cap DOMAIN z = {}
  /\ Range(list) \cup DOMAIN z = T

\* The structures d hold the queues Q, the leases L and the indexes I.
Books(d, Q, L, I) ==
  /\ d \in DBs
  /\ Q \in [Queues -> SUBSET Tasks] /\ L \in ZSets /\ I \in [Statuses -> SUBSET Tasks]
  /\ \A q \in Queues : Holds(d.pending[q], d.delayed[q], Q[q])
  /\ d.inflight = L
  /\ d.index = I
  /\ \A s \in Statuses : d.stats[s] = Cardinality(I[s])

\* What the hashes rs say the structures ought to hold.
QueuesOf(rs) == [q \in Queues |-> {t \in DOMAIN rs : Queued(rs[t].status) /\ rs[t].queue = q}]

LeasesOf(rs) == [t \in {u \in DOMAIN rs : rs[u].status = "running"} |-> rs[t].leaseUntil]

IndexesOf(rs) == [s \in Statuses |-> {t \in DOMAIN rs : rs[t].status = s}]

Agrees(d, rs) == Books(d, QueuesOf(rs), LeasesOf(rs), IndexesOf(rs))

\* Sorted sets stay sorted sets when a member is added or members are removed.
LEMMA ZSetOps ==
  ASSUME NEW z \in ZSets
  PROVE  /\ DOMAIN z \subseteq Tasks
         /\ \A t \in DOMAIN z : z[t] \in Nat
         /\ \A id \in Tasks, n \in Nat :
              ZAdd(z, id, n) \in ZSets /\ DOMAIN ZAdd(z, id, n) = DOMAIN z \cup {id}
         /\ \A S : ZRem(z, S) \in ZSets /\ DOMAIN ZRem(z, S) = DOMAIN z \ S
<1>1. PICK X \in SUBSET Tasks : z \in [X -> Nat]
  BY DEF ZSets
<1>2. ASSUME NEW id \in Tasks, NEW n \in Nat
      PROVE  ZAdd(z, id, n) \in [X \cup {id} -> Nat] /\ X \cup {id} \in SUBSET Tasks
  BY <1>1 DEF ZAdd
<1>3. ASSUME NEW S
      PROVE  ZRem(z, S) \in [X \ S -> Nat] /\ X \ S \in SUBSET Tasks
  BY <1>1 DEF ZRem, Restrict
<1>4. DOMAIN z = X
  BY <1>1
<1>5. ASSUME NEW id \in Tasks, NEW n \in Nat
      PROVE  ZAdd(z, id, n) \in ZSets /\ DOMAIN ZAdd(z, id, n) = DOMAIN z \cup {id}
  <2>1. ZAdd(z, id, n) \in [X \cup {id} -> Nat] /\ X \cup {id} \in SUBSET Tasks
    BY <1>2
  <2>2. DOMAIN ZAdd(z, id, n) = X \cup {id}
    BY <2>1
  <2>3. QED
    BY <1>4, <2>1, <2>2, Zenon DEF ZSets
<1>6. ASSUME NEW S
      PROVE  ZRem(z, S) \in ZSets /\ DOMAIN ZRem(z, S) = DOMAIN z \ S
  <2>1. ZRem(z, S) \in [X \ S -> Nat] /\ X \ S \in SUBSET Tasks
    BY <1>3
  <2>2. DOMAIN ZRem(z, S) = X \ S
    BY <2>1
  <2>3. QED
    BY <1>4, <2>1, <2>2, Zenon DEF ZSets
<1>7. DOMAIN z \subseteq Tasks /\ \A t \in DOMAIN z : z[t] \in Nat
  BY <1>1
<1>8. QED
  BY <1>5, <1>6, <1>7

\* A task enters a queue, leaves it, goes from one index to another.
Entered(Q, q, id) == [Q EXCEPT ![q] = @ \cup {id}]

Left(Q, q, id) == [Q EXCEPT ![q] = @ \ {id}]

Shifted(I, from, to, id) == [I EXCEPT ![from] = @ \ {id}, ![to] = @ \cup {id}]

\* RPUSH of a task that is not in the queue.
LEMMA PushBooks ==
  ASSUME NEW d, NEW Q, NEW L, NEW I, Books(d, Q, L, I),
         NEW q \in Queues, NEW id \in Tasks, id \notin Q[q]
  PROVE  Books([d EXCEPT !.pending[q] = Append(@, id)], Entered(Q, q, id), L, I)
<1> DEFINE e == [d EXCEPT !.pending[q] = Append(@, id)]
           Q2 == Entered(Q, q, id)
<1>1. /\ d \in DBs /\ Q \in [Queues -> SUBSET Tasks] /\ d.pending \in [Queues -> Seq(Tasks)]
      /\ d.delayed \in [Queues -> ZSets]
      /\ \A p \in Queues : Holds(d.pending[p], d.delayed[p], Q[p])
  BY DEF Books, DBs
<1>2. id \notin Range(d.pending[q])
  BY <1>1 DEF Holds
<1>3. /\ Distinct(Append(d.pending[q], id))
      /\ Range(Append(d.pending[q], id)) = Range(d.pending[q]) \cup {id}
  BY <1>1, <1>2, AppendDistinct DEF Holds
<1>4. /\ e \in DBs /\ e.delayed = d.delayed /\ e.inflight = d.inflight
      /\ e.index = d.index /\ e.stats = d.stats
      /\ e.pending = [d.pending EXCEPT ![q] = Append(@, id)]
  BY <1>1, <1>3 DEF DBs, Distinct
<1> HIDE DEF e
<1>5. ASSUME NEW p \in Queues PROVE Holds(e.pending[p], e.delayed[p], Q2[p])
  <2>1. CASE p # q
    BY <1>1, <1>4, <2>1 DEF Entered
  <2>2. CASE p = q
    <3>1. /\ e.pending[p] = Append(d.pending[q], id) /\ e.delayed[p] = d.delayed[q]
          /\ Q2[p] = Q[q] \cup {id}
      BY <1>1, <1>4, <2>2 DEF Entered
    <3>2. Holds(d.pending[q], d.delayed[q], Q[q])
      BY <1>1
    <3>3. QED
      BY <1>3, <3>1, <3>2 DEF Holds
  <2>3. QED
    BY <2>1, <2>2
<1>6. Q2 \in [Queues -> SUBSET Tasks]
  BY <1>1 DEF Entered
<1> HIDE DEF Q2
<1>7. Books(e, Q2, L, I)
  BY <1>4, <1>5, <1>6 DEF Books
<1>8. QED
  BY <1>7 DEF e, Q2

\* One queue of the structures is rewritten: the others hold what they held.
LEMMA QueueBooks ==
  ASSUME NEW d, NEW Q, NEW L, NEW I, Books(d, Q, L, I), NEW q \in Queues,
         NEW list, NEW z, NEW T, Holds(list, z, T)
  PROVE  Books([d EXCEPT !.pending[q] = list, !.delayed[q] = z], [Q EXCEPT ![q] = T], L, I)
<1> DEFINE e == [d EXCEPT !.pending[q] = list, !.delayed[q] = z]
           Q2 == [Q EXCEPT ![q] = T]
<1>1. /\ d \in DBs /\ Q \in [Queues -> SUBSET Tasks] /\ d.pending \in [Queues -> Seq(Tasks)]
      /\ d.delayed \in [Queues -> ZSets]
      /\ \A p \in Queues : Holds(d.pending[p], d.delayed[p], Q[p])
  BY DEF Books, DBs
<1>2. list \in Seq(Tasks) /\ z \in ZSets
  BY DEF Holds, Distinct
<1>3. T \in SUBSET Tasks
  <2>1. Range(list) \subseteq Tasks
    BY <1>2 DEF Range
  <2>2. DOMAIN z \subseteq Tasks
    BY <1>2, ZSetOps
  <2>3. QED
    BY <2>1, <2>2 DEF Holds
<1>4. /\ e \in DBs /\ e.inflight = d.inflight /\ e.index = d.index /\ e.stats = d.stats
      /\ e.pending = [d.pending EXCEPT ![q] = list]
      /\ e.delayed = [d.delayed EXCEPT ![q] = z]
  BY <1>1, <1>2 DEF DBs
<1> HIDE DEF e
<1>5. ASSUME NEW p \in Queues PROVE Holds(e.pending[p], e.delayed[p], Q2[p])
  BY <1>1, <1>4
<1>6. Q2 \in [Queues -> SUBSET Tasks]
  BY <1>1, <1>3
<1> HIDE DEF Q2
<1>7. Books(e, Q2, L, I)
  BY <1>4, <1>5, <1>6 DEF Books
<1>8. QED
  BY <1>7 DEF e, Q2

\* What the books say of one queue.
LEMMA BooksFields ==
  ASSUME NEW d, NEW Q, NEW L, NEW I, Books(d, Q, L, I), NEW q \in Queues
  PROVE  /\ d \in DBs /\ Holds(d.pending[q], d.delayed[q], Q[q])
         /\ [d EXCEPT !.pending[q] = d.pending[q], !.delayed[q] = d.delayed[q]] = d
<1>1. d \in DBs /\ Holds(d.pending[q], d.delayed[q], Q[q])
  BY DEF Books
<1>2. d.pending \in [Queues -> Seq(Tasks)] /\ d.delayed \in [Queues -> ZSets]
  BY <1>1 DEF DBs
<1>3. [d.pending EXCEPT ![q] = d.pending[q]] = d.pending
  BY <1>2
<1>4. [d.delayed EXCEPT ![q] = d.delayed[q]] = d.delayed
  BY <1>2
<1>5. QED
  BY <1>1, <1>3, <1>4 DEF DBs

\* placeInQueue enters a task that is not in the queue.
LEMMA PlaceBooks ==
  ASSUME NEW d, NEW Q, NEW L, NEW I, Books(d, Q, L, I),
         NEW q \in Queues, NEW id \in Tasks, id \notin Q[q], NEW runAt \in Nat, NEW at
  PROVE  Books(placeInQueue(d, id, q, runAt, at), Entered(Q, q, id), L, I)
<1>1. CASE ~(runAt > at)
  BY <1>1, PushBooks DEF placeInQueue
<1>2. CASE runAt > at
  <2> DEFINE z == ZAdd(d.delayed[q], id, runAt)
  <2>1. /\ d \in DBs /\ Holds(d.pending[q], d.delayed[q], Q[q])
        /\ Q \in [Queues -> SUBSET Tasks]
    BY BooksFields DEF Books
  <2>2. d.delayed[q] \in ZSets
    BY <2>1 DEF Holds
  <2>3. z \in ZSets /\ DOMAIN z = DOMAIN d.delayed[q] \cup {id}
    BY <2>2, ZSetOps
  <2> HIDE DEF z
  <2>4. Holds(d.pending[q], z, Q[q] \cup {id})
    BY <2>1, <2>3 DEF Holds
  <2>5. Books([d EXCEPT !.pending[q] = d.pending[q], !.delayed[q] = z],
              [Q EXCEPT ![q] = Q[q] \cup {id}], L, I)
    BY <2>4, QueueBooks
  <2>6. [d EXCEPT !.pending[q] = d.pending[q], !.delayed[q] = z] = [d EXCEPT !.delayed[q] = z]
    <3>1. d.pending \in [Queues -> Seq(Tasks)]
      BY <2>1 DEF DBs
    <3>2. [d.pending EXCEPT ![q] = d.pending[q]] = d.pending
      BY <3>1
    <3>3. QED
      BY <2>1, <3>2 DEF DBs
  <2>7. placeInQueue(d, id, q, runAt, at) = [d EXCEPT !.delayed[q] = z]
    BY <1>2 DEF placeInQueue, z
  <2>8. QED
    BY <2>5, <2>6, <2>7 DEF Entered
<1>3. QED
  BY <1>1, <1>2

\* removeFromQueue takes a task out, wherever it stands.
LEMMA RemoveBooks ==
  ASSUME NEW d, NEW Q, NEW L, NEW I, Books(d, Q, L, I), NEW q \in Queues, NEW id
  PROVE  Books(removeFromQueue(d, id, q), Left(Q, q, id), L, I)
<1>1. Holds(d.pending[q], d.delayed[q], Q[q])
  BY BooksFields
<1>2. /\ Distinct(LRem(d.pending[q], id))
      /\ Range(LRem(d.pending[q], id)) = Range(d.pending[q]) \ {id}
  BY <1>1, LRemDistinct DEF Holds
<1>3. /\ ZRem(d.delayed[q], {id}) \in ZSets
      /\ DOMAIN ZRem(d.delayed[q], {id}) = DOMAIN d.delayed[q] \ {id}
  BY <1>1, ZSetOps DEF Holds
<1>4. Holds(LRem(d.pending[q], id), ZRem(d.delayed[q], {id}), Q[q] \ {id})
  BY <1>1, <1>2, <1>3 DEF Holds
<1>5. QED
  BY <1>4, QueueBooks DEF removeFromQueue, Left

\* ZADD and ZREM of a lease.
LEMMA LeaseBooks ==
  ASSUME NEW d, NEW Q, NEW L, NEW I, Books(d, Q, L, I), NEW id \in Tasks, NEW until \in Nat
  PROVE  /\ Books(Watch(d, id, until), Q, ZAdd(L, id, until), I)
         /\ Books(Unwatch(d, id), Q, ZRem(L, {id}), I)
<1>1. d \in DBs /\ d.inflight = L /\ L \in ZSets
  BY DEF Books
<1>2. ASSUME NEW z \in ZSets PROVE Books([d EXCEPT !.inflight = z], Q, z, I)
  <2> DEFINE e == [d EXCEPT !.inflight = z]
  <2>1. /\ e \in DBs /\ e.inflight = z /\ e.index = d.index /\ e.stats = d.stats
        /\ e.pending = d.pending /\ e.delayed = d.delayed
    BY <1>1, <1>2 DEF DBs
  <2> HIDE DEF e
  <2>2. Books(e, Q, z, I)
    BY <1>2, <2>1 DEF Books
  <2>3. QED
    BY <2>2 DEF e
<1>3. ZAdd(L, id, until) \in ZSets /\ ZRem(L, {id}) \in ZSets
  BY <1>1, ZSetOps
<1>4. QED
  BY <1>1, <1>2, <1>3 DEF Watch, Unwatch

\* moveStatus carries a task from one index to another, and the counts with it.
LEMMA StatusBooks ==
  ASSUME NEW d, NEW Q, NEW L, NEW I, Books(d, Q, L, I), NEW id \in Tasks,
         NEW from \in Statuses, NEW to \in Statuses, id \in I[from], id \notin I[to]
  PROVE  Books(moveStatus(d, id, from, to), Q, L, Shifted(I, from, to, id))
<1> DEFINE I2 == [I EXCEPT ![from] = @ \ {id}, ![to] = @ \cup {id}]
           N2 == [d.stats EXCEPT ![from] = @ - 1, ![to] = @ + 1]
           e == [d EXCEPT !.index = I2, !.stats = N2]
<1>1. /\ d \in DBs /\ d.index = I /\ I \in [Statuses -> SUBSET Tasks]
      /\ d.stats \in [Statuses -> Int] /\ \A s \in Statuses : d.stats[s] = Cardinality(I[s])
  BY DEF Books, DBs
<1>2. moveStatus(d, id, from, to) = e
  BY <1>1 DEF moveStatus
<1>3. from # to
  OBVIOUS
<1>4. /\ I2 \in [Statuses -> SUBSET Tasks] /\ I2[from] = I[from] \ {id} /\ I2[to] = I[to] \cup {id}
      /\ \A s \in Statuses \ {from, to} : I2[s] = I[s]
  BY <1>1, <1>3
<1>5. /\ N2 \in [Statuses -> Int] /\ N2[from] = d.stats[from] - 1 /\ N2[to] = d.stats[to] + 1
      /\ \A s \in Statuses \ {from, to} : N2[s] = d.stats[s]
  BY <1>1, <1>3
<1> HIDE DEF I2, N2
<1>6. \A s \in Statuses : IsFiniteSet(I[s])
  BY <1>1, ConstantsAssumption, FS_Subset
<1>7. Cardinality(I[from] \ {id}) = Cardinality(I[from]) - 1
  BY <1>6, FS_RemoveElement
<1>8. Cardinality(I[to] \cup {id}) = Cardinality(I[to]) + 1
  BY <1>6, FS_AddElement
<1>9. \A s \in Statuses : N2[s] = Cardinality(I2[s])
  BY <1>1, <1>4, <1>5, <1>7, <1>8
<1>10. /\ e \in DBs /\ e.inflight = d.inflight /\ e.index = I2 /\ e.stats = N2
       /\ e.pending = d.pending /\ e.delayed = d.delayed
  BY <1>1, <1>4, <1>5 DEF DBs
<1> HIDE DEF e
<1>11. Books(e, Q, L, I2)
  BY <1>4, <1>9, <1>10 DEF Books
<1>12. QED
  BY <1>2, <1>11 DEF I2, Shifted

-------------------------------------------------------------------------------
(* One task moves: its hash is written and the structures follow.          *)

IsHashes(rs) == DOMAIN rs \subseteq Tasks /\ rs \in [DOMAIN rs -> Record]

\* What the structures ought to hold depends on the status, the queue and the
\* deadline of a lease only.
LEMMA SameView ==
  ASSUME NEW rs, NEW rs2, DOMAIN rs2 = DOMAIN rs,
         \A t \in DOMAIN rs : /\ rs2[t].status = rs[t].status
                              /\ rs2[t].queue = rs[t].queue
                              /\ rs[t].status = "running" => rs2[t].leaseUntil = rs[t].leaseUntil
  PROVE  /\ QueuesOf(rs2) = QueuesOf(rs) /\ LeasesOf(rs2) = LeasesOf(rs)
         /\ IndexesOf(rs2) = IndexesOf(rs)
         /\ \A d : Agrees(d, rs) => Agrees(d, rs2)
<1>1. QueuesOf(rs2) = QueuesOf(rs)
  BY DEF QueuesOf
<1>2. LeasesOf(rs2) = LeasesOf(rs)
  <2>1. {u \in DOMAIN rs2 : rs2[u].status = "running"} = {u \in DOMAIN rs : rs[u].status = "running"}
    OBVIOUS
  <2>2. QED
    BY <2>1 DEF LeasesOf
<1>3. IndexesOf(rs2) = IndexesOf(rs)
  BY DEF IndexesOf
<1>4. QED
  BY <1>1, <1>2, <1>3 DEF Agrees

\* What the write of one hash changes in what the structures ought to hold.
LEMMA WriteView ==
  ASSUME NEW rs, IsHashes(rs), NEW id \in DOMAIN rs, NEW s \in Record, s.queue = rs[id].queue
  PROVE  LET rs2 == [rs EXCEPT ![id] = s]
             r == rs[id]
         IN  /\ Queued(s.status) =>
                  QueuesOf(rs2) = Entered(QueuesOf(rs), s.queue, id)
             /\ ~Queued(s.status) =>
                  QueuesOf(rs2) = Left(QueuesOf(rs), s.queue, id)
             /\ s.status = "running" => LeasesOf(rs2) = ZAdd(LeasesOf(rs), id, s.leaseUntil)
             /\ s.status # "running" => LeasesOf(rs2) = ZRem(LeasesOf(rs), {id})
             /\ s.status # r.status =>
                  IndexesOf(rs2) = Shifted(IndexesOf(rs), r.status, s.status, id)
<1> DEFINE rs2 == [rs EXCEPT ![id] = s]
           r == rs[id]
<1>1. /\ DOMAIN rs2 = DOMAIN rs /\ rs2[id] = s /\ \A t \in DOMAIN rs \ {id} : rs2[t] = rs[t]
      /\ r \in Record /\ s.queue \in Queues /\ r.status \in Statuses /\ s.status \in Statuses
      /\ r.queue = s.queue
  BY DEF IsHashes, Record
<1> HIDE DEF rs2, r
<1>2. /\ Queued(s.status) => QueuesOf(rs2) = Entered(QueuesOf(rs), s.queue, id)
      /\ ~Queued(s.status) => QueuesOf(rs2) = Left(QueuesOf(rs), s.queue, id)
  <2> DEFINE F(T) == [QueuesOf(rs) EXCEPT ![s.queue] = T]
             G == QueuesOf(rs2)
             old == QueuesOf(rs)[s.queue]
  <2>1. ASSUME NEW q \in Queues, q # s.queue PROVE G[q] = QueuesOf(rs)[q]
    BY <1>1, <2>1 DEF QueuesOf, r
  <2>2. G[s.queue] = IF Queued(s.status) THEN old \cup {id} ELSE old \ {id}
    BY <1>1 DEF QueuesOf
  <2>3. DOMAIN QueuesOf(rs) = Queues /\ G = [q \in Queues |-> G[q]]
    BY DEF QueuesOf
  <2>4. ASSUME NEW T, G[s.queue] = T PROVE G = F(T)
    <3>1. F(T) = [q \in Queues |-> IF q = s.queue THEN T ELSE QueuesOf(rs)[q]]
      BY <2>3
    <3>2. \A q \in Queues : G[q] = IF q = s.queue THEN T ELSE QueuesOf(rs)[q]
      BY <2>1, <2>4
    <3> HIDE DEF G, F
    <3>3. QED
      BY <2>3, <3>1, <3>2
  <2>5. Queued(s.status) => G = F(old \cup {id})
    BY <2>2, <2>4
  <2>6. ~Queued(s.status) => G = F(old \ {id})
    BY <2>2, <2>4
  <2>7. QED
    BY <2>5, <2>6, Zenon DEF Entered, Left
<1>3. LeasesOf(rs2) = IF s.status = "running" THEN ZAdd(LeasesOf(rs), id, s.leaseUntil)
                      ELSE ZRem(LeasesOf(rs), {id})
  <2> DEFINE X(h) == {u \in DOMAIN h : h[u].status = "running"}
  <2>1. /\ LeasesOf(rs) = [t \in X(rs) |-> rs[t].leaseUntil]
        /\ LeasesOf(rs2) = [t \in X(rs2) |-> rs2[t].leaseUntil]
    BY DEF LeasesOf
  <2>2. X(rs2) = IF s.status = "running" THEN X(rs) \cup {id} ELSE X(rs) \ {id}
    BY <1>1
  <2>3. CASE s.status = "running"
    BY <1>1, <2>1, <2>2, <2>3 DEF ZAdd
  <2>4. CASE s.status # "running"
    BY <1>1, <2>1, <2>2, <2>4 DEF ZRem, Restrict
  <2>5. QED
    BY <2>3, <2>4
<1>4. ASSUME s.status # r.status
      PROVE  IndexesOf(rs2) = Shifted(IndexesOf(rs), r.status, s.status, id)
  <2> DEFINE F == [IndexesOf(rs) EXCEPT ![r.status] = @ \ {id}, ![s.status] = @ \cup {id}]
  <2>1. /\ F = [x \in Statuses |-> F[x]] /\ IndexesOf(rs2) = [x \in Statuses |-> IndexesOf(rs2)[x]]
    BY DEF IndexesOf
  <2>2. ASSUME NEW x \in Statuses PROVE IndexesOf(rs2)[x] = F[x]
    <3>1. F[x] = IF x = s.status THEN IndexesOf(rs)[x] \cup {id}
                 ELSE IF x = r.status THEN IndexesOf(rs)[x] \ {id} ELSE IndexesOf(rs)[x]
      BY <1>1, <1>4, <2>2 DEF IndexesOf
    <3> HIDE DEF F
    <3>2. /\ IndexesOf(rs)[x] = {t \in DOMAIN rs : rs[t].status = x}
          /\ IndexesOf(rs2)[x] = {t \in DOMAIN rs2 : rs2[t].status = x}
      BY <2>2 DEF IndexesOf
    <3>3. QED
      BY <1>1, <1>4, <3>1, <3>2 DEF r
  <2>3. IndexesOf(rs2) = F
    <3> HIDE DEF F
    <3>1. QED
      BY <2>1, <2>2
  <2>4. QED
    BY <2>3 DEF Shifted
<1>5. QED
  BY <1>2, <1>3, <1>4, Zenon DEF rs2, r

\* Where a task stands before it moves.
LEMMA StandsIn ==
  ASSUME NEW rs, IsHashes(rs), NEW id \in DOMAIN rs
  PROVE  /\ id \in Tasks /\ rs[id] \in Record
         /\ rs[id].status \in Statuses /\ rs[id].queue \in Queues
         /\ \A x \in Statuses : id \in IndexesOf(rs)[x] <=> x = rs[id].status
         /\ \A q \in Queues : id \in QueuesOf(rs)[q] <=> Queued(rs[id].status) /\ q = rs[id].queue
         /\ id \in DOMAIN LeasesOf(rs) <=> rs[id].status = "running"
         /\ rs[id].status # "running" => ZRem(LeasesOf(rs), {id}) = LeasesOf(rs)
<1>1. id \in Tasks /\ rs[id] \in Record /\ rs[id].status \in Statuses /\ rs[id].queue \in Queues
  BY DEF IsHashes, Record
<1>2. /\ \A x \in Statuses : id \in IndexesOf(rs)[x] <=> x = rs[id].status
      /\ \A q \in Queues : id \in QueuesOf(rs)[q] <=> Queued(rs[id].status) /\ q = rs[id].queue
      /\ id \in DOMAIN LeasesOf(rs) <=> rs[id].status = "running"
  BY DEF IndexesOf, QueuesOf, LeasesOf
<1>3. ASSUME rs[id].status # "running" PROVE ZRem(LeasesOf(rs), {id}) = LeasesOf(rs)
  <2>1. DOMAIN LeasesOf(rs) \ {id} = DOMAIN LeasesOf(rs)
    BY <1>2, <1>3
  <2>2. LeasesOf(rs) = [t \in DOMAIN LeasesOf(rs) |-> LeasesOf(rs)[t]]
    BY DEF LeasesOf
  <2>3. QED
    BY <2>1, <2>2 DEF ZRem, Restrict
<1>4. QED
  BY <1>1, <1>2, <1>3

\* forceCancel, from any status.
LEMMA CancelAgrees ==
  ASSUME NEW d, NEW rs, IsHashes(rs), Agrees(d, rs), NEW id \in DOMAIN rs, NEW s \in Record,
         s.queue = rs[id].queue, s.status = "canceled", rs[id].status # "canceled"
  PROVE  Agrees(forceCancel(d, id, rs[id]), [rs EXCEPT ![id] = s])
<1> DEFINE r == rs[id]
           Q == QueuesOf(rs)
           L == LeasesOf(rs)
           I == IndexesOf(rs)
           Q2 == Left(Q, s.queue, id)
           d1 == removeFromQueue(d, id, s.queue)
           d2 == Unwatch(d1, id)
           d3 == moveStatus(d2, id, r.status, s.status)
<1>1. /\ id \in Tasks /\ r.status \in Statuses /\ s.queue \in Queues /\ s.status \in Statuses
      /\ id \in I[r.status] /\ id \notin I[s.status]
  <2>1. s.queue \in Queues /\ s.status \in Statuses
    BY DEF Record
  <2>2. /\ id \in Tasks /\ r.status \in Statuses
        /\ \A x \in Statuses : id \in I[x] <=> x = r.status
    BY StandsIn
  <2>3. QED
    BY <2>1, <2>2
<1>2. Books(d1, Q2, L, I)
  BY <1>1, RemoveBooks DEF Agrees
<1>3. Books(d2, Q2, ZRem(L, {id}), I)
  <2> HIDE DEF d1, Q2, L, I
  <2>1. QED
    BY <1>1, <1>2, LeaseBooks
<1>4. Books(d3, Q2, ZRem(L, {id}), Shifted(I, r.status, s.status, id))
  <2> HIDE DEF d2, Q2, L, I, r
  <2>1. QED
    BY <1>1, <1>3, StatusBooks
<1>5. ~Queued(s.status) /\ s.status # "running" /\ s.status # r.status
  BY DEF Queued
<1>6. /\ QueuesOf([rs EXCEPT ![id] = s]) = Q2
      /\ LeasesOf([rs EXCEPT ![id] = s]) = ZRem(L, {id})
      /\ IndexesOf([rs EXCEPT ![id] = s])
           = Shifted(I, r.status, s.status, id)
  BY <1>5, WriteView
<1>7. forceCancel(d, id, rs[id]) = d3
  BY DEF forceCancel
<1>8. QED
  BY <1>4, <1>6, <1>7 DEF Agrees

\* A running task ends.
LEMMA EndAgrees ==
  ASSUME NEW d, NEW rs, IsHashes(rs), Agrees(d, rs), NEW id \in DOMAIN rs, NEW s \in Record,
         s.queue = rs[id].queue, rs[id].status = "running",
         s.status # "running", ~Queued(s.status)
  PROVE  Agrees(LeaveRunning(d, id, s.status), [rs EXCEPT ![id] = s])
<1> DEFINE Q == QueuesOf(rs)
           L == LeasesOf(rs)
           I == IndexesOf(rs)
           d2 == Unwatch(d, id)
           d3 == moveStatus(d2, id, "running", s.status)
<1>1. /\ id \in Tasks /\ "running" \in Statuses /\ s.status \in Statuses /\ s.queue \in Queues
      /\ id \in I["running"] /\ id \notin I[s.status] /\ id \notin Q[s.queue]
  BY StandsIn DEF Statuses, Record, Queued
<1>2. Books(d, Q, L, I) /\ Q \in [Queues -> SUBSET Tasks]
  BY DEF Agrees, Books
<1>3. Books(d2, Q, ZRem(L, {id}), I)
  <2> HIDE DEF Q, L, I
  <2>1. QED
    BY <1>1, <1>2, LeaseBooks
<1>4. Books(d3, Q, ZRem(L, {id}), Shifted(I, "running", s.status, id))
  <2> HIDE DEF d2, Q, L, I
  <2>1. QED
    BY <1>1, <1>3, StatusBooks
<1>5. Left(Q, s.queue, id) = Q
  <2> HIDE DEF Q
  <2>1. Q[s.queue] \ {id} = Q[s.queue]
    BY <1>1
  <2>2. QED
    BY <1>1, <1>2, <2>1 DEF Left
<1>6. /\ QueuesOf([rs EXCEPT ![id] = s]) = Q
      /\ LeasesOf([rs EXCEPT ![id] = s]) = ZRem(L, {id})
      /\ IndexesOf([rs EXCEPT ![id] = s])
           = Shifted(I, "running", s.status, id)
  <2>1. s.status # rs[id].status /\ rs[id].status = "running"
    OBVIOUS
  <2>2. QED
    BY <1>5, <2>1, WriteView
<1>7. LeaveRunning(d, id, s.status) = d3
  BY DEF LeaveRunning
<1>8. QED
  BY <1>4, <1>6, <1>7 DEF Agrees

\* A running task goes back to its queue; e are the structures with the task entered.
LEMMA BackAgrees ==
  ASSUME NEW rs, IsHashes(rs), NEW id \in DOMAIN rs, NEW s \in Record,
         s.queue = rs[id].queue, rs[id].status = "running", Queued(s.status),
         NEW e, Books(e, Entered(QueuesOf(rs), s.queue, id), LeasesOf(rs), IndexesOf(rs))
  PROVE  Agrees(LeaveRunning(e, id, s.status), [rs EXCEPT ![id] = s])
<1> DEFINE Q2 == Entered(QueuesOf(rs), s.queue, id)
           L == LeasesOf(rs)
           I == IndexesOf(rs)
           d2 == Unwatch(e, id)
           d3 == moveStatus(d2, id, "running", s.status)
<1>1. /\ id \in Tasks /\ "running" \in Statuses /\ s.status \in Statuses /\ s.queue \in Queues
      /\ id \in I["running"] /\ id \notin I[s.status] /\ s.status # "running"
  BY StandsIn DEF Statuses, Record, Queued
<1>2. Books(d2, Q2, ZRem(L, {id}), I)
  <2> HIDE DEF Q2, L, I
  <2>1. QED
    BY <1>1, LeaseBooks DEF Q2, L, I
<1>3. Books(d3, Q2, ZRem(L, {id}), Shifted(I, "running", s.status, id))
  <2> HIDE DEF d2, Q2, L, I
  <2>1. QED
    BY <1>1, <1>2, StatusBooks
<1>4. /\ QueuesOf([rs EXCEPT ![id] = s]) = Q2
      /\ LeasesOf([rs EXCEPT ![id] = s]) = ZRem(L, {id})
      /\ IndexesOf([rs EXCEPT ![id] = s])
           = Shifted(I, "running", s.status, id)
  <2>1. s.status # rs[id].status /\ rs[id].status = "running"
    BY <1>1
  <2>2. QED
    BY <1>1, <2>1, WriteView
<1>5. LeaveRunning(e, id, s.status) = d3
  BY DEF LeaveRunning
<1>6. QED
  BY <1>3, <1>4, <1>5 DEF Agrees

\* A blocked task is woken.
LEMMA WakeAgrees ==
  ASSUME NEW d, NEW rs, IsHashes(rs), Agrees(d, rs), NEW id \in DOMAIN rs, NEW s \in Record,
         s.queue = rs[id].queue, rs[id].status = "blocked", s.status = "pending", NEW at
  PROVE  Agrees(moveStatus(placeInQueue(d, id, rs[id].queue, rs[id].runAt, at), id,
                           "blocked", "pending"),
                [rs EXCEPT ![id] = s])
<1> DEFINE Q == QueuesOf(rs)
           Q2 == Entered(Q, s.queue, id)
           L == LeasesOf(rs)
           I == IndexesOf(rs)
           d2 == placeInQueue(d, id, s.queue, rs[id].runAt, at)
           d3 == moveStatus(d2, id, "blocked", "pending")
<1>1. /\ id \in Tasks /\ "blocked" \in Statuses /\ "pending" \in Statuses /\ s.queue \in Queues
      /\ id \in I["blocked"] /\ id \notin I["pending"] /\ id \notin Q[s.queue]
      /\ ZRem(L, {id}) = L
  BY StandsIn DEF Statuses, Record, Queued
<1>2. rs[id].runAt \in Nat
  BY StandsIn DEF Record
<1>3. Books(d2, Q2, L, I)
  <2>1. Books(d, Q, L, I)
    BY DEF Agrees
  <2> HIDE DEF Q, L, I
  <2>2. QED
    BY <1>1, <1>2, <2>1, PlaceBooks
<1>4. Books(d3, Q2, L, Shifted(I, "blocked", "pending", id))
  <2> HIDE DEF d2, Q2, L, I
  <2>1. QED
    BY <1>1, <1>3, StatusBooks
<1>5. Queued("pending")
  BY DEF Queued
<1>6. /\ QueuesOf([rs EXCEPT ![id] = s]) = Q2
      /\ LeasesOf([rs EXCEPT ![id] = s]) = L
      /\ IndexesOf([rs EXCEPT ![id] = s])
           = Shifted(I, "blocked", "pending", id)
  <2>1. s.status # rs[id].status /\ s.status # "running"
    OBVIOUS
  <2>2. QED
    BY <1>1, <1>5, <2>1, WriteView
<1>7. QED
  BY <1>4, <1>6 DEF Agrees

\* The moves that a cascade and the reaper make.
CascadeMove(r, s) ==
  /\ s.queue = r.queue
  /\ \/ s.status = "canceled" /\ r.status # "canceled"
     \/ s.status = "failed" /\ r.status = "running"
     \/ s.status = "pending" /\ r.status \in {"running", "blocked"}

\* One of them: the structures follow the hash.
LEMMA MovedAgrees ==
  ASSUME NEW d, NEW rs, IsHashes(rs), Agrees(d, rs), NEW id \in DOMAIN rs, NEW s \in Record,
         CascadeMove(rs[id], s), NEW at
  PROVE  Agrees(Moved(d, id, rs[id], s, at), [rs EXCEPT ![id] = s])
<1>1. CASE s.status = "canceled"
  <2>1. Moved(d, id, rs[id], s, at) = forceCancel(d, id, rs[id])
    BY <1>1 DEF Moved
  <2>2. QED
    BY <1>1, <2>1, CancelAgrees DEF CascadeMove
<1>2. CASE s.status = "failed"
  <2>1. Moved(d, id, rs[id], s, at) = LeaveRunning(d, id, s.status)
    BY <1>2 DEF Moved
  <2>2. ~Queued(s.status) /\ s.status # "running" /\ rs[id].status = "running"
    BY <1>2 DEF CascadeMove, Queued
  <2>3. QED
    BY <2>1, <2>2, EndAgrees DEF CascadeMove
<1>3. CASE s.status = "pending" /\ rs[id].status = "running"
  <2> DEFINE e == [d EXCEPT !.pending[rs[id].queue] = Append(@, id)]
  <2>1. Moved(d, id, rs[id], s, at) = LeaveRunning(e, id, s.status)
    BY <1>3 DEF Moved
  <2>2. s.queue = rs[id].queue /\ Queued(s.status) /\ ~Queued("running")
    BY <1>3 DEF CascadeMove, Queued
  <2>3. id \in Tasks /\ s.queue \in Queues /\ id \notin QueuesOf(rs)[s.queue]
    BY <1>3, <2>2, StandsIn, ZenonT(60)
  <2>4. Books(e, Entered(QueuesOf(rs), s.queue, id), LeasesOf(rs), IndexesOf(rs))
    BY <2>2, <2>3, PushBooks DEF Agrees
  <2> HIDE DEF e
  <2>5. QED
    BY <1>3, <2>1, <2>2, <2>4, BackAgrees
<1>4. CASE s.status = "pending" /\ rs[id].status = "blocked"
  <2>1. Moved(d, id, rs[id], s, at)
          = moveStatus(placeInQueue(d, id, rs[id].queue, rs[id].runAt, at), id, "blocked", "pending")
    BY <1>4 DEF Moved
  <2>2. QED
    BY <1>4, <2>1, WakeAgrees DEF CascadeMove
<1>5. QED
  BY <1>1, <1>2, <1>3, <1>4 DEF CascadeMove

-------------------------------------------------------------------------------
(* Many tasks move, one after the other.                                   *)

\* An ordering of a finite set of tasks is a list of exactly those.
LEMMA OrderingOf ==
  ASSUME NEW C \in SUBSET Tasks, NEW order \in SetToSeqs(C)
  PROVE  Distinct(order) /\ Range(order) = C
<1>1. IsFiniteSet(C)
  BY ConstantsAssumption, FS_Subset
<1>2. PICK N \in Nat : N = Cardinality(C)
  BY <1>1, FS_CardinalityType
<1>3. order \in [1..N -> C] /\ \A i, j \in 1..N : i # j => order[i] # order[j]
  BY <1>2 DEF SetToSeqs
<1>4. order \in Injection(1..N, C)
  BY <1>3 DEF Injection, IsInjective
<1>5. Cardinality(1..N) = N
  BY <1>2, FS_Interval
<1>6. order \in Surjection(1..N, C)
  BY <1>1, <1>2, <1>4, <1>5, FS_Injection
<1>7. Range(order) = C
  BY <1>3, <1>6 DEF Surjection, Range
<1>8. order \in Seq(Tasks) /\ DOMAIN order = 1..N
  BY <1>2, <1>3
<1>9. QED
  BY <1>3, <1>7, <1>8 DEF Distinct

\* The structures after each of the moves that MovedInOrder makes.
LEMMA MovedRecursion ==
  ASSUME NEW d, NEW rs, NEW rs2, NEW at, NEW order \in Seq(Tasks)
  PROVE  \E f : /\ \A n \in 0..Len(order) :
                     f[n] = IF n = 0 THEN d
                            ELSE Moved(f[n - 1], order[n], rs[order[n]], rs2[order[n]], at)
                /\ MovedInOrder(d, rs, rs2, at, order) = f[Len(order)]
<1> DEFINE N == Len(order)
           body(g, n) == IF n = 0 THEN d
                         ELSE Moved(g[n - 1], order[n], rs[order[n]], rs2[order[n]], at)
           S == {n \in Nat : \E g : \A m \in 0..n : g[m] = body(g, m)}
           after == CHOOSE f : f = [n \in 0..N |-> body(f, n)]
<1>1. N \in Nat
  OBVIOUS
<1>2. 0 \in S
  <2>1. \A m \in 0..0 : [x \in {0} |-> d][m] = body([x \in {0} |-> d], m)
    OBVIOUS
  <2>2. QED
    BY <2>1
<1>3. ASSUME NEW n \in 0..N, n # N, n \in S PROVE n + 1 \in S
  <2>1. PICK g : \A m \in 0..n : g[m] = body(g, m)
    BY <1>3
  <2> DEFINE h == [x \in 0..(n + 1) |-> IF x = n + 1 THEN body(g, n + 1) ELSE g[x]]
  <2>2. \A m \in 0..n : h[m] = g[m]
    BY <1>3
  <2>3. h[n + 1] = body(g, n + 1)
    BY <1>3
  <2> HIDE DEF h
  <2>4. ASSUME NEW m \in 0..(n + 1) PROVE h[m] = body(h, m)
    <3>1. CASE m = 0
      BY <2>1, <2>2, <3>1, <1>3
    <3>2. CASE m # 0 /\ m # n + 1
      <4>1. m \in 0..n /\ m - 1 \in 0..n
        BY <3>2
      <4>2. QED
        BY <2>1, <2>2, <3>2, <4>1
    <3>3. CASE m = n + 1
      BY <2>2, <2>3, <3>3, <1>3
    <3>4. QED
      BY <3>1, <3>2, <3>3
  <2>5. QED
    BY <2>4
<1>4. PICK g : \A m \in 0..N : g[m] = body(g, m)
  <2>1. \A n \in 0..N : n \in S
    <3> HIDE DEF S, N
    <3>1. QED
      BY <1>1, <1>2, <1>3, Reaches
  <2>2. N \in S
    <3> HIDE DEF S, N
    <3>1. QED
      BY <1>1, <2>1
  <2>3. QED
    BY <2>2
<1>5. \E f : f = [n \in 0..N |-> body(f, n)]
  <2> DEFINE f == [n \in 0..N |-> g[n]]
  <2>1. \A n \in 0..N : n # 0 => n - 1 \in 0..N
    BY <1>1
  <2>2. \A n \in 0..N : f[n] = g[n] /\ (n # 0 => f[n - 1] = g[n - 1])
    BY <2>1
  <2>3. \A n \in 0..N : g[n] = body(f, n)
    BY <1>4, <2>2
  <2>4. f = [n \in 0..N |-> body(f, n)]
    BY <2>3
  <2>5. QED
    BY <2>4
<1>6. after = [n \in 0..N |-> body(after, n)]
  BY <1>5
<1>7. MovedInOrder(d, rs, rs2, at, order) = after[N]
  BY DEF MovedInOrder
<1> HIDE DEF after
<1>8. \A n \in 0..N : after[n] = body(after, n)
  BY <1>6
<1>9. QED
  BY <1>7, <1>8

\* rs2 are the hashes rs after a cascade or a reap: what did not move still
\* belongs to the same queue and has the same deadline.
MovesFrom(rs, rs2) ==
  /\ IsHashes(rs) /\ IsHashes(rs2) /\ DOMAIN rs2 = DOMAIN rs
  /\ \A t \in DOMAIN rs :
       \/ /\ rs2[t].status = rs[t].status /\ rs2[t].queue = rs[t].queue
          /\ rs[t].status = "running" => rs2[t].leaseUntil = rs[t].leaseUntil
       \/ CascadeMove(rs[t], rs2[t])

\* In whatever order the walk meets the tasks, the structures end up in agreement.
LEMMA AllMovedAgrees ==
  ASSUME NEW d, NEW rs, NEW rs2, NEW at, NEW d2, MovesFrom(rs, rs2), Agrees(d, rs),
         AllMoved(d, rs, rs2, at, d2)
  PROVE  Agrees(d2, rs2)
<1> DEFINE D == DOMAIN rs
           C == {t \in D : rs2[t].status # rs[t].status}
<1>1. /\ IsHashes(rs) /\ IsHashes(rs2) /\ DOMAIN rs2 = D /\ D \subseteq Tasks
      /\ \A t \in D : rs[t] \in Record /\ rs2[t] \in Record
  BY DEF MovesFrom, IsHashes
<1>2. PICK order \in SetToSeqs(C) : d2 = MovedInOrder(d, rs, rs2, at, order)
  BY DEF AllMoved
<1>3. Distinct(order) /\ Range(order) = C
  BY <1>1, OrderingOf
<1>4. PICK N \in Nat : N = Len(order) /\ DOMAIN order = 1..N /\ order \in Seq(Tasks)
  BY <1>3 DEF Distinct
<1>5. PICK f : /\ \A n \in 0..N :
                    f[n] = IF n = 0 THEN d
                           ELSE Moved(f[n - 1], order[n], rs[order[n]], rs2[order[n]], at)
               /\ d2 = f[N]
  <2>1. \E f : /\ \A n \in 0..Len(order) :
                    f[n] = IF n = 0 THEN d
                           ELSE Moved(f[n - 1], order[n], rs[order[n]], rs2[order[n]], at)
               /\ d2 = f[Len(order)]
    BY <1>2, <1>4, MovedRecursion
  <2>2. QED
    BY <1>4, <2>1
<1> DEFINE done(n) == {order[i] : i \in 1..n}
           mix(n) == [t \in D |-> IF t \in done(n) THEN rs2[t] ELSE rs[t]]
           S == {n \in Nat : Agrees(f[n], mix(n))}
<1>6. 0 \in S
  <2>1. f[0] = d
    BY <1>4, <1>5
  <2>2. \A t \in D : mix(0)[t] = rs[t]
    OBVIOUS
  <2>3. DOMAIN mix(0) = DOMAIN rs
    OBVIOUS
  <2> HIDE DEF mix
  <2>4. Agrees(d, mix(0))
    BY <2>2, <2>3, SameView
  <2>5. QED
    BY <2>1, <2>4
<1>7. ASSUME NEW n \in 0..N, n # N, n \in S PROVE n + 1 \in S
  <2>1. /\ n \in Nat /\ n + 1 \in 0..N /\ n + 1 \in 1..N /\ n + 1 # 0 /\ (n + 1) - 1 = n
        /\ \A i \in 1..n : i \in 1..N /\ i # n + 1
        /\ \A i : i \in 1..(n + 1) <=> i \in 1..n \/ i = n + 1
    <3> HIDE DEF S
    <3>1. QED
      BY <1>4, <1>7
  <2> DEFINE id == order[n + 1]
  <2>2. Agrees(f[n], mix(n))
    BY <1>7
  <2>3. id \in C /\ id \in D
    BY <1>3, <1>4, <2>1 DEF Range
  <2>4. id \notin done(n)
    BY <1>3, <1>4, <2>1 DEF Distinct
  <2>5. done(n + 1) = done(n) \cup {id}
    BY <2>1
  <2>6. mix(n)[id] = rs[id] /\ DOMAIN mix(n) = D
    BY <2>3, <2>4
  <2>7. IsHashes(mix(n))
    BY <1>1 DEF IsHashes
  <2>8. mix(n + 1) = [mix(n) EXCEPT ![id] = rs2[id]]
    <3>1. \A t \in D : t \in done(n + 1) <=> t \in done(n) \/ t = id
      BY <2>5
    <3> HIDE DEF done, id
    <3>2. QED
      BY <2>3, <3>1
  <2>9. f[n + 1] = Moved(f[n], id, mix(n)[id], rs2[id], at)
    BY <1>5, <2>1, <2>6
  <2>10. CascadeMove(mix(n)[id], rs2[id]) /\ rs2[id] \in Record
    BY <1>1, <2>3, <2>6 DEF MovesFrom
  <2> HIDE DEF mix, id
  <2>11. Agrees(f[n + 1], mix(n + 1))
    <3>1. Agrees(Moved(f[n], id, mix(n)[id], rs2[id], at), [mix(n) EXCEPT ![id] = rs2[id]])
      BY <2>2, <2>3, <2>6, <2>7, <2>10, MovedAgrees
    <3>2. QED
      BY <2>8, <2>9, <3>1, Zenon
  <2>12. QED
    BY <2>1, <2>11
<1>8. Agrees(d2, mix(N))
  <2>1. \A n \in 0..N : n \in S
    <3> HIDE DEF S
    <3>1. QED
      BY <1>6, <1>7, Reaches
  <2>2. N \in S
    BY <1>4, <2>1
  <2>3. QED
    BY <1>5, <2>2
<1>9. \A t \in D : t \in done(N) <=> t \in C
  BY <1>3, <1>4 DEF Range
<1>10. DOMAIN mix(N) = D
  OBVIOUS
<1>11. \A t \in D : /\ rs2[t].status = mix(N)[t].status
                    /\ rs2[t].queue = mix(N)[t].queue
                    /\ mix(N)[t].status = "running" => rs2[t].leaseUntil = mix(N)[t].leaseUntil
  <2>1. SUFFICES ASSUME NEW t \in D
                 PROVE  /\ rs2[t].status = mix(N)[t].status
                        /\ rs2[t].queue = mix(N)[t].queue
                        /\ mix(N)[t].status = "running" => rs2[t].leaseUntil = mix(N)[t].leaseUntil
    OBVIOUS
  <2>2. CASE t \in C
    <3>1. mix(N)[t] = rs2[t]
      BY <1>9, <2>1, <2>2
    <3>2. QED
      BY <3>1
  <2>3. CASE t \notin C
    <3>1. mix(N)[t] = rs[t] /\ rs2[t].status = rs[t].status
      BY <1>9, <2>1, <2>3
    <3>2. ~CascadeMove(rs[t], rs2[t])
      BY <3>1 DEF CascadeMove
    <3>3. QED
      BY <2>1, <3>1, <3>2 DEF MovesFrom
  <2>4. QED
    BY <2>2, <2>3
<1> HIDE DEF mix
<1>12. QED
  BY <1>1, <1>8, <1>10, <1>11, SameView

-------------------------------------------------------------------------------
(* A claim takes a task out of its queue.                                  *)

\* Two lists without a common task, one behind the other.
LEMMA ConcatDistinct ==
  ASSUME NEW a, NEW b, Distinct(a), Distinct(b), Range(a) \cap Range(b) = {}
  PROVE  Distinct(a \o b) /\ Range(a \o b) = Range(a) \cup Range(b)
<1>1. PICK m \in Nat, n \in Nat : m = Len(a) /\ n = Len(b)
  BY DEF Distinct
<1>2. a \in Seq(Tasks) /\ b \in Seq(Tasks) /\ DOMAIN a = 1..m /\ DOMAIN b = 1..n
  BY <1>1 DEF Distinct
<1> DEFINE L == a \o b
<1>3. /\ L \in Seq(Tasks) /\ DOMAIN L = 1..(m + n)
      /\ \A i \in 1..(m + n) : L[i] = IF i <= m THEN a[i] ELSE b[i - m]
  BY <1>1, <1>2
<1> HIDE DEF L
<1>4. \A i \in 1..(m + n) : i <= m => i \in 1..m
  BY <1>1
<1>5. \A i \in 1..(m + n) : ~(i <= m) => i - m \in 1..n
  BY <1>1
<1>6. \A i \in 1..m, j \in 1..n : a[i] # b[j]
  BY <1>2 DEF Range
<1>7. Distinct(L)
  <2>1. SUFFICES ASSUME NEW i \in 1..(m + n), NEW j \in 1..(m + n), L[i] = L[j] PROVE i = j
    BY <1>3 DEF Distinct
  <2>2. CASE i <= m /\ j <= m
    BY <1>2, <1>3, <1>4, <2>1, <2>2 DEF Distinct
  <2>3. CASE ~(i <= m) /\ ~(j <= m)
    <3>1. i - m \in 1..n /\ j - m \in 1..n /\ b[i - m] = b[j - m]
      BY <1>3, <1>5, <2>1, <2>3
    <3>2. i - m = j - m
      BY <1>2, <3>1 DEF Distinct
    <3>3. QED
      BY <1>1, <2>1, <3>2
  <2>4. CASE i <= m /\ ~(j <= m)
    BY <1>3, <1>4, <1>5, <1>6, <2>1, <2>4
  <2>5. CASE ~(i <= m) /\ j <= m
    BY <1>3, <1>4, <1>5, <1>6, <2>1, <2>5
  <2>6. QED
    BY <2>2, <2>3, <2>4, <2>5
<1>8. ASSUME NEW x \in Range(L) PROVE x \in Range(a) \cup Range(b)
  BY <1>2, <1>3, <1>4, <1>5, <1>8 DEF Range
<1>9. ASSUME NEW x \in Range(a) PROVE x \in Range(L)
  <2>1. PICK i \in 1..m : x = a[i]
    BY <1>2, <1>9 DEF Range
  <2>2. i \in 1..(m + n) /\ i <= m
    BY <1>1
  <2>3. QED
    BY <1>3, <2>1, <2>2 DEF Range
<1>10. ASSUME NEW x \in Range(b) PROVE x \in Range(L)
  <2>1. PICK i \in 1..n : x = b[i]
    BY <1>2, <1>10 DEF Range
  <2>2. i + m \in 1..(m + n) /\ ~(i + m <= m) /\ (i + m) - m = i
    BY <1>1
  <2>3. QED
    BY <1>3, <2>1, <2>2 DEF Range
<1>11. QED
  BY <1>7, <1>8, <1>9, <1>10 DEF L

\* The tasks that are due go from the sorted set to the list.
LEMMA MoveDueBooks ==
  ASSUME NEW d, NEW Q, NEW L, NEW I, Books(d, Q, L, I), NEW q \in Queues, NEW at,
         NEW due \in Due(d.delayed[q], at)
  PROVE  Books(MoveDue(d, q, due), Q, L, I)
<1> DEFINE list == d.pending[q]
           z == d.delayed[q]
           C == {t \in DOMAIN z : z[t] <= at}
<1>1. Holds(list, z, Q[q]) /\ Q \in [Queues -> SUBSET Tasks]
  BY BooksFields DEF Books
<1>2. DOMAIN z \subseteq Tasks
  BY <1>1, ZSetOps DEF Holds
<1>3. Distinct(due) /\ Range(due) = C
  <2>1. due \in SetToSeqs(C)
    BY DEF Due
  <2>2. C \in SUBSET Tasks
    BY <1>2
  <2> HIDE DEF C
  <2>3. QED
    BY <2>1, <2>2, OrderingOf
<1>4. C \subseteq DOMAIN z
  OBVIOUS
<1> HIDE DEF C, list, z
<1>5. Distinct(list \o due) /\ Range(list \o due) = Range(list) \cup C
  BY <1>1, <1>3, <1>4, ConcatDistinct DEF Holds
<1>6. ZRem(z, C) \in ZSets /\ DOMAIN ZRem(z, C) = DOMAIN z \ C
  BY <1>1, ZSetOps DEF Holds
<1>7. Holds(list \o due, ZRem(z, C), Q[q])
  BY <1>1, <1>4, <1>5, <1>6 DEF Holds
<1>8. Books([d EXCEPT !.pending[q] = list \o due, !.delayed[q] = ZRem(z, C)],
            [Q EXCEPT ![q] = Q[q]], L, I)
  BY <1>7, QueueBooks
<1>9. [Q EXCEPT ![q] = Q[q]] = Q
  BY <1>1
<1>10. MoveDue(d, q, due) = [d EXCEPT !.pending[q] = list \o due, !.delayed[q] = ZRem(z, C)]
  BY <1>3 DEF MoveDue, list, z
<1>11. QED
  BY <1>8, <1>9, <1>10

\* How far a list is popped.
LEMMA PopCountMeaning ==
  ASSUME NEW list, Distinct(list), NEW at
  PROVE  LET n == PopCount(list, at)
         IN  /\ n \in 0..Len(list)
             /\ CanRun(list, at) = {} => n = Len(list)
             /\ CanRun(list, at) # {} => /\ n \in CanRun(list, at)
                                         /\ \A i \in 1..n : i \in CanRun(list, at) => i = n
<1>1. PICK N \in Nat : N = Len(list) /\ DOMAIN list = 1..N
  BY DEF Distinct
<1> DEFINE S == CanRun(list, at)
<1>2. S \in SUBSET (1..N)
  BY <1>1 DEF CanRun
<1> HIDE DEF S
<1>3. CASE S = {}
  BY <1>1, <1>3 DEF PopCount, S
<1>4. CASE S # {}
  <2>1. \E x \in S : \A y \in S : x <= y
    BY <1>1, <1>2, <1>4, LeastNat
  <2>2. Min(S) \in S /\ \A y \in S : Min(S) <= y
    BY <2>1 DEF Min
  <2>3. PopCount(list, at) = Min(S)
    BY <1>4 DEF PopCount, S
  <2>4. QED
    BY <1>1, <1>2, <1>4, <2>2, <2>3 DEF S
<1>5. QED
  BY <1>3, <1>4

\* The two parts of a list that is popped.
LEMMA CutDistinct ==
  ASSUME NEW list, Distinct(list), NEW n \in 0..Len(list)
  PROVE  LET tail == SubSeq(list, n + 1, Len(list))
         IN  /\ Distinct(tail)
             /\ Range(SubSeq(list, 1, n)) = {list[i] : i \in 1..n}
             /\ Range(tail) = Range(list) \ {list[i] : i \in 1..n}
<1>1. PICK N \in Nat : N = Len(list) /\ DOMAIN list = 1..N /\ list \in Seq(Tasks)
  BY DEF Distinct
<1> DEFINE head == SubSeq(list, 1, n)
           tail == SubSeq(list, n + 1, N)
<1>2. n \in 0..N /\ N - n \in Nat
  BY <1>1
<1>3. /\ head \in Seq(Tasks) /\ DOMAIN head = 1..n /\ \A i \in 1..n : head[i] = list[i]
  BY <1>1, <1>2
<1>4. /\ tail \in Seq(Tasks) /\ DOMAIN tail = 1..(N - n)
      /\ \A i \in 1..(N - n) : tail[i] = list[n + i]
  <2>1. Len(tail) = N - n /\ tail \in Seq(Tasks)
    BY <1>1, <1>2
  <2>2. \A i \in 1..(N - n) : tail[i] = list[n + 1 + i - 1]
    BY <1>1, <1>2
  <2> HIDE DEF tail
  <2>3. \A i \in 1..(N - n) : n + 1 + i - 1 = n + i
    BY <1>2
  <2>4. QED
    BY <2>1, <2>2, <2>3
<1> HIDE DEF head, tail
<1>5. \A i, j \in 1..N : list[i] = list[j] => i = j
  BY <1>1 DEF Distinct
<1>6. \A i \in 1..(N - n) : n + i \in 1..N /\ n + i \notin 1..n
  BY <1>2
<1>7. Distinct(tail)
  <2>1. SUFFICES ASSUME NEW i \in 1..(N - n), NEW j \in 1..(N - n), tail[i] = tail[j] PROVE i = j
    BY <1>4 DEF Distinct
  <2>2. n + i = n + j
    BY <1>4, <1>5, <1>6, <2>1
  <2>3. QED
    BY <1>2, <2>1, <2>2
<1>8. Range(head) = {list[i] : i \in 1..n}
  BY <1>3 DEF Range
<1>9. ASSUME NEW x \in Range(tail) PROVE x \in Range(list) /\ x \notin {list[i] : i \in 1..n}
  <2>1. PICK i \in 1..(N - n) : x = list[n + i]
    BY <1>4, <1>9 DEF Range
  <2>2. \A j \in 1..n : j \in 1..N /\ j # n + i
    BY <1>2, <1>6
  <2>3. QED
    BY <1>1, <1>5, <1>6, <2>1, <2>2 DEF Range
<1>10. ASSUME NEW x \in Range(list), x \notin {list[i] : i \in 1..n} PROVE x \in Range(tail)
  <2>1. PICK i \in 1..N : x = list[i]
    BY <1>1, <1>10 DEF Range
  <2>2. i \notin 1..n
    BY <1>10, <2>1
  <2>3. i - n \in 1..(N - n) /\ n + (i - n) = i
    BY <1>2, <2>1, <2>2
  <2>4. QED
    BY <1>4, <2>1, <2>3 DEF Range
<1>11. QED
  BY <1>1, <1>7, <1>8, <1>9, <1>10 DEF head, tail

\* What popping leaves: all that was queued, but for the task that can run.
LEMMA PopBooks ==
  ASSUME IsHashes(recs), NEW d, NEW L, NEW I, Books(d, QueuesOf(recs), L, I),
         NEW q \in Queues, NEW at \in Nat
  PROVE  LET list == d.pending[q]
             n == PopCount(list, at)
         IN  /\ CanRun(list, at) = {} => Books(Pop(d, q, at), QueuesOf(recs), L, I)
             /\ CanRun(list, at) # {} =>
                  /\ list[n] \in QueuesOf(recs)[q]
                  /\ Books(Pop(d, q, at), Left(QueuesOf(recs), q, list[n]), L, I)
<1> DEFINE Q == QueuesOf(recs)
           list == d.pending[q]
           z == d.delayed[q]
           n == PopCount(list, at)
           popped == {list[i] : i \in 1..n}
           early == {t \in Range(SubSeq(list, 1, n)) : IsQueued(t) /\ recs[t].runAt > at}
           tail == SubSeq(list, n + 1, Len(list))
           z2 == [t \in DOMAIN z \cup early |-> IF t \in early THEN recs[t].runAt ELSE z[t]]
<1>1. Holds(list, z, Q[q]) /\ Q \in [Queues -> SUBSET Tasks]
  BY BooksFields DEF Books
<1>2. Q[q] = {t \in DOMAIN recs : Queued(recs[t].status) /\ recs[t].queue = q}
  BY DEF QueuesOf
<1>3. \A t \in Q[q] : IsQueued(t) /\ recs[t].runAt \in Nat /\ t \in Tasks
  BY <1>2 DEF IsQueued, IsHashes, Record
<1> HIDE DEF Q, list, z
<1>4. Distinct(list) /\ z \in ZSets
  BY <1>1 DEF Holds
<1>5. /\ n \in 0..Len(list)
      /\ CanRun(list, at) = {} => n = Len(list)
      /\ CanRun(list, at) # {} => /\ n \in CanRun(list, at)
                                  /\ \A i \in 1..n : i \in CanRun(list, at) => i = n
  BY <1>4, PopCountMeaning
<1> HIDE DEF n
<1>6. PICK N \in Nat : N = Len(list) /\ DOMAIN list = 1..N
  BY <1>4 DEF Distinct
<1>7. /\ Distinct(tail) /\ Range(SubSeq(list, 1, n)) = popped
      /\ Range(tail) = Range(list) \ popped
  BY <1>4, <1>5, CutDistinct
<1>8. popped \subseteq Range(list)
  BY <1>5, <1>6 DEF Range
<1>9. \A i \in 1..N : list[i] \in Range(list) /\ list[i] \in Q[q]
  BY <1>1, <1>6 DEF Range, Holds
<1>10. CanRun(list, at) = {i \in 1..N : recs[list[i]].runAt <= at}
  BY <1>3, <1>6, <1>9 DEF CanRun
<1>11. early = {t \in popped : ~(recs[t].runAt <= at)}
  <2>1. \A t \in popped : IsQueued(t) /\ recs[t].runAt \in Nat
    BY <1>1, <1>3, <1>8 DEF Holds
  <2>2. QED
    BY <1>7, <2>1
<1>12. early \subseteq popped
  BY <1>11
<1> HIDE DEF early, tail, popped
<1>13. z2 \in ZSets /\ DOMAIN z2 = DOMAIN z \cup early
  <2>1. DOMAIN z \cup early \in SUBSET Tasks
    BY <1>1, <1>3, <1>4, <1>8, <1>12, ZSetOps DEF Holds
  <2>2. \A t \in DOMAIN z : z[t] \in Nat
    BY <1>4, ZSetOps
  <2>3. \A t \in early : recs[t].runAt \in Nat
    BY <1>1, <1>3, <1>8, <1>12 DEF Holds
  <2>4. z2 \in [DOMAIN z \cup early -> Nat]
    BY <2>2, <2>3
  <2>5. DOMAIN z2 = DOMAIN z \cup early
    OBVIOUS
  <2> HIDE DEF z2
  <2>6. QED
    BY <2>1, <2>4, <2>5, Zenon DEF ZSets
<1>14. Pop(d, q, at) = [d EXCEPT !.pending[q] = tail, !.delayed[q] = z2]
  BY DEF Pop, tail, early, n, list, z
<1> HIDE DEF z2
<1>15. CASE CanRun(list, at) = {}
  <2>1. n = N /\ \A i \in 1..N : ~(recs[list[i]].runAt <= at)
    BY <1>5, <1>6, <1>10, <1>15
  <2>2. popped = Range(list) /\ early = popped
    BY <1>6, <1>11, <2>1 DEF popped, Range
  <2>3. Holds(tail, z2, Q[q])
    BY <1>1, <1>7, <1>13, <2>2 DEF Holds
  <2>4. Books(Pop(d, q, at), [Q EXCEPT ![q] = Q[q]], L, I)
    <3>1. Books(d, Q, L, I)
      BY DEF Q
    <3>2. Books([d EXCEPT !.pending[q] = tail, !.delayed[q] = z2], [Q EXCEPT ![q] = Q[q]], L, I)
      BY <2>3, <3>1, QueueBooks
    <3>3. QED
      BY <1>14, <3>2, Zenon
  <2>5. [Q EXCEPT ![q] = Q[q]] = Q
    BY <1>1
  <2>6. Books(Pop(d, q, at), Q, L, I)
    BY <2>4, <2>5
  <2>7. QED
    BY <1>15, <2>6 DEF Q, list
<1>16. CASE CanRun(list, at) # {}
  <2>1. /\ n \in 1..N /\ recs[list[n]].runAt <= at
        /\ \A i \in 1..n : i \in 1..N /\ (recs[list[i]].runAt <= at => i = n)
    BY <1>5, <1>6, <1>10, <1>16
  <2>2. list[n] \in Q[q] /\ list[n] \in popped
    BY <1>9, <2>1 DEF popped
  <2>3. early = popped \ {list[n]}
    <3>1. \A t \in popped : recs[t].runAt <= at <=> t = list[n]
      BY <2>1 DEF popped
    <3>2. QED
      BY <1>11, <3>1
  <2>4. Holds(tail, z2, Q[q] \ {list[n]})
    BY <1>1, <1>7, <1>8, <1>13, <2>2, <2>3 DEF Holds
  <2>5. Books(Pop(d, q, at), Left(Q, q, list[n]), L, I)
    <3>1. Books(d, Q, L, I)
      BY DEF Q
    <3>2. Books([d EXCEPT !.pending[q] = tail, !.delayed[q] = z2],
                [Q EXCEPT ![q] = Q[q] \ {list[n]}], L, I)
      BY <2>4, <3>1, QueueBooks
    <3>3. QED
      BY <1>14, <3>2, Zenon DEF Left
  <2>6. QED
    BY <1>16, <2>2, <2>5 DEF Q, list, n
<1>17. QED
  BY <1>15, <1>16 DEF list

\* A claim on a queue in agreement: nothing is claimed, or a queued task gets the
\* lease, and the structures follow.
LEMMA ClaimAgrees ==
  ASSUME IsHashes(recs), Agrees(db, recs), NEW q \in Queues, NEW token \in Nat, NEW at \in Nat,
         claim(q, token, at)
  PROVE  /\ Agrees(db', recs')
         /\ \/ recs' = recs /\ lastToken' = lastToken
            \/ \E id \in DOMAIN recs, s \in Record :
                 /\ recs' = [recs EXCEPT ![id] = s]
                 /\ Queued(recs[id].status) /\ s.status = "running"
                 /\ s.dependsOn = recs[id].dependsOn /\ s.policy = recs[id].policy
                 /\ s.pendingParents = recs[id].pendingParents
                 /\ lastToken' = IF token > lastToken THEN token ELSE lastToken
<1> DEFINE Q == QueuesOf(recs)
           L == LeasesOf(recs)
           I == IndexesOf(recs)
<1>1. PICK due \in Due(db.delayed[q], at) :
        Take(Pop(MoveDue(db, q, due), q, at), MoveDue(db, q, due).pending[q], q, token, at)
  BY DEF claim
<1>2. PICK d : d = MoveDue(db, q, due)
  OBVIOUS
<1>3. PICK list : list = d.pending[q]
  OBVIOUS
<1>4. Books(d, Q, L, I)
  BY <1>2, MoveDueBooks DEF Agrees
<1>5. PICK e : e = Pop(d, q, at)
  OBVIOUS
<1>6. Take(e, list, q, token, at)
  BY <1>1, <1>2, <1>3, <1>5
<1>7. CASE CanRun(list, at) = {}
  <2>1. db' = e /\ recs' = recs /\ lastToken' = lastToken
    BY <1>6, <1>7 DEF Take
  <2>2. Books(e, Q, L, I)
    BY <1>3, <1>4, <1>5, <1>7, PopBooks
  <2>3. Agrees(db', recs')
    BY <2>1, <2>2 DEF Agrees
  <2>4. QED
    BY <2>1, <2>3
<1>8. CASE CanRun(list, at) # {}
  <2>1. PICK id : id = list[PopCount(list, at)]
    OBVIOUS
  <2>2. id \in Q[q] /\ Books(e, Left(Q, q, id), L, I)
    BY <1>3, <1>4, <1>5, <1>8, <2>1, PopBooks
  <2>3. /\ id \in DOMAIN recs /\ Queued(recs[id].status) /\ recs[id].queue = q
        /\ recs[id] \in Record /\ id \in Tasks
    BY <2>2 DEF QueuesOf, IsHashes
  <2>4. PICK until \in Nat : until = at + LeaseTTL[q]
    BY ConstantsAssumption
  <2> DEFINE r == recs[id]
             s == [r EXCEPT !.status = "running", !.leaseToken = token, !.leaseUntil = until]
             f == moveStatus(Watch(e, id, until), id, r.status, "running")
  <2>5. /\ s \in Record /\ s.status = "running" /\ s.queue = q /\ s.leaseUntil = until
        /\ s.dependsOn = r.dependsOn /\ s.policy = r.policy
        /\ s.pendingParents = r.pendingParents
    BY <2>3, <2>4 DEF Record, Statuses
  <2>6. /\ recs' = [recs EXCEPT ![id].status = "running", ![id].leaseToken = token,
                                ![id].leaseUntil = until]
        /\ db' = f
        /\ lastToken' = IF token > lastToken THEN token ELSE lastToken
    BY <1>6, <1>8, <2>1, <2>4 DEF Take
  <2>7. recs' = [recs EXCEPT ![id] = s]
    BY <2>3, <2>6 DEF IsHashes, Record
  <2> HIDE DEF s
  <2>8. /\ r.status \in Statuses /\ "running" \in Statuses /\ r.status # "running"
        /\ ~Queued("running")
    BY <2>3 DEF Record, Statuses, Queued
  <2>9. id \in I[r.status] /\ id \notin I["running"]
    <3>1. \A x \in Statuses : id \in I[x] <=> x = r.status
      BY <2>3, StandsIn
    <3>2. QED
      BY <2>8, <3>1
  <2>10. Books(Watch(e, id, until), Left(Q, q, id), ZAdd(L, id, until), I)
    <3> HIDE DEF Q, L, I
    <3>1. QED
      BY <2>2, <2>3, <2>4, LeaseBooks
  <2>11. Books(f, Left(Q, q, id), ZAdd(L, id, until), Shifted(I, r.status, "running", id))
    <3> HIDE DEF Q, L, I, r
    <3>1. QED
      BY <2>3, <2>8, <2>9, <2>10, StatusBooks
  <2>12. /\ QueuesOf([recs EXCEPT ![id] = s]) = Left(Q, q, id)
         /\ LeasesOf([recs EXCEPT ![id] = s]) = ZAdd(L, id, until)
         /\ IndexesOf([recs EXCEPT ![id] = s]) = Shifted(I, r.status, "running", id)
    BY <2>3, <2>5, <2>8, WriteView
  <2>13. Agrees(f, [recs EXCEPT ![id] = s])
    BY <2>11, <2>12 DEF Agrees
  <2>14. Agrees(db', recs')
    BY <2>6, <2>7, <2>13
  <2>15. QED
    BY <2>3, <2>5, <2>6, <2>7, <2>14
<1>9. QED
  BY <1>7, <1>8

-------------------------------------------------------------------------------
(* A new task.                                                             *)

\* SADD and HINCRBY of a task no index holds.
LEMMA IndexBooks ==
  ASSUME NEW d, NEW Q, NEW L, NEW I, Books(d, Q, L, I), NEW id \in Tasks,
         NEW s \in Statuses, id \notin I[s]
  PROVE  Books([d EXCEPT !.index[s] = @ \cup {id}, !.stats[s] = @ + 1], Q, L, Entered(I, s, id))
<1> DEFINE I2 == [I EXCEPT ![s] = @ \cup {id}]
           N2 == [d.stats EXCEPT ![s] = @ + 1]
           e == [d EXCEPT !.index = I2, !.stats = N2]
<1>1. /\ d \in DBs /\ d.index = I /\ I \in [Statuses -> SUBSET Tasks]
      /\ d.stats \in [Statuses -> Int] /\ \A x \in Statuses : d.stats[x] = Cardinality(I[x])
  BY DEF Books, DBs
<1>2. [d EXCEPT !.index[s] = @ \cup {id}, !.stats[s] = @ + 1] = e
  BY <1>1
<1>3. /\ I2 \in [Statuses -> SUBSET Tasks] /\ I2[s] = I[s] \cup {id}
      /\ \A x \in Statuses \ {s} : I2[x] = I[x]
  BY <1>1
<1>4. /\ N2 \in [Statuses -> Int] /\ N2[s] = d.stats[s] + 1
      /\ \A x \in Statuses \ {s} : N2[x] = d.stats[x]
  BY <1>1
<1> HIDE DEF I2, N2
<1>5. Cardinality(I[s] \cup {id}) = Cardinality(I[s]) + 1
  <2>1. IsFiniteSet(I[s])
    BY <1>1, ConstantsAssumption, FS_Subset
  <2>2. QED
    BY <2>1, FS_AddElement
<1>6. \A x \in Statuses : N2[x] = Cardinality(I2[x])
  BY <1>1, <1>3, <1>4, <1>5
<1>7. /\ e \in DBs /\ e.inflight = d.inflight /\ e.index = I2 /\ e.stats = N2
      /\ e.pending = d.pending /\ e.delayed = d.delayed
  BY <1>1, <1>3, <1>4 DEF DBs
<1> HIDE DEF e
<1>8. Books(e, Q, L, I2)
  BY <1>3, <1>6, <1>7 DEF Books
<1>9. QED
  BY <1>2, <1>8 DEF I2, Entered

\* What a new hash adds to what the structures ought to hold.
LEMMA PutView ==
  ASSUME IsHashes(recs), NEW id \in Tasks \ DOMAIN recs, NEW r \in Record, r.status # "running"
  PROVE  LET rs2 == Put(id, r)
         IN  /\ QueuesOf(rs2) = IF Queued(r.status) THEN Entered(QueuesOf(recs), r.queue, id)
                                ELSE QueuesOf(recs)
             /\ LeasesOf(rs2) = LeasesOf(recs)
             /\ IndexesOf(rs2) = Entered(IndexesOf(recs), r.status, id)
<1> DEFINE rs2 == Put(id, r)
<1>1. /\ DOMAIN rs2 = DOMAIN recs \cup {id} /\ rs2[id] = r
      /\ \A t \in DOMAIN recs : rs2[t] = recs[t]
      /\ r.queue \in Queues /\ r.status \in Statuses
  BY DEF Put, Record
<1> HIDE DEF rs2
<1>2. QueuesOf(rs2) = IF Queued(r.status) THEN Entered(QueuesOf(recs), r.queue, id)
                      ELSE QueuesOf(recs)
  <2> DEFINE G == QueuesOf(rs2)
             F == QueuesOf(recs)
             E == [F EXCEPT ![r.queue] = F[r.queue] \cup {id}]
  <2>1. G = [q \in Queues |-> G[q]] /\ F = [q \in Queues |-> F[q]] /\ DOMAIN F = Queues
    BY DEF QueuesOf
  <2>2. \A q \in Queues : G[q] = IF q = r.queue /\ Queued(r.status) THEN F[q] \cup {id} ELSE F[q]
    BY <1>1 DEF QueuesOf
  <2> HIDE DEF G, F
  <2>3. E = [q \in Queues |-> IF q = r.queue THEN F[q] \cup {id} ELSE F[q]]
    BY <1>1, <2>1
  <2> HIDE DEF E
  <2>4. Queued(r.status) => G = E
    BY <2>1, <2>2, <2>3
  <2>5. ~Queued(r.status) => G = F
    BY <2>1, <2>2
  <2>6. E = Entered(F, r.queue, id)
    BY DEF E, Entered
  <2>7. QED
    BY <2>4, <2>5, <2>6, Zenon DEF G, F
<1>3. LeasesOf(rs2) = LeasesOf(recs)
  <2>1. {u \in DOMAIN rs2 : rs2[u].status = "running"}
          = {u \in DOMAIN recs : recs[u].status = "running"}
    BY <1>1
  <2>2. QED
    BY <1>1, <2>1 DEF LeasesOf
<1>4. IndexesOf(rs2) = Entered(IndexesOf(recs), r.status, id)
  <2> DEFINE G == IndexesOf(rs2)
             F == IndexesOf(recs)
             E == [F EXCEPT ![r.status] = F[r.status] \cup {id}]
  <2>1. G = [x \in Statuses |-> G[x]] /\ DOMAIN F = Statuses
    BY DEF IndexesOf
  <2>2. \A x \in Statuses : G[x] = IF x = r.status THEN F[x] \cup {id} ELSE F[x]
    BY <1>1 DEF IndexesOf
  <2> HIDE DEF G
  <2>3. E = [x \in Statuses |-> IF x = r.status THEN F[x] \cup {id} ELSE F[x]]
    <3> HIDE DEF F
    <3>1. F \in [Statuses -> {F[x] : x \in Statuses}]
      BY DEF F, IndexesOf
    <3>2. QED
      BY <1>1, <2>1, <3>1
  <2> HIDE DEF E, F
  <2>4. G = E
    BY <2>1, <2>2, <2>3
  <2>5. E = Entered(F, r.status, id)
    BY DEF E, Entered
  <2>6. QED
    BY <2>4, <2>5, Zenon DEF G, F
<1>5. QED
  BY <1>2, <1>3, <1>4, Zenon DEF rs2

\* A new task, and the structures with it.
LEMMA CreatedAgrees ==
  ASSUME IsHashes(recs), Agrees(db, recs), NEW id \in Tasks \ DOMAIN recs, NEW r \in Record,
         r.status \in {"blocked", "pending", "canceled"}, NEW at
  PROVE  Agrees(Created(id, r, at), Put(id, r))
<1> DEFINE Q == QueuesOf(recs)
           L == LeasesOf(recs)
           I == IndexesOf(recs)
           d == IF r.status = "pending" THEN placeInQueue(db, id, r.queue, r.runAt, at) ELSE db
           Q2 == IF Queued(r.status) THEN Entered(Q, r.queue, id) ELSE Q
<1>1. /\ r.queue \in Queues /\ r.runAt \in Nat /\ r.status \in Statuses
      /\ Queued(r.status) <=> r.status = "pending"
  BY DEF Record, Queued
<1>2. id \notin Q[r.queue] /\ id \notin I[r.status]
  BY <1>1 DEF QueuesOf, IndexesOf
<1>3. Books(db, Q, L, I)
  BY DEF Agrees
<1>4. Books(d, Q2, L, I)
  <2> HIDE DEF Q, L, I
  <2>1. CASE r.status = "pending"
    BY <1>1, <1>2, <1>3, <2>1, PlaceBooks
  <2>2. CASE r.status # "pending"
    BY <1>1, <1>3, <2>2
  <2>3. QED
    BY <2>1, <2>2
<1> HIDE DEF d
<1>5. Books([d EXCEPT !.index[r.status] = @ \cup {id}, !.stats[r.status] = @ + 1],
            Q2, L, Entered(I, r.status, id))
  <2> HIDE DEF Q, L, I, Q2
  <2>1. QED
    BY <1>1, <1>2, <1>4, IndexBooks
<1>6. /\ QueuesOf(Put(id, r)) = Q2 /\ LeasesOf(Put(id, r)) = L
      /\ IndexesOf(Put(id, r)) = Entered(I, r.status, id)
  <2>1. r.status # "running"
    OBVIOUS
  <2>2. QED
    BY <2>1, PutView
<1>7. Created(id, r, at) = [d EXCEPT !.index[r.status] = @ \cup {id}, !.stats[r.status] = @ + 1]
  BY DEF Created, d
<1>8. QED
  BY <1>5, <1>6, <1>7 DEF Agrees

-------------------------------------------------------------------------------
(* The scripts, one by one.                                                *)

\* The invariant: the hashes are typed, the dependency graph is settled and the
\* structures hold what the hashes say.
RedisInv == TypeOK /\ Settled(recs) /\ Agrees(db, recs)

\* What every step is shown to do: it keeps the invariant and is a step of the
\* abstract lifecycle.
Sound ==
  /\ TypeOK' /\ Settled(recs') /\ Agrees(db', recs')
  /\ [Lifecycle!Next]_(Lifecycle!vars)

\* The hashes of a typed store are hashes.
LEMMA StoreIsHashes ==
  ASSUME TypeOK
  PROVE  IsHashes(recs)
  BY DEF TypeOK, IsStore, IsHashes

\* The time a script is given is a time.
LEMMA TimesType ==
  ASSUME TypeOK
  PROVE  Times \subseteq Nat
  BY DEF TypeOK, Times

\* enqueue.lua and replay.lua: a task that has the status its parents dictate, and
\* counts the ones it waits for, is created everywhere at once.
LEMMA PutSound ==
  ASSUME RedisInv, NEW id \in Tasks \ DOMAIN recs, NEW r \in Record,
         Parents(r) \subseteq DOMAIN recs,
         r.status = VerdictOf(Parents(r), r.policy, recs),
         r.status = "blocked" =>
           r.pendingParents = Cardinality({p \in Parents(r) : ~IsFinal(recs[p].status)}),
         NEW key \in Keys \cup {NoKey}, NEW at,
         recs' = Put(id, r), chains' = Link(key, id), db' = Created(id, r, at),
         replayed' \subseteq DOMAIN recs, UNCHANGED <<now, lastToken, closed>>
  PROVE  Sound
<1>1. r.status \in {"blocked", "pending", "canceled"}
  BY DEF VerdictOf
<1>2. r.status = "blocked" =>
        /\ {p \in Parents(r) : ~IsFinal(recs[p].status)} # {}
        /\ r.policy = "fail_fast" => \A p \in Parents(r) : ~ParentBroke(recs[p].status)
  BY DEF VerdictOf
<1>3. r.status \notin {"blocked", "canceled"} =>
        \A p \in Parents(r) : /\ IsFinal(recs[p].status)
                              /\ r.policy = "fail_fast" => recs[p].status = "completed"
  BY DEF VerdictOf, IsFinal, ParentBroke
<1>4. IsStore(recs') /\ Settled(recs') /\ DOMAIN recs' = DOMAIN recs \cup {id}
  BY <1>2, <1>3, PutStep DEF RedisInv, TypeOK
<1>5. chains' \in [Keys -> Seq(DOMAIN recs')]
  BY <1>4, LinkType DEF RedisInv, TypeOK
<1>6. TypeOK'
  BY <1>4, <1>5 DEF RedisInv, TypeOK
<1>7. Agrees(db', recs')
  BY <1>1, StoreIsHashes, CreatedAgrees DEF RedisInv
<1>8. Lifecycle!Next
  BY PutMapped DEF RedisInv
<1>9. QED
  BY <1>4, <1>6, <1>7, <1>8 DEF Sound

\* enqueue.lua: what the script decides is the verdict of the parents.
LEMMA EnqueueSound ==
  ASSUME RedisInv, NEW id \in Tasks, NEW deps \in Seq(Tasks), NEW policy \in Policies,
         NEW key \in Keys \cup {NoKey}, NEW queue \in Queues,
         NEW maxRetry \in MaxRetries, NEW delay \in Delays, NEW at \in Nat,
         enqueue(id, deps, policy, key, queue, maxRetry, delay, at)
  PROVE  Sound
<1> DEFINE dec == DecideOnSubmit(ParentStates(recs, deps), policy)
           r == NewRecord(dec, deps, policy, key, NoID, queue, maxRetry, at + delay)
<1>1. /\ id \in Tasks \ DOMAIN recs /\ Range(deps) \subseteq DOMAIN recs
      /\ recs' = Put(id, r) /\ chains' = Link(key, id) /\ db' = Created(id, r, at)
      /\ UNCHANGED <<replayed, now, lastToken, closed>>
  BY DEF enqueue, IsFreshID
<1>2. deps \in Seq(Tasks) /\ maxRetry \in Nat /\ at + delay \in Nat
  BY ConstantsAssumption
<1>3. /\ dec.status = VerdictOf(Range(deps), policy, recs)
      /\ dec.status \in {"blocked", "pending", "canceled"} /\ dec.pendingParents \in Nat
      /\ dec.status = "blocked" =>
           dec.pendingParents = Cardinality({p \in Range(deps) : ~IsFinal(recs[p].status)})
  <2> DEFINE P == ParentStates(recs, deps)
  <2>1. /\ NotFinal(P) = {p \in Range(deps) : ~IsFinal(recs[p].status)}
        /\ (\E i \in DOMAIN P : ParentBroke(P[i].status))
           <=> (\E p \in Range(deps) : ParentBroke(recs[p].status))
    BY <1>2, NotFinalIsOpen
  <2>2. /\ dec.status \in {"blocked", "pending", "canceled"} /\ dec.pendingParents \in Nat
        /\ dec.status = "blocked" =>
             dec.pendingParents = Cardinality({p \in Range(deps) : ~IsFinal(recs[p].status)})
    BY <1>2, DecideOnSubmitMeaning
  <2>3. dec = DecideOnSubmit(P, policy)
    OBVIOUS
  <2> HIDE DEF P, dec
  <2>4. dec.status = VerdictOf(Range(deps), policy, recs)
    BY <2>1, <2>3 DEF DecideOnSubmit, VerdictOf
  <2>5. QED
    BY <2>2, <2>4
<1> HIDE DEF dec
<1>4. /\ r \in Record /\ r.status = dec.status /\ r.dependsOn = deps /\ r.policy = policy
      /\ r.pendingParents = dec.pendingParents
  BY <1>2, <1>3 DEF NewRecord, Record, NoToken, NoID, Statuses
<1>5. Parents(r) = Range(deps)
  BY <1>4 DEF Parents
<1> HIDE DEF r
<1>6. replayed' \subseteq DOMAIN recs
  BY <1>1 DEF RedisInv, TypeOK
<1>7. QED
  BY <1>1, <1>3, <1>4, <1>5, <1>6, PutSound

\* replay.lua: the new execution has no parents.
LEMMA ReplaySound ==
  ASSUME RedisInv, NEW id \in Tasks, NEW target \in DOMAIN recs, NEW allowCompleted,
         NEW at \in Nat, replay(id, target, allowCompleted, at)
  PROVE  Sound
<1> DEFINE dec == [status |-> "pending", pendingParents |-> 0]
           r == NewRecord(dec, <<>>, recs[target].policy, recs[target].key, target,
                          recs[target].queue, recs[target].maxRetry, at)
<1>1. /\ id \in Tasks \ DOMAIN recs /\ recs' = Put(id, r) /\ chains' = Link(r.key, id)
      /\ db' = Created(id, r, at) /\ replayed' = replayed \cup {target}
      /\ UNCHANGED <<now, lastToken, closed>>
  BY DEF replay, IsFreshID
<1>2. recs[target] \in Record /\ target \in Tasks
  BY DEF RedisInv, TypeOK, IsStore
<1>3. r \in Record /\ r.status = "pending" /\ r.dependsOn = <<>>
  <2>1. dec.status = "pending" /\ dec.status \in Statuses /\ dec.pendingParents \in Nat
        /\ <<>> \in Seq(Tasks)
    BY DEF Statuses
  <2>2. /\ recs[target].policy \in Policies /\ recs[target].key \in Keys \cup {NoKey}
        /\ recs[target].queue \in Queues /\ recs[target].maxRetry \in Nat
    BY <1>2 DEF Record
  <2> HIDE DEF dec
  <2>3. QED
    BY <1>2, <2>1, <2>2 DEF NewRecord, Record, NoToken
<1>4. Parents(r) = {}
  BY <1>3 DEF Parents, Range
<1> HIDE DEF r
<1>5. r.status = VerdictOf(Parents(r), r.policy, recs) /\ r.key \in Keys \cup {NoKey}
  BY <1>3, <1>4 DEF VerdictOf, Record
<1>6. replayed' \subseteq DOMAIN recs
  BY <1>1 DEF RedisInv, TypeOK
<1>7. QED
  BY <1>1, <1>3, <1>4, <1>5, <1>6, PutSound

\* claim.lua, with a fresh token or with one sent again.
LEMMA ClaimSound ==
  ASSUME RedisInv, NEW q \in Queues, NEW token \in Nat, NEW at \in Nat, claim(q, token, at)
  PROVE  Sound
<1>1. UNCHANGED <<chains, replayed, now, closed>>
  BY DEF claim
<1>2. TypeOK /\ Settled(recs) /\ IsStore(recs) /\ IsHashes(recs) /\ Agrees(db, recs)
  BY StoreIsHashes DEF RedisInv, TypeOK
<1>3. Agrees(db', recs')
  BY <1>2, ClaimAgrees
<1>4. CASE recs' = recs /\ lastToken' = lastToken
  <2>1. TypeOK' /\ Settled(recs')
    BY <1>1, <1>2, <1>4 DEF TypeOK
  <2>2. QED
    BY <1>3, <1>4, <2>1 DEF Sound, Lifecycle!vars
<1>5. CASE ~(recs' = recs /\ lastToken' = lastToken)
  <2>1. PICK id \in DOMAIN recs, s \in Record :
          /\ recs' = [recs EXCEPT ![id] = s]
          /\ Queued(recs[id].status) /\ s.status = "running"
          /\ s.dependsOn = recs[id].dependsOn /\ s.policy = recs[id].policy
          /\ s.pendingParents = recs[id].pendingParents
          /\ lastToken' = IF token > lastToken THEN token ELSE lastToken
    BY <1>2, <1>5, ClaimAgrees
  <2>2. /\ recs[id].status \in Live /\ s.status \in Live
        /\ CanTransition(recs[id].status, s.status)
    BY <2>1, TransitionTable DEF Queued, Live
  <2>3. IsStore(recs') /\ Settled(recs') /\ DOMAIN recs' = DOMAIN recs
    BY <1>2, <2>1, <2>2, LiveStep
  <2>4. TypeOK'
    <3>1. lastToken' \in Nat /\ now' \in Nat
      BY <1>1, <1>2, <2>1 DEF TypeOK
    <3>2. QED
      BY <1>1, <1>2, <2>3, <3>1, FrameType
  <2>5. Lifecycle!Next
    BY <1>2, <2>1, <2>2, <2>3, <2>4, WriteMapped
  <2>6. QED
    BY <1>3, <2>3, <2>4, <2>5 DEF Sound
<1>6. QED
  BY <1>4, <1>5

\* What propagation makes of a hash is a move of the cascade, or none: the queue
\* stays, and so does the deadline of a running task.
LEMMA PropagateMovesFrom ==
  ASSUME NEW rs, NEW R, IsHashes(rs)
  PROVE  MovesFrom(rs, Propagate(rs, R))
<1> DEFINE K == Cascade(rs, R)
           new(c) == Parents(rs[c]) \cap (R \cup K)
           good(c) == {p \in new(c) :
                         Satisfied(IF p \in K THEN "canceled" ELSE rs[p].status, rs[c].policy)}
           gone(c) == [ClearLease(rs[c]) EXCEPT !.status = "canceled"]
           settle(c) == Settle(rs[c], Cardinality(good(c)), new(c) # good(c))
           rs2 == Propagate(rs, R)
<1>1. DOMAIN rs \subseteq Tasks /\ \A t \in DOMAIN rs : rs[t] \in Record
  BY DEF IsHashes
<1>2. DOMAIN rs2 = DOMAIN rs /\ \A t \in DOMAIN rs : rs2[t] \in Record
  BY <1>1, PropagateType
<1>3. rs2 = [c \in DOMAIN rs |-> IF c \in K THEN gone(c)
                                 ELSE IF IsFinal(rs[c].status) THEN rs[c]
                                 ELSE settle(c)]
  BY Zenon DEF Propagate
<1>4. IsHashes(rs2)
  <2> HIDE DEF gone, settle, K
  <2>1. rs2 = [c \in DOMAIN rs |-> rs2[c]]
    BY <1>3
  <2> HIDE DEF rs2
  <2>2. QED
    BY <1>1, <1>2, <2>1 DEF IsHashes
<1>5. ASSUME NEW t \in DOMAIN rs
      PROVE  \/ /\ rs2[t].status = rs[t].status /\ rs2[t].queue = rs[t].queue
                /\ rs[t].status = "running" => rs2[t].leaseUntil = rs[t].leaseUntil
             \/ CascadeMove(rs[t], rs2[t])
  <2>1. rs2[t] = IF t \in K THEN gone(t) ELSE IF IsFinal(rs[t].status) THEN rs[t] ELSE settle(t)
    BY <1>3, Zenon
  <2>2. CASE t \in K
    <3>1. Cancelable(rs[t])
      BY <2>2, CascadeProperties
    <3>2. rs[t].status # "canceled"
      BY <1>1, <3>1 DEF Cancelable, CanTransition, legalTransitions, Statuses, Record
    <3>3. gone(t).status = "canceled" /\ gone(t).queue = rs[t].queue
      BY <1>1 DEF ClearLease, Record
    <3> HIDE DEF gone
    <3>4. QED
      BY <2>1, <2>2, <3>2, <3>3 DEF CascadeMove
  <2>3. CASE t \notin K /\ IsFinal(rs[t].status)
    BY <2>1, <2>3
  <2>4. CASE t \notin K /\ ~IsFinal(rs[t].status)
    <3>1. PICK r, n, b : r = rs[t] /\ n = Cardinality(good(t)) /\ b = (new(t) # good(t))
      OBVIOUS
    <3>2. r \in Record /\ rs2[t] = Settle(r, n, b)
      BY <1>1, <2>1, <2>4, <3>1
    <3> DEFINE left == IF r.pendingParents > n THEN r.pendingParents - n ELSE 0
               st == IF n > 0 /\ left = 0 /\ r.status = "blocked" THEN "pending" ELSE r.status
               flag == r.cancelRequested \/ (b /\ r.status = "running")
               s == [r EXCEPT !.pendingParents = left, !.status = st, !.cancelRequested = flag]
    <3>3. Settle(r, n, b) = s
      BY Zenon DEF Settle
    <3>4. st = r.status \/ (r.status = "blocked" /\ st = "pending")
      OBVIOUS
    <3> HIDE DEF left, st, flag
    <3>5. s.status = st /\ s.queue = r.queue /\ s.leaseUntil = r.leaseUntil
      BY <3>2 DEF Record
    <3> HIDE DEF s
    <3>6. QED
      BY <3>1, <3>2, <3>3, <3>4, <3>5 DEF CascadeMove
  <2>5. QED
    BY <2>2, <2>3, <2>4
<1>6. QED
  <2> HIDE DEF rs2
  <2>1. MovesFrom(rs, rs2)
    BY <1>2, <1>4, <1>5 DEF MovesFrom
  <2>2. QED
    BY <2>1 DEF rs2

\* finish.lua and cancel.lua when a task ends: its own structures first, then those
\* of the tasks that the cascade moves.
LEMMA FinalSound ==
  ASSUME RedisInv, NEW id \in DOMAIN recs, NEW r \in Record,
         ~IsFinal(recs[id].status), IsFinal(r.status),
         CanTransition(recs[id].status, r.status),
         r.status # "canceled" => recs[id].status \in Live,
         r.dependsOn = recs[id].dependsOn, r.policy = recs[id].policy,
         r.pendingParents = recs[id].pendingParents,
         NEW d, Agrees(d, [recs EXCEPT ![id] = r]), NEW at,
         FinalInRedis(id, r, d, at),
         UNCHANGED <<chains, replayed, now, lastToken, closed>>
  PROVE  Sound
<1> DEFINE rs == [recs EXCEPT ![id] = r]
<1>1. TypeOK /\ Settled(recs) /\ IsStore(recs)
  BY DEF RedisInv, TypeOK
<1>2. recs' = Propagate(rs, {id}) /\ AllMoved(d, rs, recs', at, db')
  BY DEF FinalInRedis
<1>3. GoFinal(id, r)
  BY <1>2 DEF GoFinal
<1>4. IsStore(recs') /\ Settled(recs') /\ DOMAIN recs' = DOMAIN recs
  BY <1>1, <1>3, GoFinalStep
<1>5. TypeOK'
  BY <1>1, <1>4, FrameType DEF TypeOK
<1>6. Lifecycle!Next
  BY <1>1, <1>3, <1>4, <1>5, GoFinalMapped
<1>7. IsHashes(rs)
  BY <1>1 DEF IsStore, IsHashes
<1> HIDE DEF rs
<1>8. Agrees(db', recs')
  BY <1>2, <1>7, PropagateMovesFrom, AllMovedAgrees DEF rs
<1>9. QED
  BY <1>4, <1>5, <1>6, <1>8 DEF Sound

\* The same when the holder of a lease ends its task.
LEMMA EndSound ==
  ASSUME RedisInv, NEW id \in DOMAIN recs, recs[id].status = "running",
         NEW s \in {"completed", "failed", "canceled"}, NEW r0 \in Record,
         r0.dependsOn = recs[id].dependsOn, r0.policy = recs[id].policy,
         r0.pendingParents = recs[id].pendingParents,
         NEW d, Agrees(d, [recs EXCEPT ![id] = Finished(r0, s)]), NEW at,
         FinalInRedis(id, Finished(r0, s), d, at),
         UNCHANGED <<chains, replayed, now, lastToken, closed>>
  PROVE  Sound
<1> DEFINE r == Finished(r0, s)
<1>1. r \in Record
  BY StatusWritesType DEF Statuses
<1>2. /\ r.status = s /\ r.dependsOn = r0.dependsOn /\ r.policy = r0.policy
      /\ r.pendingParents = r0.pendingParents
  BY DEF Finished, ClearLease, Record
<1>3. Agrees(d, [recs EXCEPT ![id] = r]) /\ FinalInRedis(id, r, d, at)
  OBVIOUS
<1> HIDE DEF r
<1>4. /\ ~IsFinal(recs[id].status) /\ IsFinal(r.status)
      /\ CanTransition(recs[id].status, r.status) /\ recs[id].status \in Live
  BY <1>2, TransitionTable DEF IsFinal, Live
<1>5. QED
  BY <1>1, <1>2, <1>3, <1>4, FinalSound

\* finish.lua when the task stays: its hash is written and it stays live.
LEMMA StaySound ==
  ASSUME RedisInv, NEW id \in DOMAIN recs, recs[id].status = "running",
         NEW r \in Record, r.status \in Live,
         r.dependsOn = recs[id].dependsOn, r.policy = recs[id].policy,
         r.pendingParents = recs[id].pendingParents,
         recs' = [recs EXCEPT ![id] = r], Agrees(db', recs'),
         UNCHANGED <<chains, replayed, now, lastToken, closed>>
  PROVE  Sound
<1>1. TypeOK /\ Settled(recs)
  BY DEF RedisInv
<1>2. TypeOK' /\ Settled(recs')
  BY <1>1, StayStep DEF Live
<1>3. r.status = recs[id].status \/ CanTransition(recs[id].status, r.status)
  BY TransitionTable DEF Live
<1>4. Lifecycle!Next
  BY <1>1, <1>2, <1>3, WriteMapped DEF Live
<1>5. QED
  BY <1>2, <1>4 DEF Sound

\* A running task stands in no queue, so it can be placed in its own.
LEMMA PlacedAgain ==
  ASSUME RedisInv, NEW id \in DOMAIN recs, recs[id].status = "running", NEW r \in Record,
         r.queue = recs[id].queue, Queued(r.status), NEW at
  PROVE  Agrees(LeaveRunning(placeInQueue(db, id, r.queue, r.runAt, at), id, r.status),
                [recs EXCEPT ![id] = r])
<1> DEFINE Q == QueuesOf(recs)
           e == placeInQueue(db, id, r.queue, r.runAt, at)
<1>1. IsHashes(recs) /\ Agrees(db, recs)
  BY StoreIsHashes DEF RedisInv
<1>2. id \in Tasks /\ r.queue \in Queues /\ r.runAt \in Nat
  BY <1>1, StandsIn DEF Record
<1>3. id \notin Q[r.queue]
  <2>1. ~Queued("running")
    BY DEF Queued
  <2>2. QED
    BY <1>1, <1>2, <2>1, StandsIn, ZenonT(60)
<1>4. Books(e, Entered(Q, r.queue, id), LeasesOf(recs), IndexesOf(recs))
  <2>1. Books(db, Q, LeasesOf(recs), IndexesOf(recs))
    BY <1>1 DEF Agrees
  <2> HIDE DEF Q
  <2>2. QED
    BY <1>2, <1>3, <2>1, PlaceBooks
<1> HIDE DEF e
<1>5. Agrees(LeaveRunning(e, id, r.status), [recs EXCEPT ![id] = r])
  BY <1>1, <1>4, BackAgrees
<1>6. QED
  BY <1>5 DEF e

\* ack and finish_canceled.
LEMMA AckSound ==
  ASSUME RedisInv, NEW id \in DOMAIN recs, recs[id].status = "running", NEW at,
         ack(id, at) \/ finish_canceled(id, at),
         UNCHANGED <<chains, replayed, now, lastToken, closed>>
  PROVE  Sound
<1>1. IsHashes(recs) /\ Agrees(db, recs) /\ recs[id] \in Record
  BY StoreIsHashes DEF RedisInv, IsHashes
<1>2. ASSUME NEW s \in {"completed", "canceled"}
      PROVE  LET r == Finished(recs[id], s)
             IN  r \in Record /\ r.status = s /\ r.queue = recs[id].queue
  BY <1>1, <1>2 DEF Finished, ClearLease, Record, Statuses, NoToken
<1>3. CASE ack(id, at)
  <2> DEFINE r == Finished(recs[id], "completed")
  <2>1. r \in Record /\ r.status = "completed" /\ r.queue = recs[id].queue
    BY <1>2
  <2>2. FinalInRedis(id, r, LeaveRunning(db, id, "completed"), at)
    BY <1>3 DEF ack
  <2> HIDE DEF r
  <2>3. Agrees(LeaveRunning(db, id, "completed"), [recs EXCEPT ![id] = r])
    <3>1. r.status # "running" /\ ~Queued(r.status)
      BY <2>1 DEF Queued
    <3>2. Agrees(LeaveRunning(db, id, r.status), [recs EXCEPT ![id] = r])
      BY <1>1, <2>1, <3>1, EndAgrees
    <3>3. QED
      BY <2>1, <3>2
  <2>4. QED
    BY <1>1, <2>2, <2>3, EndSound DEF r
<1>4. CASE finish_canceled(id, at)
  <2> DEFINE r == Finished(recs[id], "canceled")
  <2>1. r \in Record /\ r.status = "canceled" /\ r.queue = recs[id].queue
    BY <1>2
  <2>2. FinalInRedis(id, r, forceCancel(db, id, recs[id]), at)
    BY <1>4 DEF finish_canceled
  <2> HIDE DEF r
  <2>3. Agrees(forceCancel(db, id, recs[id]), [recs EXCEPT ![id] = r])
    BY <1>1, <2>1, CancelAgrees
  <2>4. QED
    BY <1>1, <2>2, <2>3, EndSound DEF r
<1>5. QED
  BY <1>3, <1>4

\* fail: one more attempt, or the end.
LEMMA FailSound ==
  ASSUME RedisInv, NEW id \in DOMAIN recs, recs[id].status = "running",
         NEW kind \in FailKinds, NEW delay \in Delays, NEW at \in Nat,
         fail(id, kind, delay, at),
         UNCHANGED <<chains, replayed, now, lastToken, closed>>
  PROVE  Sound
<1> DEFINE r == Counted(recs[id], kind)
           s == [ClearLease(r) EXCEPT !.status = "retrying", !.runAt = at + delay]
<1>1. IsHashes(recs) /\ Agrees(db, recs) /\ recs[id] \in Record
  BY StoreIsHashes DEF RedisInv, IsHashes
<1>2. /\ r \in Record /\ r.dependsOn = recs[id].dependsOn /\ r.policy = recs[id].policy
      /\ r.pendingParents = recs[id].pendingParents /\ r.queue = recs[id].queue
  <2> DEFINE a == IF kind = "business" THEN recs[id].attempts + 1 ELSE recs[id].attempts
             c == IF kind = "throttled" THEN recs[id].throttled + 1 ELSE recs[id].throttled
  <2>1. a \in Nat /\ c \in Nat
    BY <1>1, SMTT(60) DEF Record
  <2>2. r = [recs[id] EXCEPT !.attempts = a, !.throttled = c]
    BY <1>1 DEF Counted
  <2> HIDE DEF a, c, r
  <2>3. QED
    BY <1>1, <2>1, <2>2 DEF Record
<1>3. at + delay \in Nat
  BY ConstantsAssumption
<1> HIDE DEF r
<1>4. CASE Exhausted(r, kind)
  <2> DEFINE f == Finished(r, "failed")
  <2>1. FinalInRedis(id, f, LeaveRunning(db, id, "failed"), at)
    BY <1>4 DEF fail, r
  <2>2. f \in Record /\ f.status = "failed" /\ f.queue = r.queue
    BY <1>2 DEF Finished, ClearLease, Record, Statuses, NoToken
  <2> HIDE DEF f
  <2>3. Agrees(LeaveRunning(db, id, "failed"), [recs EXCEPT ![id] = f])
    <3>1. f.status # "running" /\ ~Queued(f.status)
      BY <2>2 DEF Queued
    <3>2. Agrees(LeaveRunning(db, id, f.status), [recs EXCEPT ![id] = f])
      BY <1>1, <1>2, <2>2, <3>1, EndAgrees
    <3>3. QED
      BY <2>2, <3>2
  <2>4. QED
    BY <1>2, <2>1, <2>3, EndSound DEF f
<1>5. CASE ~Exhausted(r, kind)
  <2>1. /\ recs' = [recs EXCEPT ![id] = s]
        /\ db' = LeaveRunning(placeInQueue(db, id, s.queue, s.runAt, at), id, "retrying")
    BY <1>5 DEF fail, r
  <2>2. /\ s \in Record /\ s.status = "retrying" /\ s.dependsOn = r.dependsOn
        /\ s.policy = r.policy /\ s.pendingParents = r.pendingParents /\ s.queue = r.queue
    BY <1>2, <1>3 DEF ClearLease, Record, Statuses, NoToken
  <2> HIDE DEF s
  <2>3. Queued(s.status) /\ s.status \in Live
    BY <2>2 DEF Queued, Live
  <2>4. Agrees(db', recs')
    BY <1>2, <2>1, <2>2, <2>3, PlacedAgain
  <2>5. QED
    BY <1>2, <2>1, <2>2, <2>3, <2>4, StaySound
<1>6. QED
  BY <1>4, <1>5

\* requeue: the task is given back.
LEMMA RequeueSound ==
  ASSUME RedisInv, NEW id \in DOMAIN recs, recs[id].status = "running", NEW at,
         requeue(id, at), UNCHANGED <<chains, replayed, now, lastToken, closed>>
  PROVE  Sound
<1> DEFINE r == Returned(recs[id])
<1>1. recs[id] \in Record
  BY StoreIsHashes DEF RedisInv, IsHashes
<1>2. /\ r \in Record /\ r.status = "pending" /\ r.dependsOn = recs[id].dependsOn
      /\ r.policy = recs[id].policy /\ r.pendingParents = recs[id].pendingParents
      /\ r.queue = recs[id].queue /\ r.runAt = recs[id].runAt
  BY <1>1 DEF Returned, ClearLease, Record, Statuses, NoToken
<1>3. /\ recs' = [recs EXCEPT ![id] = r]
      /\ db' = LeaveRunning(placeInQueue(db, id, r.queue, r.runAt, at), id, r.status)
  BY <1>2 DEF requeue
<1> HIDE DEF r
<1>4. Queued(r.status) /\ r.status \in Live
  BY <1>2 DEF Queued, Live
<1>5. Agrees(db', recs')
  BY <1>2, <1>3, <1>4, PlacedAgain
<1>6. QED
  BY <1>2, <1>3, <1>4, <1>5, StaySound

\* heartbeat.lua: hash and sorted set get the same deadline.
LEMMA HeartbeatSound ==
  ASSUME RedisInv, NEW id \in DOMAIN recs, recs[id].status = "running", NEW at \in Nat,
         heartbeat(id, at), UNCHANGED <<chains, replayed, now, lastToken, closed>>
  PROVE  Sound
<1>1. IsHashes(recs) /\ Agrees(db, recs) /\ recs[id] \in Record /\ id \in Tasks
  BY StoreIsHashes DEF RedisInv, IsHashes
<1>2. PICK until \in Nat : until = at + LeaseTTL[recs[id].queue]
  <2>1. recs[id].queue \in Queues
    BY <1>1 DEF Record
  <2>2. QED
    BY <2>1, ConstantsAssumption
<1> DEFINE r == [recs[id] EXCEPT !.leaseUntil = until]
<1>3. recs' = [recs EXCEPT ![id] = r] /\ db' = Watch(db, id, until)
  BY <1>1, <1>2 DEF heartbeat
<1>4. /\ r \in Record /\ r.status = "running" /\ r.dependsOn = recs[id].dependsOn
      /\ r.policy = recs[id].policy /\ r.pendingParents = recs[id].pendingParents
      /\ r.queue = recs[id].queue /\ r.leaseUntil = until
  BY <1>1, <1>2 DEF Record
<1> HIDE DEF r
<1>5. LeasesOf(recs') = ZAdd(LeasesOf(recs), id, until)
  BY <1>1, <1>3, <1>4, WriteView
<1>6. QueuesOf(recs') = QueuesOf(recs) /\ IndexesOf(recs') = IndexesOf(recs)
  <2>1. /\ DOMAIN recs' = DOMAIN recs
        /\ \A t \in DOMAIN recs : recs'[t].status = recs[t].status /\ recs'[t].queue = recs[t].queue
    BY <1>3, <1>4
  <2>2. QED
    BY <2>1 DEF QueuesOf, IndexesOf
<1>7. Books(db', QueuesOf(recs), ZAdd(LeasesOf(recs), id, until), IndexesOf(recs))
  BY <1>1, <1>2, <1>3, LeaseBooks DEF Agrees
<1>8. Agrees(db', recs')
  BY <1>5, <1>6, <1>7 DEF Agrees
<1>9. QED
  BY <1>3, <1>4, <1>8, StaySound DEF Live

\* A report of the holder of a lease.
LEMMA ReportSound ==
  ASSUME RedisInv, NEW id, NEW token, NEW at \in Nat, ReportToRedis(id, token, at)
  PROVE  Sound
<1>1. /\ id \in DOMAIN recs /\ recs[id].status = "running"
      /\ UNCHANGED <<chains, replayed, now, lastToken, closed>>
  BY DEF ReportToRedis, HoldsLease
<1>2. \/ ack(id, at)
      \/ \E kind \in FailKinds, delay \in Delays : fail(id, kind, delay, at)
      \/ finish_canceled(id, at)
      \/ requeue(id, at)
      \/ heartbeat(id, at)
  BY DEF ReportToRedis
<1>3. QED
  BY <1>1, <1>2, AckSound, FailSound, RequeueSound, HeartbeatSound

\* cancel.lua: a running task is only flagged, any other ends.
LEMMA CancelSound ==
  ASSUME RedisInv, NEW id \in DOMAIN recs, NEW at, cancel(id, at)
  PROVE  Sound
<1>1. /\ ~IsFinal(recs[id].status) /\ UNCHANGED <<chains, replayed, now, lastToken, closed>>
      /\ IsHashes(recs) /\ Agrees(db, recs) /\ recs[id] \in Record
  BY StoreIsHashes DEF cancel, RedisInv, IsHashes
<1>2. CASE recs[id].status = "running"
  <2> DEFINE r == [recs[id] EXCEPT !.cancelRequested = TRUE]
  <2>1. recs' = [recs EXCEPT ![id] = r] /\ db' = db
    BY <1>1, <1>2 DEF cancel
  <2>2. /\ r \in Record /\ r.status = "running" /\ r.dependsOn = recs[id].dependsOn
        /\ r.policy = recs[id].policy /\ r.pendingParents = recs[id].pendingParents
        /\ r.queue = recs[id].queue /\ r.leaseUntil = recs[id].leaseUntil
    BY <1>1, <1>2 DEF Record
  <2> HIDE DEF r
  <2>3. /\ DOMAIN recs' = DOMAIN recs
        /\ \A t \in DOMAIN recs : /\ recs'[t].status = recs[t].status
                                  /\ recs'[t].queue = recs[t].queue
                                  /\ recs'[t].leaseUntil = recs[t].leaseUntil
    BY <1>2, <2>1, <2>2
  <2>4. Agrees(db', recs')
    BY <1>1, <2>1, <2>3, SameView
  <2>5. QED
    BY <1>1, <1>2, <2>1, <2>2, <2>4, StaySound DEF Live
<1>3. CASE recs[id].status # "running"
  <2> DEFINE r == [ClearLease(recs[id]) EXCEPT !.status = "canceled"]
  <2>1. FinalInRedis(id, r, forceCancel(db, id, recs[id]), at)
    BY <1>3 DEF cancel
  <2>2. /\ r \in Record /\ r.status = "canceled" /\ r.dependsOn = recs[id].dependsOn
        /\ r.policy = recs[id].policy /\ r.pendingParents = recs[id].pendingParents
        /\ r.queue = recs[id].queue
    BY <1>1 DEF ClearLease, Record, Statuses, NoToken
  <2> HIDE DEF r
  <2>3. recs[id].status \in {"blocked", "pending", "retrying"}
    BY <1>1, <1>3 DEF Record, Statuses, IsFinal
  <2>4. IsFinal(r.status) /\ CanTransition(recs[id].status, r.status)
    BY <2>2, <2>3, TransitionTable DEF IsFinal
  <2>5. Agrees(forceCancel(db, id, recs[id]), [recs EXCEPT ![id] = r])
    BY <1>1, <2>2, <2>3, CancelAgrees
  <2>6. QED
    BY <1>1, <2>1, <2>2, <2>4, <2>5, FinalSound
<1>4. QED
  BY <1>2, <1>3

\* reap.lua: the sorted set of leases agrees with the hashes, so no entry is a
\* left-over; and the cascade leaves the graph settled, so the defensive pass
\* finds nothing to repair.
LEMMA ReapSound ==
  ASSUME RedisInv, NEW at \in Nat, reap(at)
  PROVE  Sound
<1>1. /\ TypeOK /\ Settled(recs) /\ IsStore(recs) /\ IsHashes(recs)
      /\ Books(db, QueuesOf(recs), LeasesOf(recs), IndexesOf(recs))
  BY StoreIsHashes DEF RedisInv, TypeOK, Agrees
<1>2. PICK X : X = Overdue(at)
  OBVIOUS
<1>3. X \subseteq {t \in DOMAIN recs : recs[t].status = "running"}
  BY <1>2 DEF Overdue
<1>4. PICK r1, R : r1 = TakenBack(X) /\ R = {t \in X : IsFinal(TakenBack(X)[t].status)}
  OBVIOUS
<1>5. /\ recs' = Repair(Propagate(r1, R))
      /\ AllMoved([db EXCEPT !.inflight = ZRem(@, OverdueEntries(at) \ X)], recs, recs', at, db')
      /\ UNCHANGED <<chains, replayed, now, lastToken, closed>>
  BY <1>2, <1>4, Zenon DEF reap, TakenBack
<1>6. /\ IsStore(r1) /\ Writes(recs, r1, R)
      /\ \A t \in DOMAIN recs :
           IF t \in X THEN /\ r1[t].status \in {"canceled", "failed", "pending"}
                           /\ r1[t].queue = recs[t].queue
                      ELSE r1[t] = recs[t]
  BY <1>1, <1>3, <1>4, TakenBackWrites
<1>7. /\ IsStore(Propagate(r1, R)) /\ Settled(Propagate(r1, R))
      /\ DOMAIN Propagate(r1, R) = DOMAIN recs
  BY <1>1, <1>6, PropagateSettles, PropagateType DEF IsStore, Writes
<1>8. recs' = Propagate(r1, R)
  BY <1>5, <1>7, RepairOfSettled
<1>9. IsStore(recs') /\ Settled(recs') /\ DOMAIN recs' = DOMAIN recs
  BY <1>7, <1>8
<1>10. TypeOK'
  BY <1>1, <1>5, <1>9, FrameType DEF TypeOK
<1>11. Lifecycle!Next
  BY <1>1, <1>3, <1>4, <1>8, <1>9, <1>10, TakenBackMapped
<1>12. [db EXCEPT !.inflight = ZRem(@, OverdueEntries(at) \ X)] = db
  <2>1. db \in DBs /\ db.inflight = LeasesOf(recs) /\ db.inflight \in ZSets
    BY <1>1 DEF Books
  <2>2. OverdueEntries(at) \ X = {}
    <3>1. \A t \in DOMAIN LeasesOf(recs) : /\ t \in DOMAIN recs /\ recs[t].status = "running"
                                           /\ LeasesOf(recs)[t] = recs[t].leaseUntil
      BY DEF LeasesOf
    <3>2. QED
      BY <1>2, <2>1, <3>1 DEF Overdue, OverdueEntries
  <2>3. ZRem(db.inflight, {}) = db.inflight
    <3>1. PICK Y \in SUBSET Tasks : db.inflight \in [Y -> Nat]
      BY <2>1 DEF ZSets
    <3>2. QED
      BY <3>1 DEF ZRem, Restrict
  <2>4. [db EXCEPT !.inflight = ZRem(@, OverdueEntries(at) \ X)]
          = [db EXCEPT !.inflight = db.inflight]
    BY <2>2, <2>3
  <2>5. QED
    BY <2>1, <2>4 DEF DBs
<1>13. MovesFrom(recs, recs')
  <2>1. IsHashes(r1) /\ DOMAIN r1 = DOMAIN recs
    BY <1>6 DEF IsStore, IsHashes, Writes
  <2>2. MovesFrom(r1, recs')
    BY <1>8, <2>1, PropagateMovesFrom
  <2>3. ASSUME NEW t \in DOMAIN recs
        PROVE  \/ /\ recs'[t].status = recs[t].status /\ recs'[t].queue = recs[t].queue
                  /\ recs[t].status = "running" => recs'[t].leaseUntil = recs[t].leaseUntil
               \/ CascadeMove(recs[t], recs'[t])
    <3>1. \/ /\ recs'[t].status = r1[t].status /\ recs'[t].queue = r1[t].queue
             /\ r1[t].status = "running" => recs'[t].leaseUntil = r1[t].leaseUntil
          \/ CascadeMove(r1[t], recs'[t])
      BY <2>1, <2>2 DEF MovesFrom
    <3>2. CASE t \in X
      BY <1>3, <1>6, <3>1, <3>2 DEF CascadeMove
    <3>3. CASE t \notin X
      BY <1>6, <3>1, <3>3
    <3>4. QED
      BY <3>2, <3>3
  <2>4. QED
    BY <1>1, <1>9, <2>2, <2>3 DEF MovesFrom
<1>14. Agrees(db', recs')
  <2>1. Agrees(db, recs)
    BY DEF RedisInv
  <2>2. AllMoved(db, recs, recs', at, db')
    BY <1>5, <1>12
  <2>3. QED
    BY <1>13, <2>1, <2>2, AllMovedAgrees
<1>15. QED
  BY <1>9, <1>10, <1>11, <1>14 DEF Sound

-------------------------------------------------------------------------------
(* The invariant and the theorems.                                         *)

\* Every step keeps the invariant and is a step of the lifecycle or a stutter.
LEMMA RedisStep ==
  ASSUME RedisInv, [RedisNext]_redisVars
  PROVE  Sound
<1>1. ASSUME NEW at \in Times,
             \/ SubmitToRedis(at)
             \/ ReplayOnRedis(at)
             \/ \E q \in Queues : Dequeued(q, at) \/ ClaimResent(q, at)
             \/ \E id \in Tasks, token \in 1..lastToken : ReportToRedis(id, token, at)
             \/ \E id \in DOMAIN recs : cancel(id, at)
             \/ reap(at)
      PROVE  Sound
  <2>1. at \in Nat /\ lastToken \in Nat
    BY TimesType DEF RedisInv, TypeOK
  <2>2. CASE SubmitToRedis(at)
    <3>1. PICK id \in Tasks, s \in Submissions, queue \in Queues, maxRetry \in MaxRetries, delay \in Delays :
            enqueue(id, s.deps, s.policy, s.key, queue, maxRetry, delay, at)
      BY <2>2 DEF SubmitToRedis
    <3>2. s.deps \in Seq(Tasks) /\ s.policy \in Policies /\ s.key \in Keys \cup {NoKey}
      BY SubmissionsTyped
    <3> QED BY <2>1, <3>1, <3>2, EnqueueSound
  <2>3. CASE ReplayOnRedis(at)
    <3>1. PICK id \in Tasks, allowCompleted \in BOOLEAN :
            \/ \E target \in DOMAIN recs : replay(id, target, allowCompleted, at)
            \/ \E key \in Keys : /\ chains[key] # <<>>
                                 /\ replay(id, Last(chains[key]), allowCompleted, at)
      BY <2>3 DEF ReplayOnRedis
    <3>2. ASSUME NEW key \in Keys, chains[key] # <<>> PROVE Last(chains[key]) \in DOMAIN recs
      <4>1. chains[key] \in Seq(DOMAIN recs)
        BY DEF RedisInv, TypeOK
      <4>2. Len(chains[key]) \in Nat \ {0}
        BY <3>2, <4>1
      <4>3. QED
        BY <4>1, <4>2 DEF Last
    <3>3. QED
      BY <2>1, <3>1, <3>2, ReplaySound
  <2>4. ASSUME NEW q \in Queues, Dequeued(q, at) \/ ClaimResent(q, at) PROVE Sound
    <3>1. PICK token \in Nat : claim(q, token, at)
      BY <2>1, <2>4 DEF Dequeued, ClaimResent
    <3>2. QED
      BY <2>1, <3>1, ClaimSound
  <2>5. QED
    BY <1>1, <2>1, <2>2, <2>3, <2>4, ReportSound, CancelSound, ReapSound
<1>2. ASSUME UNCHANGED <<recs, db, chains, replayed, lastToken, closed>>, now' \in Nat
      PROVE  Sound
  <2>1. TypeOK' /\ Settled(recs') /\ Agrees(db', recs')
    BY <1>2 DEF RedisInv, TypeOK
  <2>2. QED
    BY <1>2, <2>1 DEF Sound, Lifecycle!vars
<1>3. CASE RedisTick
  <2>1. UNCHANGED <<recs, db, chains, replayed, lastToken, closed>> /\ now' \in Nat
    BY <1>3 DEF RedisTick, Tick, RedisInv, TypeOK
  <2>2. QED
    BY <1>2, <2>1
<1>4. CASE UNCHANGED redisVars
  <2>1. UNCHANGED <<recs, db, chains, replayed, lastToken, closed>> /\ now' \in Nat
    BY <1>4 DEF redisVars, vars, RedisInv, TypeOK
  <2>2. QED
    BY <1>2, <2>1
<1>5. QED
  BY <1>1, <1>3, <1>4 DEF RedisNext

\* An empty database agrees with no hashes.
LEMMA RedisStart ==
  ASSUME RedisInit
  PROVE  RedisInv
<1>1. Init /\ db = EmptyDB
  BY DEF RedisInit
<1>2. DOMAIN recs = {} /\ recs \in [{} -> Record]
  BY <1>1 DEF Init
<1>3. TypeOK /\ Settled(recs)
  <2>1. IsStore(recs)
    BY <1>2 DEF IsStore
  <2>2. chains \in [Keys -> Seq(DOMAIN recs)]
    BY <1>1 DEF Init
  <2>3. QED
    BY <1>1, <1>2, <2>1, <2>2 DEF Init, TypeOK, NoToken, Settled
<1> DEFINE none == [t \in {} |-> 0]
<1>4. none \in ZSets /\ DOMAIN none = {}
  <2>1. none \in [{} -> Nat] /\ {} \in SUBSET Tasks
    OBVIOUS
  <2> HIDE DEF none
  <2>2. QED
    BY <2>1, Zenon DEF ZSets
<1>5. LeasesOf(recs) = none
  BY <1>2 DEF LeasesOf
<1>6. /\ \A q \in Queues : QueuesOf(recs)[q] = {}
      /\ \A s \in Statuses : IndexesOf(recs)[s] = {}
      /\ QueuesOf(recs) \in [Queues -> SUBSET Tasks]
      /\ IndexesOf(recs) \in [Statuses -> SUBSET Tasks]
      /\ IndexesOf(recs) = [s \in Statuses |-> {}]
  BY <1>2 DEF QueuesOf, IndexesOf
<1> HIDE DEF none
<1>7. /\ db.pending = [q \in Queues |-> <<>>] /\ db.delayed = [q \in Queues |-> none]
      /\ db.inflight = none /\ db.index = [s \in Statuses |-> {}]
      /\ db.stats = [s \in Statuses |-> 0]
      /\ db = [pending |-> db.pending, delayed |-> db.delayed, inflight |-> db.inflight,
               index |-> db.index, stats |-> db.stats]
  BY <1>1 DEF EmptyDB, none
<1>8. db \in DBs
  <2>1. /\ db.pending \in [Queues -> Seq(Tasks)] /\ db.delayed \in [Queues -> ZSets]
        /\ db.index \in [Statuses -> SUBSET Tasks] /\ db.stats \in [Statuses -> Int]
    BY <1>4, <1>7
  <2>2. QED
    BY <1>4, <1>7, <2>1 DEF DBs
<1>9. Holds(<<>>, none, {})
  BY <1>4 DEF Holds, Distinct, Range
<1>10. Books(db, QueuesOf(recs), LeasesOf(recs), IndexesOf(recs))
  BY <1>4, <1>5, <1>6, <1>7, <1>8, <1>9, FS_EmptySet, ZenonT(60) DEF Books
<1>11. QED
  BY <1>3, <1>10 DEF RedisInv, Agrees

\* The structures of every state hold what the hashes say.
LEMMA RedisAgrees == RedisSpec => []RedisInv
<1>1. RedisInv /\ [RedisNext]_redisVars => RedisInv'
  BY RedisStep DEF Sound, RedisInv
<1>2. QED
  BY <1>1, RedisStart, PTL DEF RedisSpec

\* Whatever the order of scripts and however late their clocks, every queued task
\* stands exactly once in its queue and nothing else stands in any.
THEOREM QueuesAgree == RedisSpec => []QueuesExact
<1>1. RedisInv => QueuesExact
  <2>1. SUFFICES ASSUME RedisInv, NEW t \in Tasks, NEW q \in Queues
                 PROVE  Places(t, q) = IF IsQueued(t) /\ recs[t].queue = q THEN 1 ELSE 0
    BY DEF QueuesExact
  <2> DEFINE list == db.pending[q]
             z == db.delayed[q]
             T == QueuesOf(recs)[q]
             at == {i \in DOMAIN list : list[i] = t}
  <2>2. Holds(list, z, T)
    BY <2>1 DEF RedisInv, Agrees, Books
  <2>3. t \in T <=> IsQueued(t) /\ recs[t].queue = q
    BY DEF QueuesOf, IsQueued
  <2>4. Places(t, q) = Cardinality(at) + (IF t \in DOMAIN z THEN 1 ELSE 0)
    BY DEF Places
  <2> HIDE DEF T, z
  <2>5. CASE t \in Range(list)
    <3>1. PICK i \in DOMAIN list : list[i] = t
      BY <2>5 DEF Range
    <3>2. at = {i}
      BY <2>2, <3>1 DEF Holds, Distinct
    <3>3. Cardinality(at) = 1
      BY <3>2, FS_Singleton
    <3>4. t \in T /\ t \notin DOMAIN z
      BY <2>2, <2>5 DEF Holds
    <3> HIDE DEF at, list
    <3>5. QED
      BY <2>3, <2>4, <3>3, <3>4
  <2>6. CASE t \notin Range(list)
    <3>1. at = {}
      BY <2>6 DEF Range
    <3>2. Cardinality(at) = 0
      BY <3>1, FS_EmptySet
    <3>3. t \in T <=> t \in DOMAIN z
      BY <2>2, <2>6 DEF Holds
    <3> HIDE DEF at, list
    <3>4. QED
      BY <2>3, <2>4, <3>2, <3>3
  <2>7. QED
    BY <2>5, <2>6
<1>2. QED
  BY <1>1, RedisAgrees, PTL

\* The sorted set of leases names exactly the running tasks, with the deadlines of
\* their hashes: reap misses no lease and takes none that still lives.
THEOREM LeasesAgree == RedisSpec => []LeasesWatched
<1>1. RedisInv => LeasesWatched
  <2>1. SUFFICES ASSUME RedisInv PROVE LeasesWatched
    OBVIOUS
  <2>2. db.inflight = LeasesOf(recs)
    BY <2>1 DEF RedisInv, Agrees, Books
  <2>3. QED
    BY <2>2 DEF LeasesWatched, LeasesOf
<1>2. QED
  BY <1>1, RedisAgrees, PTL

\* The indexes and the statistics are exact after every script.
THEOREM IndexesAgree == RedisSpec => []IndexesExact
<1>1. RedisInv => IndexesExact
  <2>1. SUFFICES ASSUME RedisInv PROVE IndexesExact
    OBVIOUS
  <2>2. /\ db.index = IndexesOf(recs)
        /\ \A s \in Statuses : db.stats[s] = Cardinality(IndexesOf(recs)[s])
    BY <2>1 DEF RedisInv, Agrees, Books
  <2>3. QED
    BY <2>2 DEF IndexesExact, IndexesOf
<1>2. QED
  BY <1>1, RedisAgrees, PTL

\* The scripts implement the abstract lifecycle, for any number of tasks.
THEOREM RedisImplements == RedisSpec => ImplementsLifecycle
<1>1. RedisInit => Lifecycle!Init
  <2>1. SUFFICES ASSUME RedisInit PROVE Lifecycle!Init
    OBVIOUS
  <2>2. DOMAIN recs = {}
    BY <2>1 DEF RedisInit, Init
  <2>3. QED
    BY <2>2 DEF Lifecycle!Init
<1>2. RedisInv /\ [RedisNext]_redisVars => [Lifecycle!Next]_(Lifecycle!vars)
  BY RedisStep DEF Sound
<1>3. QED
  BY <1>1, <1>2, RedisAgrees, PTL DEF RedisSpec, ImplementsLifecycle, Lifecycle!Spec
===============================================================================
