-------------------------- MODULE SqliteBrokerProofs --------------------------
(***************************************************************************)
(* Proofs about SqliteBroker, for every value of its constants.            *)
(*                                                                         *)
(* The inductive invariant SqliteInv has two parts.  The committed tables  *)
(* are in order (Tables): a blocked task counts exactly the parents that   *)
(* have not ended, a live one waits for none, and an edge is done where    *)
(* its parent has ended.  The open transaction (TxGood) is in order with   *)
(* respect to the tasks whose children it still has to settle (Owing), and *)
(* stands between the committed rows and the rows its call is for (Walk):  *)
(* what it has canceled is forced, and no row has been counted down and    *)
(* canceled both.                                                          *)
(*                                                                         *)
(* When nothing is owing the walk has written what Propagate of the        *)
(* in-memory broker writes at once (PropagateIs), so that a commit is one  *)
(* step of that broker.                                                    *)
(***************************************************************************)
EXTENDS SqliteBroker, FiniteSetTheorems, SequenceTheorems, TLAPS

-------------------------------------------------------------------------------
(* Ascending.                                                              *)

\* The place of a number in a finite set of them: every place is taken, and by
\* one number alone.
LEMMA Ranks ==
  ASSUME NEW S \in SUBSET Nat, IsFiniteSet(S)
  PROVE  /\ \A i \in 1..Cardinality(S) : \E t \in S : Cardinality({u \in S : u <= t}) = i
         /\ \A t \in S : Cardinality({u \in S : u <= t}) \in 1..Cardinality(S)
         /\ \A t, v \in S :
              Cardinality({u \in S : u <= t}) = Cardinality({u \in S : u <= v}) => t = v
<1> DEFINE upto(t) == {u \in S : u <= t}
           rank == [t \in S |-> Cardinality(upto(t))]
           N == Cardinality(S)
<1>1. N \in Nat
  BY FS_CardinalityType
<1>2. ASSUME NEW t \in S PROVE IsFiniteSet(upto(t)) /\ rank[t] \in 1..N
  <2>1. upto(t) \subseteq S /\ t \in upto(t)
    OBVIOUS
  <2>2. IsFiniteSet(upto(t)) /\ Cardinality(upto(t)) <= N
    BY <2>1, FS_Subset
  <2>3. Cardinality(upto(t)) \in Nat /\ Cardinality(upto(t)) # 0
    BY <2>1, <2>2, FS_CardinalityType, FS_EmptySet
  <2> HIDE DEF upto, N
  <2>4. QED
    BY <1>1, <2>2, <2>3
<1>3. ASSUME NEW t \in S, NEW v \in S, rank[t] = rank[v], t < v PROVE FALSE
  <2>1. upto(t) \subseteq upto(v) /\ v \in upto(v) /\ v \notin upto(t)
    <3>1. t \in Nat /\ v \in Nat /\ \A u \in S : u \in Nat
      OBVIOUS
    <3>2. t < v
      BY <1>3
    <3>3. \A u \in S : u <= t => u <= v
      BY <3>1, <3>2
    <3>4. v <= v /\ ~(v <= t)
      BY <3>1, <3>2
    <3>5. QED
      BY <3>3, <3>4
  <2>2. Cardinality(upto(t)) = Cardinality(upto(v))
    BY <1>3
  <2> HIDE DEF upto
  <2>3. QED
    BY <1>2, <2>1, <2>2, FS_Subset
<1>4. ASSUME NEW t \in S, NEW v \in S, rank[t] = rank[v] PROVE t = v
  <2>1. t \in Nat /\ v \in Nat
    OBVIOUS
  <2>2. ~(t < v) /\ ~(v < t)
    BY <1>3, <1>4
  <2>3. QED
    BY <2>1, <2>2
<1>5. IsFiniteSet(1..N) /\ Cardinality(1..N) = N
  BY <1>1, FS_Interval
<1> HIDE DEF upto, N
<1>6. rank \in Injection(S, 1..N)
  BY <1>2, <1>4 DEF Injection, IsInjective
<1>7. rank \in Surjection(S, 1..N)
  BY <1>5, <1>6, FS_Injection DEF N
<1>8. \A i \in 1..N : \E t \in S : rank[t] = i
  BY <1>7 DEF Surjection
<1>9. \A t \in S : rank[t] = Cardinality(upto(t))
  OBVIOUS
<1> HIDE DEF rank
<1>10. QED
  BY <1>2, <1>4, <1>8, <1>9 DEF upto, N

\* Ascending lists the members of a set, each once.
LEMMA AscendingLists ==
  ASSUME NEW S \in SUBSET Nat, IsFiniteSet(S)
  PROVE  /\ Ascending(S) \in Seq(S)
         /\ Len(Ascending(S)) = Cardinality(S)
         /\ Range(Ascending(S)) = S
         /\ \A i, j \in DOMAIN Ascending(S) : Ascending(S)[i] = Ascending(S)[j] => i = j
         /\ \A i \in 1..Cardinality(S) :
              Cardinality({u \in S : u <= Ascending(S)[i]}) = i
<1> DEFINE N == Cardinality(S)
           rank(t) == Cardinality({u \in S : u <= t})
           at(i) == CHOOSE t \in S : rank(t) = i
<1>1. N \in Nat
  BY FS_CardinalityType
<1>2. Ascending(S) = [i \in 1..N |-> at(i)]
  BY DEF Ascending
<1>3. \A i \in 1..N : \E t \in S : rank(t) = i
  BY Ranks
<1>4. \A t \in S : rank(t) \in 1..N
  BY Ranks
<1>5. \A t, v \in S : rank(t) = rank(v) => t = v
  BY Ranks
<1> HIDE DEF N, rank
<1>6. ASSUME NEW i \in 1..N PROVE at(i) \in S /\ rank(at(i)) = i
  BY <1>3
<1> HIDE DEF at
<1>7. Ascending(S) \in Seq(S) /\ Len(Ascending(S)) = N /\ DOMAIN Ascending(S) = 1..N
  BY <1>1, <1>2, <1>6
<1>8. ASSUME NEW t \in S PROVE t \in Range(Ascending(S))
  <2>1. rank(t) \in 1..N
    BY <1>4
  <2>2. at(rank(t)) = t
    BY <2>1, <1>5, <1>6
  <2>3. QED
    BY <2>1, <2>2, <1>2, <1>7 DEF Range
<1>9. Range(Ascending(S)) \subseteq S
  BY <1>2, <1>6, <1>7 DEF Range
<1>10. \A i, j \in DOMAIN Ascending(S) : Ascending(S)[i] = Ascending(S)[j] => i = j
  BY <1>2, <1>6, <1>7
<1>11. \A i \in 1..N : rank(Ascending(S)[i]) = i
  BY <1>2, <1>6
<1>12. QED
  BY <1>7, <1>8, <1>9, <1>10, <1>11 DEF N, rank

\* A new greatest member comes last.
LEMMA AscendingAppends ==
  ASSUME NEW S \in SUBSET Nat, IsFiniteSet(S), NEW n \in Nat, \A u \in S : u < n
  PROVE  Ascending(S \cup {n}) = Append(Ascending(S), n)
<1> DEFINE T == S \cup {n}
           N == Cardinality(S)
<1>1. N \in Nat /\ n \notin S /\ IsFiniteSet(T) /\ T \in SUBSET Nat /\ Cardinality(T) = N + 1
  <2>1. n \notin S
    OBVIOUS
  <2>2. QED
    BY <2>1, FS_AddElement, FS_CardinalityType
<1>2. \A t \in S : {u \in T : u <= t} = {u \in S : u <= t}
  OBVIOUS
<1>3. {u \in T : u <= n} = T
  <2>1. \A u \in T : u \in Nat /\ u <= n
    <3>1. \A u \in S : u \in Nat /\ u < n
      OBVIOUS
    <3>2. QED
      BY <3>1
  <2>2. QED
    BY <2>1
<1> HIDE DEF T
<1>0. \A t, v \in T :
         Cardinality({u \in T : u <= t}) = Cardinality({u \in T : u <= v}) => t = v
  BY <1>1, Ranks
<1>4. Ascending(T) \in Seq(T) /\ Len(Ascending(T)) = N + 1
  BY <1>1, AscendingLists
<1>5. Ascending(S) \in Seq(S) /\ Len(Ascending(S)) = N
  BY AscendingLists
<1>6. ASSUME NEW i \in 1..N PROVE Ascending(T)[i] = Ascending(S)[i]
  <2>1. Ascending(S)[i] \in S /\ Ascending(T)[i] \in T
    BY <1>4, <1>5, <1>1
  <2>2. Cardinality({u \in S : u <= Ascending(S)[i]}) = i
    BY AscendingLists
  <2>3. Cardinality({u \in T : u <= Ascending(S)[i]}) = i
    BY <2>1, <2>2, <1>2
  <2>4. Cardinality({u \in T : u <= Ascending(T)[i]}) = i
    <3>1. i \in 1..Cardinality(T)
      BY <1>1
    <3>2. QED
      BY <1>1, <3>1, AscendingLists
  <2>5. Ascending(S)[i] \in T
    BY <2>1 DEF T
  <2>6. QED
    BY <1>0, <2>1, <2>3, <2>4, <2>5
<1>7. Ascending(T)[N + 1] = n
  <2>1. Ascending(T)[N + 1] \in T /\ n \in T
    BY <1>4, <1>1 DEF T
  <2>2. Cardinality({u \in T : u <= Ascending(T)[N + 1]}) = N + 1
    BY <1>1, AscendingLists
  <2>3. Cardinality({u \in T : u <= n}) = N + 1
    BY <1>1, <1>3
  <2>4. QED
    BY <1>0, <2>1, <2>2, <2>3
<1> HIDE DEF N
<1>12. Ascending(S) \in Seq(Nat) /\ Ascending(T) \in Seq(Nat)
  <2>1. Seq(S) \subseteq Seq(Nat) /\ Seq(T) \subseteq Seq(Nat)
    BY <1>1, SeqMonotonic
  <2>2. QED
    BY <2>1, <1>4, <1>5
<1>8. Append(Ascending(S), n) \in Seq(Nat) /\ Len(Append(Ascending(S), n)) = N + 1
  BY <1>5, <1>12, AppendProperties
<1>9. \A i \in 1..(N + 1) : Ascending(T)[i] = Append(Ascending(S), n)[i]
  <2>1. SUFFICES ASSUME NEW i \in 1..(N + 1) PROVE Ascending(T)[i] = Append(Ascending(S), n)[i]
    OBVIOUS
  <2>2. CASE i \in 1..N
    BY <2>2, <1>5, <1>6, <1>12, AppendProperties
  <2>3. CASE i = N + 1
    BY <2>3, <1>1, <1>5, <1>7, <1>12, AppendProperties
  <2>4. i \in 1..N \/ i = N + 1
    BY <1>1
  <2>5. QED
    BY <2>2, <2>3, <2>4
<1>10. QED
  BY <1>4, <1>8, <1>9, <1>12, SeqEqual DEF T

-------------------------------------------------------------------------------
(* The dependency graph, for any rows X and any set U of tasks that have   *)
(* ended and whose children are still to be settled.                       *)

\* Parent p has ended and its children know.
Over(X, U, p) == IsFinal(X[p].status) /\ p \notin U

\* The parents that task t still waits for.
Waits(X, U, t) == {p \in Parents(X[t]) : ~Over(X, U, p)}

\* Neither blocked nor final.
Live(s) == s \in {"pending", "running", "retrying"}

\* A blocked task counts the parents it waits for, of which there are some, and none
\* of the others has broken it; a live task waits for none.
Right(X, U) ==
  \A t \in DOMAIN X :
     /\ X[t].status = "blocked" =>
          /\ X[t].pendingParents = Cardinality(Waits(X, U, t))
          /\ Waits(X, U, t) # {}
          /\ X[t].policy = "fail_fast" =>
               \A p \in Parents(X[t]) \ Waits(X, U, t) : ~ParentBroke(X[p].status)
     /\ Live(X[t].status) => Waits(X, U, t) = {}

\* The edges that the rows X call for.
Arcs(X) == UNION {{<<t, p>> : p \in Parents(X[t])} : t \in DOMAIN X}

\* The edges E are those of the rows X, marked done where the parent is over.
Marked(X, E, U) == E = [e \in Arcs(X) |-> Over(X, U, e[2])]

\* The words of TaskGate mean the same in the instance of MemoryBroker.
LEMMA SameWords ==
  /\ Mem!Statuses = Statuses /\ Mem!Policies = Policies
  /\ \A s : Mem!IsFinal(s) <=> IsFinal(s)
  /\ \A s : Mem!ParentBroke(s) <=> ParentBroke(s)
  /\ \A s, q : Mem!Satisfied(s, q) <=> Satisfied(s, q)
  /\ \A r : Mem!Parents(r) = Parents(r)
<1>1. Mem!Statuses = Statuses
  BY DEF Mem!Statuses, Statuses
<1>2. Mem!Policies = Policies
  BY DEF Mem!Policies, Policies
<1>3. QED
  BY <1>1, <1>2 DEF Mem!IsFinal, IsFinal, Mem!ParentBroke, ParentBroke, Mem!Satisfied,
                    Satisfied, Mem!Parents, Parents, Mem!Range, Range

\* A row's parents are finitely many known ids.
LEMMA ParentsKnown ==
  ASSUME NEW r \in Mem!Record
  PROVE  Parents(r) \subseteq Tasks /\ IsFiniteSet(Parents(r))
<1>1. Parents(r) \subseteq Tasks
  BY DEF Parents, Range, Mem!Record
<1>2. QED
  BY <1>1, FS_Subset, SqliteAssumption

\* The edges of some rows, and how they lead to rows.
LEMMA ArcsMeaning ==
  ASSUME NEW X
  PROVE  \A e : e \in Arcs(X) <=> \E t \in DOMAIN X : \E p \in Parents(X[t]) : e = <<t, p>>
  BY DEF Arcs

\* Rows rewritten without touching the graph: some live ones stay live, those of D
\* end, and their children are still to be settled.
LEMMA Rewritten ==
  ASSUME NEW X, NEW X2, NEW U, NEW D, DOMAIN X2 = DOMAIN X, D \subseteq DOMAIN X,
         \A t \in DOMAIN X : /\ Parents(X[t]) \subseteq DOMAIN X
                             /\ X2[t].dependsOn = X[t].dependsOn
                             /\ X2[t].policy = X[t].policy,
         \A t \in DOMAIN X \ D :
            \/ X2[t].status = X[t].status /\ X2[t].pendingParents = X[t].pendingParents
            \/ Live(X[t].status) /\ Live(X2[t].status),
         \A t \in D : ~IsFinal(X[t].status) /\ IsFinal(X2[t].status),
         Right(X, U)
  PROVE  /\ Right(X2, U \cup D)
         /\ \A E : Marked(X, E, U) => Marked(X2, E, U \cup D)
<1>1. ASSUME NEW p \in DOMAIN X PROVE Over(X2, U \cup D, p) <=> Over(X, U, p)
  BY DEF Over, Live, IsFinal
<1>2. \A t \in DOMAIN X : Parents(X2[t]) = Parents(X[t])
  BY DEF Parents
<1>3. \A t \in DOMAIN X : Waits(X2, U \cup D, t) = Waits(X, U, t)
  BY <1>1, <1>2 DEF Waits
<1>4. ASSUME NEW t \in DOMAIN X,
             X2[t].status = "blocked"
      PROVE  /\ X[t].status = "blocked" /\ X2[t].pendingParents = X[t].pendingParents
             /\ X2[t].policy = X[t].policy
  BY <1>4 DEF Live, IsFinal
<1>5. ASSUME NEW t \in DOMAIN X, Live(X2[t].status)
      PROVE  Live(X[t].status)
  BY <1>5 DEF Live, IsFinal
<1>6. ASSUME NEW t \in DOMAIN X, NEW p \in Parents(X[t]) \ Waits(X, U, t)
      PROVE  p \in DOMAIN X /\ X2[p].status = X[p].status
  <2>1. p \in DOMAIN X /\ IsFinal(X[p].status)
    BY <1>6 DEF Waits, Over
  <2>2. QED
    BY <2>1 DEF Live, IsFinal
<1>7. Right(X2, U \cup D)
  <2>1. SUFFICES ASSUME NEW t \in DOMAIN X
                 PROVE  /\ X2[t].status = "blocked" =>
                             /\ X2[t].pendingParents = Cardinality(Waits(X2, U \cup D, t))
                             /\ Waits(X2, U \cup D, t) # {}
                             /\ X2[t].policy = "fail_fast" =>
                                  \A p \in Parents(X2[t]) \ Waits(X2, U \cup D, t) :
                                     ~ParentBroke(X2[p].status)
                        /\ Live(X2[t].status) => Waits(X2, U \cup D, t) = {}
    BY DEF Right
  <2>2. Parents(X2[t]) = Parents(X[t]) /\ Waits(X2, U \cup D, t) = Waits(X, U, t)
    BY <1>2, <1>3
  <2>3. CASE X2[t].status = "blocked"
    <3>1. /\ X[t].status = "blocked" /\ X2[t].pendingParents = X[t].pendingParents
          /\ X2[t].policy = X[t].policy
      BY <1>4, <2>3
    <3>2. X[t].policy = "fail_fast" =>
            \A p \in Parents(X[t]) \ Waits(X, U, t) : ~ParentBroke(X2[p].status)
      BY <1>6, <3>1 DEF Right
    <3>3. ~Live(X2[t].status)
      BY <2>3 DEF Live
    <3>4. QED
      BY <2>2, <3>1, <3>2, <3>3 DEF Right
  <2>4. CASE X2[t].status # "blocked"
    BY <1>5, <2>2, <2>4 DEF Right
  <2>5. QED
    BY <2>3, <2>4
<1>8. Arcs(X2) = Arcs(X)
  BY <1>2 DEF Arcs
<1>9. ASSUME NEW e \in Arcs(X) PROVE Over(X2, U \cup D, e[2]) = Over(X, U, e[2])
  <2>1. e[2] \in DOMAIN X
    BY ArcsMeaning
  <2>2. Over(X2, U \cup D, e[2]) <=> Over(X, U, e[2])
    BY <1>1, <2>1
  <2>3. QED
    BY <2>2 DEF Over
<1>10. [e \in Arcs(X2) |-> Over(X2, U \cup D, e[2])] = [e \in Arcs(X) |-> Over(X, U, e[2])]
  BY <1>8, <1>9
<1>11. QED
  BY <1>7, <1>10 DEF Marked

\* The row of a blocked child that is canceled, woken, or left with n parents.
CanceledRow(r)   == [Mem!ClearLease(r) EXCEPT !.status = "canceled"]
WokenRow(r)      == [r EXCEPT !.pendingParents = 0, !.status = "pending"]
CountedRow(r, n) == [r EXCEPT !.pendingParents = n]

\* What a parent that ended with status s does to a child: nothing if it has ended
\* itself; a blocked one is canceled, woken or counts one parent less.
LEMMA SettledRow ==
  ASSUME NEW s, NEW r \in Mem!Record, IsFinal(s)
  PROVE  /\ IsFinal(r.status) => Settled(s, r) = r
         /\ r.status = "blocked" /\ ~Satisfied(s, r.policy) =>
              Settled(s, r) = CanceledRow(r)
         /\ r.status = "blocked" /\ Satisfied(s, r.policy) /\ r.pendingParents > 1 =>
              Settled(s, r) = CountedRow(r, r.pendingParents - 1)
         /\ r.status = "blocked" /\ Satisfied(s, r.policy) /\ r.pendingParents = 1 =>
              Settled(s, r) = WokenRow(r)
<1> DEFINE d == DecideOnParentFinal(s, r.status, r.policy, r.pendingParents)
           u == [r EXCEPT !.pendingParents = d.pendingParents]
<1>1. r.pendingParents \in Nat /\ r = [r EXCEPT !.pendingParents = r.pendingParents]
  BY DEF Mem!Record
<1>2. Settled(s, r) = CASE d.action = "wake"   -> [u EXCEPT !.status = "pending"]
                        [] d.action = "cancel" ->
                             IF r.status = "running" THEN [r EXCEPT !.cancelRequested = TRUE]
                             ELSE [Mem!ClearLease(u) EXCEPT !.status = "canceled"]
                        [] OTHER -> u
  BY DEF Settled
<1>3. CASE IsFinal(r.status)
  <2>1. d = [pendingParents |-> r.pendingParents, action |-> "none"]
    BY <1>3 DEF DecideOnParentFinal
  <2>2. Settled(s, r) = r
    BY <1>1, <1>2, <2>1
  <2>3. QED
    BY <2>2, <1>3 DEF IsFinal
<1>4. CASE r.status = "blocked" /\ ~Satisfied(s, r.policy)
  <2>1. d = [pendingParents |-> r.pendingParents, action |-> "cancel"]
    BY <1>4 DEF DecideOnParentFinal, IsFinal
  <2>2. u = r
    BY <2>1, <1>1
  <2>3. Settled(s, r) = CanceledRow(r)
    BY <1>2, <1>4, <2>1, <2>2 DEF CanceledRow
  <2>4. QED
    BY <2>3, <1>4 DEF IsFinal
<1>5. CASE r.status = "blocked" /\ Satisfied(s, r.policy) /\ r.pendingParents > 1
  <2>1. d = [pendingParents |-> r.pendingParents - 1, action |-> "none"]
    BY <1>1, <1>5 DEF DecideOnParentFinal, IsFinal
  <2>2. Settled(s, r) = CountedRow(r, r.pendingParents - 1)
    BY <1>2, <2>1 DEF CountedRow
  <2>3. QED
    BY <2>2, <1>5 DEF IsFinal
<1>6. CASE r.status = "blocked" /\ Satisfied(s, r.policy) /\ r.pendingParents = 1
  <2>1. d = [pendingParents |-> 0, action |-> "wake"]
    BY <1>1, <1>6 DEF DecideOnParentFinal, IsFinal
  <2>2. Settled(s, r) = WokenRow(r)
    BY <1>2, <2>1 DEF WokenRow
  <2>3. QED
    BY <2>2, <1>6 DEF IsFinal
<1>7. QED
  BY <1>3, <1>4, <1>5, <1>6

\* The rows after the children of p, which ended with status s, were settled.
Visited(X, p, s) ==
  [t \in DOMAIN X |-> IF p \in Parents(X[t]) THEN Settled(s, X[t]) ELSE X[t]]

\* The children of p that are canceled on this visit.
Dropped(X, p, s) ==
  {c \in DOMAIN X :
     p \in Parents(X[c]) /\ X[c].status = "blocked" /\ ~Satisfied(s, X[c].policy)}

\* What a visit does to each row of a graph in order: a child is blocked or has ended,
\* because p is owed to it.
LEMMA VisitedRows ==
  ASSUME NEW X, \A t \in DOMAIN X : X[t] \in Mem!Record, NEW U, NEW p \in U,
         IsFinal(X[p].status), Right(X, U), NEW t \in DOMAIN X
  PROVE  LET u == Visited(X, p, X[p].status)[t]
             s == X[p].status
         IN  /\ p \notin Parents(X[t]) => u = X[t]
             /\ X[t].status # "blocked" => u = X[t]
             /\ p \in Parents(X[t]) /\ X[t].status = "blocked" =>
                  /\ p \in Waits(X, U, t)
                  /\ X[t].pendingParents \in Nat \ {0}
                  /\ IF ~Satisfied(s, X[t].policy)
                     THEN u = CanceledRow(X[t])
                     ELSE IF X[t].pendingParents = 1
                     THEN u = WokenRow(X[t])
                     ELSE u = CountedRow(X[t], X[t].pendingParents - 1)
<1> DEFINE s == X[p].status
           u == Visited(X, p, s)[t]
<1>1. u = IF p \in Parents(X[t]) THEN Settled(s, X[t]) ELSE X[t]
  BY DEF Visited
<1>2. p \in Parents(X[t]) => p \in Waits(X, U, t)
  BY DEF Waits, Over
<1>3. ASSUME p \in Parents(X[t]), X[t].status # "blocked" PROVE u = X[t]
  <2>1. ~Live(X[t].status)
    BY <1>2, <1>3 DEF Right
  <2>2. IsFinal(X[t].status)
    <3>1. X[t].status \in Statuses
      BY SameWords DEF Mem!Record
    <3>2. QED
      BY <2>1, <3>1, <1>3 DEF Live, IsFinal, Statuses
  <2>3. QED
    BY <1>1, <1>3, <2>2, SettledRow
<1>4. ASSUME p \in Parents(X[t]), X[t].status = "blocked"
      PROVE  X[t].pendingParents \in Nat \ {0}
  <2>1. X[t].pendingParents = Cardinality(Waits(X, U, t)) /\ Waits(X, U, t) # {}
    BY <1>4 DEF Right
  <2>2. IsFiniteSet(Waits(X, U, t))
    BY ParentsKnown, FS_Subset DEF Waits
  <2>3. QED
    BY <2>1, <2>2, FS_CardinalityType, FS_EmptySet
<1>5. ASSUME p \in Parents(X[t]), X[t].status = "blocked"
      PROVE  IF ~Satisfied(s, X[t].policy)
             THEN u = CanceledRow(X[t])
             ELSE IF X[t].pendingParents = 1
             THEN u = WokenRow(X[t])
             ELSE u = CountedRow(X[t], X[t].pendingParents - 1)
  <2>1. u = Settled(s, X[t])
    BY <1>1, <1>5
  <2>2. X[t].pendingParents = 1 \/ X[t].pendingParents > 1
    BY <1>4, <1>5
  <2>3. QED
    BY <1>5, <2>1, <2>2, SettledRow
<1>6. QED
  BY <1>1, <1>2, <1>3, <1>4, <1>5

\* The fields of a row that a visit changed.
LEMMA VisitedFields ==
  ASSUME NEW r \in Mem!Record, NEW n \in Nat
  PROVE  /\ /\ CanceledRow(r) \in Mem!Record /\ CanceledRow(r).status = "canceled"
            /\ CanceledRow(r).dependsOn = r.dependsOn /\ CanceledRow(r).policy = r.policy
            /\ CanceledRow(r).key = r.key /\ CanceledRow(r).replayOf = r.replayOf
         /\ /\ WokenRow(r) \in Mem!Record /\ WokenRow(r).status = "pending"
            /\ WokenRow(r).dependsOn = r.dependsOn /\ WokenRow(r).policy = r.policy
            /\ WokenRow(r).key = r.key /\ WokenRow(r).replayOf = r.replayOf
            /\ WokenRow(r).pendingParents = 0
         /\ /\ CountedRow(r, n) \in Mem!Record /\ CountedRow(r, n).status = r.status
            /\ CountedRow(r, n).dependsOn = r.dependsOn /\ CountedRow(r, n).policy = r.policy
            /\ CountedRow(r, n).key = r.key /\ CountedRow(r, n).replayOf = r.replayOf
            /\ CountedRow(r, n).pendingParents = n
<1>1. /\ Mem!ClearLease(r) \in Mem!Record /\ Mem!ClearLease(r).dependsOn = r.dependsOn
      /\ Mem!ClearLease(r).policy = r.policy /\ Mem!ClearLease(r).key = r.key
      /\ Mem!ClearLease(r).replayOf = r.replayOf
  BY DEF Mem!ClearLease, Mem!Record, Mem!NoToken
<1>2. /\ "canceled" \in Mem!Statuses /\ "pending" \in Mem!Statuses
  BY DEF Mem!Statuses
<1>3. /\ CanceledRow(r) \in Mem!Record /\ CanceledRow(r).status = "canceled"
      /\ CanceledRow(r).dependsOn = r.dependsOn /\ CanceledRow(r).policy = r.policy
      /\ CanceledRow(r).key = r.key /\ CanceledRow(r).replayOf = r.replayOf
  BY <1>1, <1>2 DEF Mem!Record, CanceledRow
<1>4. /\ WokenRow(r) \in Mem!Record /\ WokenRow(r).status = "pending"
      /\ WokenRow(r).dependsOn = r.dependsOn /\ WokenRow(r).policy = r.policy
      /\ WokenRow(r).key = r.key /\ WokenRow(r).replayOf = r.replayOf
      /\ WokenRow(r).pendingParents = 0
  BY <1>2 DEF Mem!Record, WokenRow
<1>5. /\ CountedRow(r, n) \in Mem!Record /\ CountedRow(r, n).status = r.status
      /\ CountedRow(r, n).dependsOn = r.dependsOn /\ CountedRow(r, n).policy = r.policy
      /\ CountedRow(r, n).key = r.key /\ CountedRow(r, n).replayOf = r.replayOf
      /\ CountedRow(r, n).pendingParents = n
  BY DEF Mem!Record, CountedRow
<1>6. QED
  BY <1>3, <1>4, <1>5

\* A visit keeps the graph in order: the task it was for is over, those it canceled
\* are owed to their children now.
LEMMA VisitKeepsRight ==
  ASSUME NEW X, \A t \in DOMAIN X : X[t] \in Mem!Record,
         \A t \in DOMAIN X : Parents(X[t]) \subseteq DOMAIN X,
         NEW U, \A q \in U : q \in DOMAIN X /\ IsFinal(X[q].status), NEW p \in U, Right(X, U)
  PROVE  LET X2 == Visited(X, p, X[p].status)
             U2 == (U \ {p}) \cup Dropped(X, p, X[p].status)
         IN  /\ DOMAIN X2 = DOMAIN X
             /\ \A t \in DOMAIN X : /\ X2[t] \in Mem!Record
                                    /\ Parents(X2[t]) = Parents(X[t])
                                    /\ IsFinal(X[t].status) => X2[t] = X[t]
                                    /\ Live(X[t].status) => X2[t] = X[t]
             /\ \A t \in DOMAIN X : t \in Dropped(X, p, X[p].status) <=>
                                IsFinal(X2[t].status) /\ ~IsFinal(X[t].status)
             /\ Right(X2, U2)
             /\ \A E : Marked(X, E, U) => Marked(X2, [e \in DOMAIN E |-> E[e] \/ e[2] = p], U2)
<1> DEFINE s == X[p].status
           X2 == Visited(X, p, s)
           D == Dropped(X, p, s)
           U2 == (U \ {p}) \cup D
<1>0. p \in DOMAIN X /\ IsFinal(s)
  OBVIOUS
<1>1. DOMAIN X2 = DOMAIN X
  BY DEF Visited
<1> HIDE DEF X2
\* The five cases of a row.
<1>2. ASSUME NEW t \in DOMAIN X
      PROVE  \/ /\ X2[t] = X[t]
                /\ p \notin Parents(X[t]) \/ X[t].status # "blocked"
             \/ /\ p \in Waits(X, U, t) /\ X[t].status = "blocked"
                /\ X[t].pendingParents \in Nat \ {0}
                /\ \/ /\ ~Satisfied(s, X[t].policy)
                      /\ X2[t] = CanceledRow(X[t])
                   \/ /\ Satisfied(s, X[t].policy) /\ X[t].pendingParents = 1
                      /\ X2[t] = WokenRow(X[t])
                   \/ /\ Satisfied(s, X[t].policy) /\ X[t].pendingParents # 1
                      /\ X2[t] = CountedRow(X[t], X[t].pendingParents - 1)
  <2> DEFINE u == X2[t]
  <2>1. /\ p \notin Parents(X[t]) => u = X[t]
        /\ X[t].status # "blocked" => u = X[t]
        /\ p \in Parents(X[t]) /\ X[t].status = "blocked" =>
             /\ p \in Waits(X, U, t)
             /\ X[t].pendingParents \in Nat \ {0}
             /\ IF ~Satisfied(s, X[t].policy)
                THEN u = CanceledRow(X[t])
                ELSE IF X[t].pendingParents = 1
                THEN u = WokenRow(X[t])
                ELSE u = CountedRow(X[t], X[t].pendingParents - 1)
    BY <1>0, VisitedRows DEF X2
  <2> HIDE DEF u, s
  <2>2. QED
    BY <2>1, Zenon DEF u
<1>3. ASSUME NEW t \in DOMAIN X
      PROVE  \/ /\ X2[t] = X[t] /\ t \notin D
                /\ p \notin Parents(X[t]) \/ X[t].status # "blocked"
             \/ /\ p \in Waits(X, U, t) /\ X[t].status = "blocked"
                /\ X2[t] \in Mem!Record
                /\ X2[t].dependsOn = X[t].dependsOn /\ X2[t].policy = X[t].policy
                /\ \/ t \in D /\ X2[t].status = "canceled"
                   \/ /\ t \notin D /\ Satisfied(s, X[t].policy)
                      /\ X2[t].pendingParents = X[t].pendingParents - 1
                      /\ X2[t].status = IF X2[t].pendingParents = 0 THEN "pending" ELSE "blocked"
  <2>1. t \in D <=> p \in Parents(X[t]) /\ X[t].status = "blocked" /\ ~Satisfied(s, X[t].policy)
    BY DEF Dropped
  <2>2. CASE X2[t] = X[t] /\ (p \notin Parents(X[t]) \/ X[t].status # "blocked")
    BY <2>1, <2>2
  <2>3. CASE p \in Waits(X, U, t) /\ X[t].status = "blocked" /\ X[t].pendingParents \in Nat \ {0}
    <3>1. X[t] \in Mem!Record /\ p \in Parents(X[t]) /\ X[t].pendingParents - 1 \in Nat
      BY <2>3 DEF Waits
    <3> DEFINE n == X[t].pendingParents - 1
    <3>2. CASE X2[t] = CanceledRow(X[t]) /\ ~Satisfied(s, X[t].policy)
      <4>1. /\ X2[t] \in Mem!Record /\ X2[t].status = "canceled"
            /\ X2[t].dependsOn = X[t].dependsOn /\ X2[t].policy = X[t].policy
        BY <3>1, <3>2, VisitedFields
      <4>2. QED
        BY <2>1, <2>3, <3>1, <3>2, <4>1
    <3>3. CASE /\ X2[t] = WokenRow(X[t])
               /\ Satisfied(s, X[t].policy) /\ X[t].pendingParents = 1
      <4>1. /\ X2[t] \in Mem!Record /\ X2[t].status = "pending"
            /\ X2[t].dependsOn = X[t].dependsOn /\ X2[t].policy = X[t].policy
            /\ X2[t].pendingParents = 0
        BY <3>1, <3>3, VisitedFields
      <4>2. QED
        BY <2>1, <2>3, <3>1, <3>3, <4>1
    <3>4. CASE /\ X2[t] = CountedRow(X[t], n)
               /\ Satisfied(s, X[t].policy) /\ X[t].pendingParents # 1
      <4>1. n # 0 /\ n \in Nat /\ X2[t] = CountedRow(X[t], n)
        BY <2>3, <3>1, <3>4
      <4> HIDE DEF n
      <4>2. /\ X2[t] \in Mem!Record /\ X2[t].status = "blocked"
            /\ X2[t].dependsOn = X[t].dependsOn /\ X2[t].policy = X[t].policy
            /\ X2[t].pendingParents = n
        BY <2>3, <3>1, <4>1, VisitedFields
      <4>3. QED
        BY <2>1, <2>3, <3>4, <4>1, <4>2 DEF n
    <3>5. \/ X2[t] = X[t] /\ (p \notin Parents(X[t]) \/ X[t].status # "blocked")
          \/ X2[t] = CanceledRow(X[t]) /\ ~Satisfied(s, X[t].policy)
          \/ /\ X2[t] = WokenRow(X[t])
             /\ Satisfied(s, X[t].policy) /\ X[t].pendingParents = 1
          \/ /\ X2[t] = CountedRow(X[t], n)
             /\ Satisfied(s, X[t].policy) /\ X[t].pendingParents # 1
      BY <1>2
    <3>6. QED
      BY <2>2, <3>2, <3>3, <3>4, <3>5
  <2>4. QED
    BY <1>2, <2>2, <2>3
<1>4. D \subseteq DOMAIN X /\ D \cap U = {}
  BY DEF Dropped, IsFinal
<1>5. \A t \in DOMAIN X : /\ X2[t] \in Mem!Record
                          /\ Parents(X2[t]) = Parents(X[t]) /\ X2[t].policy = X[t].policy
                          /\ IsFinal(X[t].status) => X2[t] = X[t]
                          /\ Live(X[t].status) => X2[t] = X[t]
  BY <1>3 DEF Parents, Live, IsFinal
<1>6. D = {t \in DOMAIN X : IsFinal(X2[t].status) /\ ~IsFinal(X[t].status)}
  <2>1. ASSUME NEW t \in DOMAIN X
        PROVE  t \in D <=> IsFinal(X2[t].status) /\ ~IsFinal(X[t].status)
    BY <1>3 DEF IsFinal
  <2>2. QED
    BY <1>4, <2>1
<1>7. ASSUME NEW q \in DOMAIN X PROVE Over(X2, U2, q) <=> Over(X, U, q) \/ q = p
  <2>1. CASE q \in D
    BY <2>1, <1>0, <1>4, <1>6 DEF Over
  <2>2. CASE q \notin D /\ IsFinal(X[q].status)
    BY <2>2, <1>5 DEF Over
  <2>3. CASE q \notin D /\ ~IsFinal(X[q].status)
    BY <2>3, <1>0, <1>6 DEF Over
  <2>4. QED
    BY <2>1, <2>2, <2>3
<1>8. ASSUME NEW t \in DOMAIN X PROVE Waits(X2, U2, t) = Waits(X, U, t) \ {p}
  BY <1>5, <1>7 DEF Waits
<1>9. ASSUME NEW t \in DOMAIN X, NEW q \in Parents(X[t]) \ Waits(X, U, t)
      PROVE  X2[q].status = X[q].status
  BY <1>5, <1>9 DEF Waits, Over
<1>10. Right(X2, U2)
  <2>1. SUFFICES ASSUME NEW t \in DOMAIN X
                 PROVE  /\ X2[t].status = "blocked" =>
                             /\ X2[t].pendingParents = Cardinality(Waits(X2, U2, t))
                             /\ Waits(X2, U2, t) # {}
                             /\ X2[t].policy = "fail_fast" =>
                                  \A q \in Parents(X2[t]) \ Waits(X2, U2, t) :
                                     ~ParentBroke(X2[q].status)
                        /\ Live(X2[t].status) => Waits(X2, U2, t) = {}
    BY <1>1 DEF Right
  <2>2. Parents(X2[t]) = Parents(X[t]) /\ X2[t].policy = X[t].policy
        /\ Waits(X2, U2, t) = Waits(X, U, t) \ {p}
    BY <1>5, <1>8
  <2>3. CASE X2[t] = X[t] /\ (p \notin Parents(X[t]) \/ X[t].status # "blocked")
    <3>1. X[t].status = "blocked" => Waits(X, U, t) \ {p} = Waits(X, U, t)
      BY <2>3 DEF Waits
    <3>2. QED
      BY <1>9, <2>2, <2>3, <3>1 DEF Right
  <2>4. CASE /\ p \in Waits(X, U, t) /\ X[t].status = "blocked"
             /\ Satisfied(s, X[t].policy)
             /\ X2[t].pendingParents = X[t].pendingParents - 1
             /\ X2[t].status = IF X2[t].pendingParents = 0 THEN "pending" ELSE "blocked"
    <3>1. /\ X[t].pendingParents = Cardinality(Waits(X, U, t))
          /\ X[t].policy = "fail_fast" =>
               \A q \in Parents(X[t]) \ Waits(X, U, t) : ~ParentBroke(X[q].status)
      BY <2>4 DEF Right
    <3>2. IsFiniteSet(Waits(X, U, t))
      BY ParentsKnown, FS_Subset DEF Waits
    <3>3. /\ IsFiniteSet(Waits(X2, U2, t))
          /\ Cardinality(Waits(X2, U2, t)) = X2[t].pendingParents
      BY <2>2, <2>4, <3>1, <3>2, FS_RemoveElement, ZenonT(60)
    <3>4. X2[t].pendingParents = 0 <=> Waits(X2, U2, t) = {}
      BY <3>3, FS_EmptySet
    <3>5. ASSUME X[t].policy = "fail_fast" PROVE ~ParentBroke(X2[p].status)
      BY <1>0, <1>5, <2>4, <3>5 DEF Satisfied, ParentBroke
    <3>6. ASSUME X[t].policy = "fail_fast", NEW q \in Parents(X[t]) \ Waits(X2, U2, t)
          PROVE  ~ParentBroke(X2[q].status)
      <4>1. CASE q = p
        BY <3>5, <3>6, <4>1
      <4>2. CASE q # p
        <5>1. q \in Parents(X[t]) \ Waits(X, U, t)
          BY <2>2, <3>6, <4>2
        <5>2. QED
          BY <1>9, <3>1, <3>6, <5>1
      <4>3. QED
        BY <4>1, <4>2
    <3>7. QED
      BY <2>2, <2>4, <3>3, <3>4, <3>6 DEF Live
  <2>5. CASE X2[t].status = "canceled"
    BY <2>5 DEF Live
  <2>6. QED
    BY <1>3, <2>3, <2>4, <2>5
<1>11. ASSUME NEW E, Marked(X, E, U)
       PROVE  Marked(X2, [e \in DOMAIN E |-> E[e] \/ e[2] = p], U2)
  <2>1. E = [e \in Arcs(X) |-> Over(X, U, e[2])]
    BY <1>11 DEF Marked
  <2>2. Arcs(X2) = Arcs(X)
    BY <1>1, <1>5 DEF Arcs
  <2>3. ASSUME NEW e \in Arcs(X) PROVE (E[e] \/ e[2] = p) = Over(X2, U2, e[2])
    <3>1. e[2] \in DOMAIN X
      BY ArcsMeaning
    <3>2. Over(X2, U2, e[2]) <=> E[e] \/ e[2] = p
      BY <1>7, <2>1, <3>1
    <3>3. QED
      BY <3>2 DEF Over
  <2>4. QED
    BY <2>1, <2>2, <2>3 DEF Marked
<1>12. QED
  BY <1>1, <1>5, <1>6, <1>10, <1>11 DEF X2

\* The tasks that a visit ends are those it drops.
LEMMA VisitDrops ==
  ASSUME NEW X, \A t \in DOMAIN X : X[t] \in Mem!Record,
         \A t \in DOMAIN X : Parents(X[t]) \subseteq DOMAIN X,
         NEW U, \A q \in U : q \in DOMAIN X /\ IsFinal(X[q].status), NEW p \in U, Right(X, U),
         NEW X2, X2 = Visited(X, p, X[p].status)
  PROVE  Dropped(X, p, X[p].status) =
           {t \in DOMAIN X : IsFinal(X2[t].status) /\ ~IsFinal(X[t].status)}
<1>1. \A t \in DOMAIN X : t \in Dropped(X, p, X[p].status) <=>
                            IsFinal(X2[t].status) /\ ~IsFinal(X[t].status)
  BY VisitKeepsRight
<1>2. Dropped(X, p, X[p].status) \subseteq DOMAIN X
  BY DEF Dropped
<1>3. QED
  BY <1>1, <1>2

\* What DecideOnSubmit makes of the parents' rows.
LEMMA Placed ==
  ASSUME NEW X, NEW deps \in Seq(Tasks), NEW policy
  PROVE  LET dec  == DecideOnSubmit(Mem!ParentStates(X, deps), policy)
             open == {p \in Range(deps) : ~IsFinal(X[p].status)}
         IN  \/ /\ dec = [status |-> "canceled", pendingParents |-> 0]
                /\ policy = "fail_fast" /\ \E p \in Range(deps) : ParentBroke(X[p].status)
             \/ /\ dec = [status |-> "blocked", pendingParents |-> Cardinality(open)]
                /\ open # {}
                /\ policy = "fail_fast" => \A p \in Range(deps) : ~ParentBroke(X[p].status)
             \/ /\ dec = [status |-> "pending", pendingParents |-> 0]
                /\ open = {}
<1> DEFINE ps == Mem!ParentStates(X, deps)
           open == {p \in Range(deps) : ~IsFinal(X[p].status)}
           dec == DecideOnSubmit(ps, policy)
<1>1. /\ DOMAIN ps = DOMAIN deps
      /\ \A i \in DOMAIN deps : ps[i].id = deps[i] /\ ps[i].status = X[deps[i]].status
  BY DEF Mem!ParentStates
<1> HIDE DEF ps
<1>2. NotFinal(ps) = open
  <2>1. \A p : p \in NotFinal(ps) <=>
               \E i \in DOMAIN ps : ~IsFinal(ps[i].status) /\ p = ps[i].id
    BY DEF NotFinal
  <2>2. \A p : p \in open <=> \E i \in DOMAIN deps : p = deps[i] /\ ~IsFinal(X[p].status)
    BY DEF Range
  <2>3. QED
    BY <1>1, <2>1, <2>2
<1>3. (\E i \in DOMAIN ps : ParentBroke(ps[i].status))
        <=> \E p \in Range(deps) : ParentBroke(X[p].status)
  BY <1>1 DEF Range
<1> HIDE DEF open
<1>4. dec = IF policy = "fail_fast" /\ (\E p \in Range(deps) : ParentBroke(X[p].status))
            THEN [status |-> "canceled", pendingParents |-> 0]
            ELSE IF open # {} THEN [status |-> "blocked", pendingParents |-> Cardinality(open)]
            ELSE [status |-> "pending", pendingParents |-> 0]
  BY <1>2, <1>3 DEF DecideOnSubmit, PendingCount
<1> HIDE DEF dec
<1>5. QED
  BY <1>4 DEF dec, open, ps

\* The rows X with a new row r, and the edges with those of r.
Inserted(X, id, r) == [t \in DOMAIN X \cup {id} |-> IF t = id THEN r ELSE X[t]]

\* The edges with those of the new row r.
Linked(X, E, id, r) ==
  LET new == {<<id, p>> : p \in Parents(r)}
  IN  [e \in DOMAIN E \cup new |-> IF e \in new THEN IsFinal(X[e[2]].status) ELSE E[e]]

\* The parents of r that are not final.
Unfinished(X, r) == {p \in Parents(r) : ~IsFinal(X[p].status)}

\* A new row r is right about its parents.
RightNew(X, r) ==
  /\ Parents(r) \subseteq DOMAIN X
  /\ r.status = "blocked" =>
       /\ r.pendingParents = Cardinality(Unfinished(X, r)) /\ Unfinished(X, r) # {}
       /\ r.policy = "fail_fast" => \A p \in Parents(r) : ~ParentBroke(X[p].status)
  /\ Live(r.status) => Unfinished(X, r) = {}

\* A new row that is right about its parents joins the graph with its edges.
LEMMA InsertKeepsRight ==
  ASSUME NEW X, NEW E, Right(X, {}), Marked(X, E, {}), NEW id, id \notin DOMAIN X, NEW r,
         \A t \in DOMAIN X : Parents(X[t]) \subseteq DOMAIN X, RightNew(X, r)
  PROVE  Right(Inserted(X, id, r), {}) /\ Marked(Inserted(X, id, r), Linked(X, E, id, r), {})
<1> DEFINE X2 == Inserted(X, id, r)
           new == {<<id, p>> : p \in Parents(r)}
           E2 == Linked(X, E, id, r)
           open == Unfinished(X, r)
<1>0. /\ Parents(r) \subseteq DOMAIN X
      /\ r.status = "blocked" =>
           /\ r.pendingParents = Cardinality(open) /\ open # {}
           /\ r.policy = "fail_fast" => \A p \in Parents(r) : ~ParentBroke(X[p].status)
      /\ Live(r.status) => open = {}
  BY DEF RightNew
<1>1. /\ DOMAIN X2 = DOMAIN X \cup {id} /\ X2[id] = r
      /\ \A t \in DOMAIN X : X2[t] = X[t]
  BY DEF Inserted
<1> HIDE DEF X2, open
<1>2. \A p \in DOMAIN X : Over(X2, {}, p) <=> IsFinal(X[p].status)
  BY <1>1 DEF Over
<1>3. \A p \in DOMAIN X : Over(X, {}, p) <=> IsFinal(X[p].status)
  BY DEF Over
<1>4. \A t \in DOMAIN X : Waits(X2, {}, t) = Waits(X, {}, t)
  BY <1>1, <1>2, <1>3 DEF Waits
<1>5. Waits(X2, {}, id) = open
  BY <1>0, <1>1, <1>2 DEF Waits, open, Unfinished
<1>6. Right(X2, {})
  <2>1. SUFFICES ASSUME NEW t \in DOMAIN X \cup {id}
                 PROVE  /\ X2[t].status = "blocked" =>
                             /\ X2[t].pendingParents = Cardinality(Waits(X2, {}, t))
                             /\ Waits(X2, {}, t) # {}
                             /\ X2[t].policy = "fail_fast" =>
                                  \A p \in Parents(X2[t]) \ Waits(X2, {}, t) :
                                     ~ParentBroke(X2[p].status)
                        /\ Live(X2[t].status) => Waits(X2, {}, t) = {}
    BY <1>1 DEF Right
  <2>2. CASE t = id
    <3>1. X2[t] = r /\ Waits(X2, {}, t) = open
      BY <1>1, <1>5, <2>2
    <3>2. r.status = "blocked" /\ r.policy = "fail_fast" =>
            \A p \in Parents(r) : ~ParentBroke(X2[p].status)
      BY <1>0, <1>1
    <3>3. QED
      BY <1>0, <3>1, <3>2
  <2>3. CASE t \in DOMAIN X
    <3>1. X2[t] = X[t] /\ Waits(X2, {}, t) = Waits(X, {}, t)
      BY <1>1, <1>4, <2>3
    <3>2. \A p \in Parents(X[t]) : X2[p] = X[p]
      BY <1>1, <2>3
    <3>3. QED
      BY <2>3, <3>1, <3>2 DEF Right
  <2>4. QED
    BY <2>1, <2>2, <2>3
<1>7. E = [e \in Arcs(X) |-> Over(X, {}, e[2])]
  BY DEF Marked
<1>8. Arcs(X2) = Arcs(X) \cup new
  <2>1. \A e : e \in Arcs(X2) <=> \E t \in DOMAIN X \cup {id} : \E p \in Parents(X2[t]) : e = <<t, p>>
    BY <1>1, ArcsMeaning
  <2>2. \A e : e \in Arcs(X) <=> \E t \in DOMAIN X : \E p \in Parents(X[t]) : e = <<t, p>>
    BY ArcsMeaning
  <2>3. QED
    BY <1>1, <2>1, <2>2
<1>9. \A e \in Arcs(X) : e[1] \in DOMAIN X /\ e[2] \in DOMAIN X /\ e \notin new
  BY ArcsMeaning
<1>10. \A e \in new : e[2] \in DOMAIN X
  BY <1>0
<1>11. DOMAIN E = Arcs(X)
  BY <1>7
<1>15. E2 = [e \in DOMAIN E \cup new |-> IF e \in new THEN IsFinal(X[e[2]].status) ELSE E[e]]
  BY DEF Linked
<1> HIDE DEF new, E2
<1>12. ASSUME NEW e \in Arcs(X2) PROVE E2[e] = Over(X2, {}, e[2])
  <2>1. CASE e \in new
    <3>1. E2[e] = IsFinal(X[e[2]].status)
      BY <1>8, <1>11, <1>15, <2>1
    <3>2. Over(X2, {}, e[2]) <=> IsFinal(X[e[2]].status)
      BY <1>2, <1>10, <2>1
    <3>3. QED
      BY <3>1, <3>2 DEF Over, IsFinal
  <2>2. CASE e \in Arcs(X)
    <3>1. E2[e] = Over(X, {}, e[2])
      BY <1>7, <1>8, <1>9, <1>11, <1>15, <2>2
    <3>2. Over(X2, {}, e[2]) <=> Over(X, {}, e[2])
      BY <1>2, <1>3, <1>9, <2>2
    <3>3. QED
      BY <3>1, <3>2 DEF Over
  <2>3. QED
    BY <1>8, <2>1, <2>2
<1>13. E2 = [e \in Arcs(X2) |-> Over(X2, {}, e[2])]
  BY <1>8, <1>11, <1>12, <1>15
<1>14. QED
  BY <1>6, <1>13 DEF Marked, X2, E2

-------------------------------------------------------------------------------
(* What an open transaction has done so far.                               *)

\* The tasks whose children transaction x still has to settle.
Owing(x) == Range(x.work) \cup {t \in x.list : IsFinal(x.rows[t].status)}

\* A call may end task id as r.
Ends(id, r) ==
  \/ \E token \in 1..lastToken :
       /\ Mem!HoldsLease(id, token)
       /\ \/ r = Mem!Finished(rows[id], "completed")
          \/ r = Mem!Finished(rows[id], "canceled")
          \/ \E kind \in Mem!FailKinds, delay \in Delays :
               /\ Mem!Exhausted(Mem!Counted(rows[id], kind), kind)
               /\ r = Mem!Finished(Mem!Counted(rows[id], kind), "failed")
  \/ /\ rows[id].status \in {"blocked", "pending", "retrying"}
     /\ r = CanceledRow(rows[id])

\* The rows with every expired lease taken back, as the in-memory broker does it.
TakenBack == [t \in DOMAIN rows |-> IF Mem!IsExpired(rows[t]) THEN Mem!Reaped(rows[t]) ELSE rows[t]]

\* Transaction x is to write the rows of W as they are in B, and to settle their
\* descendants: the one task that a call ends, or all whose lease has expired.
Purpose(x, B, W) ==
  \/ /\ x.phase = "final"
     /\ \E id \in DOMAIN rows : \E r : Ends(id, r) /\ B = [rows EXCEPT ![id] = r] /\ W = {id}
  \/ x.phase # "final" /\ B = TakenBack /\ W = ExpiredIn(rows)

\* Those of W that are still to be written: the reaper takes the flagged ones first.
Unreaped(phase) ==
  IF phase = "reap0" THEN {t \in ExpiredIn(rows) : ~rows[t].cancelRequested} ELSE {}

\* No task of W completes; otherwise all do (GoodBase).
AllBroke(B, W) == \A w \in W : B[w].status # "completed"

\* What may become of the row r of a blocked task.  Under fail_fast it is counted down
\* by parents that complete and canceled by others, never both in one transaction.
Follows(r, u, broke) ==
  IF broke /\ r.policy = "fail_fast" THEN u = r \/ u = CanceledRow(r)
  ELSE (\E n \in Nat : u = CountedRow(r, n)) \/ u = WokenRow(r)

\* The tasks that the walk has canceled.
Fallen(X, W) == {t \in DOMAIN rows \ W : rows[t].status = "blocked" /\ X[t].status = "canceled"}

\* The tasks of W that B ends.
EndedIn(B, W) == {t \in W : IsFinal(B[t].status)}

\* Where the rows X stand on the way from the committed rows to those in which W is
\* written as in B (except for N) and everything below is settled: every row is either
\* written, or moved by the walk, or as it was; nothing was canceled without cause.
Walk(X, B, W, N) ==
  /\ \A t \in DOMAIN rows :
       /\ t \in N => X[t] = rows[t]
       /\ t \in W \ N => X[t] = B[t]
       /\ t \notin W /\ rows[t].status = "blocked" => Follows(rows[t], X[t], AllBroke(B, W))
       /\ t \notin W /\ rows[t].status # "blocked" => X[t] = rows[t]
  /\ \A S \in SUBSET DOMAIN rows :
       Mem!CascadeClosed(B, Mem!Broken(B, EndedIn(B, W)), S) => Fallen(X, W) \subseteq S

\* What W and B have in common, whatever the purpose.
GoodBase(B, W, N) ==
  /\ DOMAIN B = DOMAIN rows /\ W \subseteq DOMAIN rows /\ N \subseteq W
  /\ \A t \in DOMAIN rows \ W : B[t] = rows[t]
  /\ \A t \in W : /\ B[t] \in Mem!Record
                  /\ B[t].dependsOn = rows[t].dependsOn /\ B[t].policy = rows[t].policy
                  /\ B[t].key = rows[t].key /\ B[t].replayOf = rows[t].replayOf
                  /\ ~IsFinal(rows[t].status)
                  /\ IsFinal(B[t].status) \/ (rows[t].status = "running" /\ B[t].status = "pending")
  /\ \A t \in N : Live(rows[t].status)
  /\ AllBroke(B, W) \/ \A w \in W : B[w].status = "completed"

\* The rows, edges and lists of a transaction are of the committed tasks.
TxShape(x) ==
  x \in [phase : {"final", "reap0", "reap1", "repair"}, rows : [DOMAIN rows -> Mem!Record],
         edges : [DOMAIN edges -> BOOLEAN], list : SUBSET DOMAIN rows,
         work : Seq(DOMAIN rows), notifs : SUBSET ((DOMAIN rows) \X Statuses)]

\* No task is queued twice, and what is queued has ended in this transaction.
QueueOK(x) ==
  /\ \A i, j \in DOMAIN x.work : x.work[i] = x.work[j] => i = j
  /\ \A t \in Range(x.work) : IsFinal(x.rows[t].status)
  /\ Range(x.work) \cap x.list = {}
  /\ \A t \in Owing(x) : ~IsFinal(rows[t].status)

\* What the reaper's list holds in each pass.
PhaseOK(x) ==
  /\ x.phase = "final" => x.list = {}
  /\ x.phase \in {"reap0", "reap1"} => \A t \in x.list : x.rows[t].status # "blocked"
  /\ x.phase = "repair" => x.work = <<>> /\ \A t \in x.list : x.rows[t].status = "blocked"

\* The tasks whose status X changes.
Changed(X) == {t \in DOMAIN rows : rows[t].status # X[t].status}

\* The open transaction x: its rows and edges agree but for the children it still has to
\* settle, its snapshots are those of the rows it has changed, and it is on its way to
\* what its call is for.
TxGood(x) ==
  /\ TxShape(x) /\ QueueOK(x) /\ PhaseOK(x)
  /\ Right(x.rows, Owing(x))
  /\ Marked(x.rows, x.edges, Owing(x))
  /\ x.notifs = Notice(x.rows, Changed(x.rows))
  /\ \E B, W : Purpose(x, B, W) /\ Walk(x.rows, B, W, Unreaped(x.phase))

\* The tables X and E are in order, and ids are used in their order.
Tables(X, E) ==
  /\ Mem!IsStore(X)
  /\ Right(X, {})
  /\ Marked(X, E, {})
  /\ \A t \in DOMAIN X, u \in Tasks : u < t => u \in DOMAIN X

TablesOK == Tables(rows, edges)

\* The inductive invariant.
SqliteInv ==
  /\ TablesOK
  /\ now \in Nat /\ lastToken \in Nat
  /\ tx = NoTx \/ TxGood(tx)

\* The rows of the table, one by one.
LEMMA TableRows ==
  ASSUME TablesOK
  PROVE  /\ DOMAIN rows \subseteq Tasks /\ DOMAIN rows \subseteq Nat /\ IsFiniteSet(DOMAIN rows)
         /\ \A t \in DOMAIN rows : /\ rows[t] \in Mem!Record
                                   /\ Parents(rows[t]) \subseteq DOMAIN rows
                                   /\ rows[t].status \in Statuses /\ rows[t].policy \in Policies
<1>1. /\ DOMAIN rows \subseteq Tasks
      /\ \A t \in DOMAIN rows : rows[t] \in Mem!Record /\ Parents(rows[t]) \subseteq DOMAIN rows
  BY SameWords DEF TablesOK, Tables, Mem!IsStore
<1>2. \A t \in DOMAIN rows : rows[t].status \in Statuses /\ rows[t].policy \in Policies
  BY <1>1, SameWords DEF Mem!Record
<1>3. QED
  BY <1>1, <1>2, SqliteAssumption, FS_Subset

\* The queue of a walk after its first task was taken and those of A have joined.
LEMMA QueueMoves ==
  ASSUME NEW S, NEW w \in Seq(S), w # <<>>, NEW A \in Seq(S),
         \A i, j \in DOMAIN w : w[i] = w[j] => i = j,
         \A i, j \in DOMAIN A : A[i] = A[j] => i = j,
         Range(A) \cap Range(w) = {}
  PROVE  LET v == Tail(w) \o A
         IN  /\ v \in Seq(S) /\ Head(w) \in Range(w)
             /\ Range(v) = (Range(w) \ {Head(w)}) \cup Range(A)
             /\ \A i, j \in DOMAIN v : v[i] = v[j] => i = j
<1> DEFINE v == Tail(w) \o A
           m == Len(w) - 1
           n == Len(A)
<1>1. m \in Nat /\ n \in Nat /\ DOMAIN w = 1..(m + 1) /\ DOMAIN A = 1..n /\ Head(w) = w[1]
  OBVIOUS
<1>2. Tail(w) \in Seq(S) /\ Len(Tail(w)) = m /\ \A i \in 1..m : Tail(w)[i] = w[i + 1]
  OBVIOUS
<1>3. /\ v \in Seq(S) /\ Len(v) = m + n /\ DOMAIN v = 1..(m + n)
      /\ \A i \in 1..m : v[i] = w[i + 1]
      /\ \A i \in (m + 1)..(m + n) : v[i] = A[i - m]
  BY <1>1, <1>2
<1> HIDE DEF v, m, n
<1>4. \A i \in 1..(m + n) : (i \in 1..m /\ i + 1 \in DOMAIN w) \/ (i \in (m + 1)..(m + n) /\ i - m \in DOMAIN A)
  BY <1>1
<1>5. Range(v) \subseteq (Range(w) \ {Head(w)}) \cup Range(A)
  <2>1. SUFFICES ASSUME NEW i \in 1..(m + n)
                 PROVE  v[i] \in (Range(w) \ {Head(w)}) \cup Range(A)
    BY <1>3 DEF Range
  <2>2. CASE i \in 1..m /\ i + 1 \in DOMAIN w
    <3>1. v[i] = w[i + 1] /\ 1 \in DOMAIN w /\ i + 1 # 1
      BY <1>1, <1>3, <2>2
    <3>2. QED
      BY <1>1, <2>2, <3>1 DEF Range
  <2>3. CASE i \in (m + 1)..(m + n) /\ i - m \in DOMAIN A
    BY <1>3, <2>3 DEF Range
  <2>4. QED
    BY <1>4, <2>2, <2>3
<1>6. Range(w) \ {Head(w)} \subseteq Range(v)
  <2>1. SUFFICES ASSUME NEW i \in DOMAIN w, w[i] # Head(w) PROVE w[i] \in Range(v)
    BY DEF Range
  <2>2. i - 1 \in 1..m /\ i - 1 \in 1..(m + n) /\ (i - 1) + 1 = i
    BY <1>1, <2>1
  <2>3. v[i - 1] = w[i]
    BY <1>3, <2>2
  <2>4. QED
    BY <1>3, <2>2, <2>3 DEF Range
<1>7. Range(A) \subseteq Range(v)
  <2>1. SUFFICES ASSUME NEW i \in DOMAIN A PROVE A[i] \in Range(v)
    BY DEF Range
  <2>2. i + m \in (m + 1)..(m + n) /\ i + m \in 1..(m + n) /\ (i + m) - m = i
    BY <1>1
  <2>3. v[i + m] = A[i]
    BY <1>3, <2>2
  <2>4. QED
    BY <1>3, <2>2, <2>3 DEF Range
<1>8. ASSUME NEW i \in 1..(m + n), NEW j \in 1..(m + n), v[i] = v[j] PROVE i = j
  <2>1. CASE i \in 1..m /\ j \in 1..m
    <3>1. /\ v[i] = w[i + 1] /\ v[j] = w[j + 1]
          /\ i + 1 \in DOMAIN w /\ j + 1 \in DOMAIN w
      BY <1>1, <1>3, <2>1
    <3>2. i + 1 = j + 1
      BY <1>8, <3>1
    <3>3. QED
      BY <2>1, <3>2
  <2>2. CASE i \in (m + 1)..(m + n) /\ j \in (m + 1)..(m + n)
    <3>1. /\ v[i] = A[i - m] /\ v[j] = A[j - m]
          /\ i - m \in DOMAIN A /\ j - m \in DOMAIN A
      BY <1>1, <1>3, <2>2
    <3>2. i - m = j - m
      BY <1>8, <3>1
    <3>3. QED
      BY <1>1, <2>2, <3>2
  <2>3. ASSUME NEW k \in 1..m, NEW l \in (m + 1)..(m + n), v[k] = v[l] PROVE FALSE
    <3>1. k + 1 \in DOMAIN w /\ l - m \in DOMAIN A
      BY <1>1
    <3>2. v[k] = w[k + 1] /\ v[l] = A[l - m]
      BY <1>3
    <3>3. QED
      BY <2>3, <3>1, <3>2, ZenonT(60) DEF Range
  <2>4. QED
    BY <1>4, <1>8, <2>1, <2>2, <2>3
<1>9. Head(w) \in Range(w)
  BY <1>1 DEF Range
<1>10. QED
  BY <1>3, <1>5, <1>6, <1>7, <1>8, <1>9 DEF v

\* The notifications after some more tasks changed their status, each for the first time.
LEMMA NoticesGrow ==
  ASSUME NEW X, NEW X2,
         \A t \in DOMAIN rows : X2[t].status # X[t].status => X[t].status = rows[t].status
  PROVE  Notice(X, Changed(X)) \cup Notice(X2, {t \in DOMAIN rows : X2[t].status # X[t].status})
           = Notice(X2, Changed(X2))
<1> DEFINE M == {t \in DOMAIN rows : X2[t].status # X[t].status}
<1>1. Changed(X2) = Changed(X) \cup M
  BY DEF Changed
<1>2. \A t \in Changed(X) : X2[t].status = X[t].status
  BY DEF Changed
<1>3. Notice(X, Changed(X)) = Notice(X2, Changed(X))
  BY <1>2 DEF Notice
<1> HIDE DEF M
<1>4. QED
  BY <1>1, <1>3 DEF Notice, M

\* The walk changes the status, the counter and the lease of a row, nothing else; and a
\* row that it finds blocked was so from the start.
LEMMA WalkKeeps ==
  ASSUME TablesOK, NEW X, NEW B, NEW W, NEW N, GoodBase(B, W, N), Walk(X, B, W, N),
         NEW t \in DOMAIN rows
  PROVE  /\ X[t] \in Mem!Record
         /\ X[t].dependsOn = rows[t].dependsOn /\ Parents(X[t]) = Parents(rows[t])
         /\ X[t].policy = rows[t].policy
         /\ X[t].key = rows[t].key /\ X[t].replayOf = rows[t].replayOf
         /\ X[t].status = "blocked" => rows[t].status = "blocked" /\ t \notin W
         /\ X[t].status # rows[t].status => X[t].status = "pending" \/ IsFinal(X[t].status)
         /\ IsFinal(rows[t].status) => X[t] = rows[t]
<1>1. rows[t] \in Mem!Record
  BY TableRows
<1>2. CASE t \in N
  <2>1. X[t] = rows[t] /\ Live(rows[t].status)
    BY <1>2 DEF Walk, GoodBase
  <2>2. QED
    BY <1>1, <2>1 DEF Parents, Live
<1>3. CASE t \in W \ N
  <2>1. X[t] = B[t]
    BY <1>3 DEF Walk
  <2>2. QED
    BY <1>3, <2>1 DEF GoodBase, Parents, Live, IsFinal
<1>4. CASE t \notin W /\ rows[t].status # "blocked"
  BY <1>1, <1>4 DEF Walk, Parents
<1>5. CASE t \notin W /\ rows[t].status = "blocked"
  <2>1. Follows(rows[t], X[t], AllBroke(B, W))
    BY <1>5 DEF Walk
  <2>2. PICK n \in Nat : X[t] \in {rows[t], CanceledRow(rows[t]), WokenRow(rows[t]), CountedRow(rows[t], n)}
    BY <2>1 DEF Follows
  <2>3. /\ X[t] \in Mem!Record
        /\ X[t].dependsOn = rows[t].dependsOn /\ X[t].policy = rows[t].policy
        /\ X[t].key = rows[t].key /\ X[t].replayOf = rows[t].replayOf
        /\ X[t].status \in {"blocked", "pending", "canceled"}
    BY <1>1, <1>5, <2>2, VisitedFields
  <2>4. QED
    BY <1>5, <2>3 DEF Parents, IsFinal
<1>6. QED
  BY <1>2, <1>3, <1>4, <1>5 DEF GoodBase

\* The rows that have ended on the way are those written or canceled by the walk.
LEMMA WalkEnds ==
  ASSUME TablesOK, NEW X, NEW B, NEW W, NEW N, GoodBase(B, W, N), Walk(X, B, W, N),
         NEW p \in DOMAIN rows, IsFinal(X[p].status), ~IsFinal(rows[p].status)
  PROVE  /\ \/ p \in EndedIn(B, W) /\ X[p] = B[p]
            \/ p \in Fallen(X, W) /\ AllBroke(B, W) /\ X[p].status = "canceled"
         /\ IF AllBroke(B, W) THEN ParentBroke(X[p].status) ELSE X[p].status = "completed"
<1>1. p \notin N
  BY DEF Walk
<1>2. CASE p \in W
  <2>1. X[p] = B[p]
    BY <1>1, <1>2 DEF Walk
  <2>2. B[p].status = "completed" => ~AllBroke(B, W)
    BY <1>2 DEF AllBroke
  <2>3. ~AllBroke(B, W) => B[p].status = "completed"
    BY <1>2 DEF GoodBase
  <2>4. QED
    BY <1>2, <2>1, <2>2, <2>3 DEF EndedIn, ParentBroke, IsFinal
<1>3. CASE p \notin W
  <2>1. rows[p].status = "blocked"
    BY <1>3 DEF Walk
  <2>2. Follows(rows[p], X[p], AllBroke(B, W))
    BY <1>3, <2>1 DEF Walk
  <2>3. rows[p] \in Mem!Record
    BY TableRows
  <2>4. /\ \A n \in Nat : X[p] # CountedRow(rows[p], n)
        /\ X[p] # WokenRow(rows[p]) /\ X[p] # rows[p]
    BY <2>1, <2>3, VisitedFields DEF IsFinal
  <2>5. AllBroke(B, W) /\ X[p] = CanceledRow(rows[p])
    BY <2>2, <2>4 DEF Follows
  <2>6. X[p].status = "canceled"
    BY <2>3, <2>5, VisitedFields
  <2>7. QED
    BY <1>3, <2>1, <2>5, <2>6 DEF Fallen, ParentBroke
<1>4. QED
  BY <1>2, <1>3

\* Writes of the walk on top of each other.
LEMMA WritesCompose ==
  ASSUME NEW r \in Mem!Record, NEW n \in Nat, NEW k \in Nat
  PROVE  /\ CountedRow(CountedRow(r, n), k) = CountedRow(r, k)
         /\ WokenRow(CountedRow(r, n)) = WokenRow(r)
         /\ CountedRow(r, r.pendingParents) = r
  BY DEF CountedRow, WokenRow, Mem!Record

\* A visit is a step of the walk.
LEMMA VisitWalks ==
  ASSUME TablesOK, NEW X, DOMAIN X = DOMAIN rows, NEW B, NEW W, NEW N,
         GoodBase(B, W, N), Walk(X, B, W, N),
         NEW U, NEW p \in U, p \in DOMAIN rows, IsFinal(X[p].status), ~IsFinal(rows[p].status),
         Right(X, U)
  PROVE  Walk(Visited(X, p, X[p].status), B, W, N)
<1> DEFINE s == X[p].status
           X2 == Visited(X, p, s)
<1>1. \A t \in DOMAIN rows : X[t] \in Mem!Record
  BY WalkKeeps
<1>2. ASSUME NEW t \in DOMAIN rows, X[t].status # "blocked" \/ p \notin Parents(X[t])
      PROVE  X2[t] = X[t]
  BY <1>1, <1>2, VisitedRows
<1>3. ASSUME NEW t \in DOMAIN rows, X[t].status = "blocked", p \in Parents(X[t])
      PROVE  /\ X[t].pendingParents \in Nat \ {0}
             /\ IF ~Satisfied(s, X[t].policy) THEN X2[t] = CanceledRow(X[t])
                ELSE IF X[t].pendingParents = 1 THEN X2[t] = WokenRow(X[t])
                ELSE X2[t] = CountedRow(X[t], X[t].pendingParents - 1)
  BY <1>1, <1>3, VisitedRows
<1>4. IF AllBroke(B, W) THEN ParentBroke(s) ELSE s = "completed"
  BY WalkEnds
<1> HIDE DEF X2, s
<1>5. ASSUME NEW t \in DOMAIN rows, t \notin W, rows[t].status = "blocked",
             X[t].status = "blocked", p \in Parents(X[t])
      PROVE  Follows(rows[t], X2[t], AllBroke(B, W))
  <2>1. Follows(rows[t], X[t], AllBroke(B, W)) /\ rows[t] \in Mem!Record
    BY <1>5, TableRows DEF Walk
  <2>2. X[t].policy = rows[t].policy /\ rows[t].policy \in Policies
    BY TableRows, WalkKeeps
  <2>3. CASE AllBroke(B, W) /\ rows[t].policy = "fail_fast"
    <3>1. X[t] = rows[t]
      <4>1. CanceledRow(rows[t]).status = "canceled"
        BY <2>1, VisitedFields
      <4>2. QED
        BY <1>5, <2>1, <2>3, <4>1 DEF Follows
    <3>2. ~Satisfied(s, X[t].policy)
      BY <1>4, <2>2, <2>3 DEF Satisfied, ParentBroke
    <3>3. QED
      BY <1>3, <1>5, <2>3, <3>1, <3>2 DEF Follows
  <2>4. CASE ~(AllBroke(B, W) /\ rows[t].policy = "fail_fast")
    <3>1. PICK n \in Nat : X[t] = CountedRow(rows[t], n)
      <4>1. WokenRow(rows[t]).status = "pending"
        BY <2>1, VisitedFields
      <4>2. QED
        BY <1>5, <2>1, <2>4, <4>1 DEF Follows
    <3>2. Satisfied(s, X[t].policy)
      BY <1>4, <2>2, <2>4 DEF Satisfied, Policies
    <3>3. CASE X[t].pendingParents = 1
      <4>1. X2[t] = WokenRow(rows[t])
        BY <1>3, <1>5, <2>1, <3>1, <3>2, <3>3, WritesCompose
      <4>2. QED
        BY <2>4, <4>1 DEF Follows
    <3>4. CASE X[t].pendingParents # 1
      <4>1. PICK k \in Nat : k = X[t].pendingParents - 1
        BY <1>3, <1>5
      <4>2. X2[t] = CountedRow(X[t], k)
        BY <1>3, <1>5, <3>2, <3>4, <4>1
      <4>3. X2[t] = CountedRow(rows[t], k)
        BY <2>1, <3>1, <4>2, WritesCompose
      <4>4. QED
        BY <2>4, <4>3 DEF Follows
    <3>5. QED
      BY <3>3, <3>4
  <2>5. QED
    BY <2>3, <2>4
<1>6. ASSUME NEW t \in DOMAIN rows
      PROVE  /\ t \in N => X2[t] = rows[t]
             /\ t \in W \ N => X2[t] = B[t]
             /\ t \notin W /\ rows[t].status = "blocked" => Follows(rows[t], X2[t], AllBroke(B, W))
             /\ t \notin W /\ rows[t].status # "blocked" => X2[t] = rows[t]
  <2>1. /\ t \in N => X[t] = rows[t]
        /\ t \in W \ N => X[t] = B[t]
        /\ t \notin W /\ rows[t].status = "blocked" => Follows(rows[t], X[t], AllBroke(B, W))
        /\ t \notin W /\ rows[t].status # "blocked" => X[t] = rows[t]
    BY DEF Walk
  <2>2. X[t].status = "blocked" => rows[t].status = "blocked" /\ t \notin W
    BY WalkKeeps
  <2>3. CASE X[t].status # "blocked" \/ p \notin Parents(X[t])
    BY <1>2, <2>1, <2>3
  <2>4. CASE X[t].status = "blocked" /\ p \in Parents(X[t])
    BY <1>5, <2>2, <2>4 DEF GoodBase
  <2>5. QED
    BY <2>3, <2>4
<1>7. ASSUME NEW S \in SUBSET DOMAIN rows,
             Mem!CascadeClosed(B, Mem!Broken(B, EndedIn(B, W)), S)
      PROVE  Fallen(X2, W) \subseteq S
  <2>1. SUFFICES ASSUME NEW t \in Fallen(X2, W) PROVE t \in S
    OBVIOUS
  <2>2. t \in DOMAIN rows /\ t \notin W /\ rows[t].status = "blocked" /\ X2[t].status = "canceled"
    BY <2>1 DEF Fallen
  <2>3. Fallen(X, W) \subseteq S
    BY <1>7 DEF Walk
  <2>4. CASE X2[t] = X[t]
    BY <2>2, <2>3, <2>4 DEF Fallen
  <2>5. CASE X2[t] # X[t]
    <3>1. X[t].status = "blocked" /\ p \in Parents(X[t]) /\ X[t] \in Mem!Record
      BY <1>1, <1>2, <2>2, <2>5
    <3>2. ~Satisfied(s, X[t].policy)
      <4>1. PICK k \in Nat : k = X[t].pendingParents - 1
        BY <1>3, <2>2, <3>1
      <4>2. WokenRow(X[t]).status = "pending" /\ CountedRow(X[t], k).status = "blocked"
        BY <3>1, VisitedFields
      <4>3. QED
        BY <1>3, <2>2, <3>1, <4>1, <4>2
    <3>3. /\ B[t] = rows[t] /\ Parents(rows[t]) = Parents(X[t]) /\ X[t].policy = rows[t].policy
          /\ rows[t].policy \in Policies
      BY <2>2, TableRows, WalkKeeps DEF GoodBase
    <3>4. Mem!Cancelable(B[t])
      <4>1. rows[t].policy = "fail_fast" /\ rows[t].status = "blocked"
        BY <2>2, <3>2, <3>3 DEF Satisfied, Policies
      <4>2. Mem!CanTransition("blocked", "canceled")
        BY DEF Mem!CanTransition, Mem!legalTransitions, Mem!Statuses
      <4>3. QED
        BY <3>3, <4>1, <4>2 DEF Mem!Cancelable
    <3>5. p \in Mem!Broken(B, EndedIn(B, W)) \cup S
      <4>1. ParentBroke(s)
        BY <1>4, <3>2 DEF Satisfied
      <4>2. CASE p \in EndedIn(B, W) /\ X[p] = B[p]
        BY <4>1, <4>2, SameWords DEF Mem!Broken, s
      <4>3. CASE p \in Fallen(X, W)
        BY <2>3, <4>3
      <4>4. QED
        BY <4>2, <4>3, WalkEnds
    <3>6. Mem!Parents(B[t]) \cap (Mem!Broken(B, EndedIn(B, W)) \cup S) # {}
      BY <3>1, <3>3, <3>5, SameWords
    <3>7. t \in DOMAIN B
      BY <2>2 DEF GoodBase
    <3>8. QED
      BY <1>7, <3>4, <3>6, <3>7 DEF Mem!CascadeClosed
  <2>6. QED
    BY <2>4, <2>5
<1>8. QED
  BY <1>6, <1>7 DEF Walk, X2, s

\* r and u are rows of one task: they differ in what a call may write.
SameTask(r, u) ==
  /\ u \in Mem!Record
  /\ u.dependsOn = r.dependsOn /\ u.policy = r.policy
  /\ u.key = r.key /\ u.replayOf = r.replayOf
  /\ u.pendingParents = r.pendingParents

\* What ends, gives back or takes back a task.
LEMMA RowWrites ==
  ASSUME NEW r \in Mem!Record
  PROVE  /\ \A s \in Statuses : SameTask(r, Mem!Finished(r, s)) /\ Mem!Finished(r, s).status = s
         /\ SameTask(r, CanceledRow(r)) /\ CanceledRow(r).status = "canceled"
         /\ SameTask(r, Mem!Returned(r)) /\ Mem!Returned(r).status = "pending"
         /\ \A kind : SameTask(r, Mem!Counted(r, kind)) /\ Mem!Counted(r, kind).status = r.status
         /\ SameTask(r, Canceled(r)) /\ Canceled(r).status = "canceled"
         /\ SameTask(r, Lost(r)) /\ Lost(r).status \in {"failed", "pending"}
         /\ Mem!Reaped(r) = IF r.cancelRequested THEN Canceled(r) ELSE Lost(r)
<1>1. SameTask(r, Mem!ClearLease(r))
  BY DEF SameTask, Mem!ClearLease, Mem!Record, Mem!NoToken
<1>2. ASSUME NEW s \in Statuses
      PROVE  SameTask(r, Mem!Finished(r, s)) /\ Mem!Finished(r, s).status = s
  <2>1. s \in Mem!Statuses
    BY SameWords
  <2>2. QED
    BY <1>1, <2>1 DEF SameTask, Mem!Finished, Mem!Record
<1>3. "canceled" \in Mem!Statuses /\ "pending" \in Mem!Statuses
  BY DEF Mem!Statuses
<1>4. SameTask(r, CanceledRow(r)) /\ CanceledRow(r).status = "canceled"
  BY <1>1, <1>3 DEF SameTask, CanceledRow, Mem!Record
<1>5. SameTask(r, Mem!Returned(r)) /\ Mem!Returned(r).status = "pending"
  BY <1>1, <1>3 DEF SameTask, Mem!Returned, Mem!Record
<1>6. ASSUME NEW kind
      PROVE  SameTask(r, Mem!Counted(r, kind)) /\ Mem!Counted(r, kind).status = r.status
  <2>1. PICK a, b : a = (IF kind = "business" THEN r.attempts + 1 ELSE r.attempts)
                    /\ b = (IF kind = "throttled" THEN r.throttled + 1 ELSE r.throttled)
    OBVIOUS
  <2>2. a \in Nat /\ b \in Nat
    BY <2>1 DEF Mem!Record
  <2>3. Mem!Counted(r, kind) = [r EXCEPT !.attempts = a, !.throttled = b]
    BY <2>1 DEF Mem!Counted
  <2>4. QED
    BY <2>2, <2>3, ZenonT(60) DEF SameTask, Mem!Record
<1>7. SameTask(r, Canceled(r)) /\ Canceled(r).status = "canceled"
  BY <1>2 DEF Canceled, Statuses
<1>8. SameTask(r, Lost(r)) /\ Lost(r).status \in {"failed", "pending"}
  <2>1. PICK s : s = IF r.leaseLost + 1 >= LeaseLostMax THEN "failed" ELSE "pending"
    OBVIOUS
  <2>2. s \in {"failed", "pending"} /\ s \in Statuses
    BY <2>1 DEF Statuses
  <2>3. SameTask(r, Mem!Finished(r, s)) /\ Mem!Finished(r, s).status = s
    BY <1>2, <2>2
  <2>4. Lost(r) = [Mem!Finished(r, s) EXCEPT !.leaseLost = @ + 1]
    BY <2>1 DEF Lost
  <2>5. SameTask(r, Lost(r)) /\ Lost(r).status = s
    <3>1. PICK f : f = Mem!Finished(r, s)
      OBVIOUS
    <3>2. PICK k : k = f.leaseLost + 1
      OBVIOUS
    <3>3. SameTask(r, f) /\ f.status = s /\ Lost(r) = [f EXCEPT !.leaseLost = k]
      BY <2>3, <2>4, <3>1, <3>2
    <3>4. k \in Nat
      BY <3>2, <3>3, SMTT(60) DEF SameTask, Mem!Record
    <3>5. QED
      BY <3>3, <3>4, ZenonT(60) DEF SameTask, Mem!Record
  <2>6. QED
    BY <2>2, <2>5
<1>9. Mem!Reaped(r) = IF r.cancelRequested THEN Canceled(r) ELSE Lost(r)
  BY DEF Mem!Reaped, Canceled, Lost
<1>10. QED
  BY <1>2, <1>4, <1>5, <1>6, <1>7, <1>8, <1>9

\* A task that a call may end has not ended, and is the same task afterwards.
LEMMA EndsFields ==
  ASSUME TablesOK, NEW id \in DOMAIN rows, NEW r, Ends(id, r)
  PROVE  /\ SameTask(rows[id], r)
         /\ ~IsFinal(rows[id].status) /\ IsFinal(r.status)
<1>1. rows[id] \in Mem!Record
  BY TableRows
<1>2. CASE /\ rows[id].status \in {"blocked", "pending", "retrying"}
           /\ r = CanceledRow(rows[id])
  BY <1>1, <1>2, RowWrites DEF IsFinal
<1>3. ASSUME NEW token \in 1..lastToken, Mem!HoldsLease(id, token),
             \/ r = Mem!Finished(rows[id], "completed")
             \/ r = Mem!Finished(rows[id], "canceled")
             \/ \E kind \in Mem!FailKinds : r = Mem!Finished(Mem!Counted(rows[id], kind), "failed")
      PROVE  /\ SameTask(rows[id], r)
             /\ ~IsFinal(rows[id].status) /\ IsFinal(r.status)
  <2>1. ~IsFinal(rows[id].status)
    BY <1>3 DEF Mem!HoldsLease, IsFinal
  <2>2. "completed" \in Statuses /\ "canceled" \in Statuses /\ "failed" \in Statuses
    BY DEF Statuses
  <2>3. ASSUME NEW kind
        PROVE  /\ SameTask(rows[id], Mem!Finished(Mem!Counted(rows[id], kind), "failed"))
               /\ Mem!Finished(Mem!Counted(rows[id], kind), "failed").status = "failed"
    <3>1. SameTask(rows[id], Mem!Counted(rows[id], kind)) /\ Mem!Counted(rows[id], kind) \in Mem!Record
      BY <1>1, RowWrites DEF SameTask
    <3>2. /\ SameTask(Mem!Counted(rows[id], kind), Mem!Finished(Mem!Counted(rows[id], kind), "failed"))
          /\ Mem!Finished(Mem!Counted(rows[id], kind), "failed").status = "failed"
      BY <2>2, <3>1, RowWrites
    <3>3. QED
      BY <3>1, <3>2 DEF SameTask
  <2>4. SameTask(rows[id], r) /\ r.status \in {"completed", "canceled", "failed"}
    BY <1>1, <1>3, <2>2, <2>3, RowWrites
  <2>5. QED
    BY <2>1, <2>4 DEF IsFinal
<1>4. QED
  BY <1>2, <1>3 DEF Ends

\* The base of a transaction.
LEMMA PurposeBase ==
  ASSUME TablesOK, NEW x, NEW B, NEW W, Purpose(x, B, W)
  PROVE  GoodBase(B, W, Unreaped(x.phase))
<1> DEFINE N == Unreaped(x.phase)
<1>1. CASE x.phase = "final"
  <2>1. PICK id \in DOMAIN rows : \E r : Ends(id, r) /\ B = [rows EXCEPT ![id] = r] /\ W = {id}
    BY <1>1 DEF Purpose
  <2>2. PICK r : Ends(id, r) /\ B = [rows EXCEPT ![id] = r] /\ W = {id}
    BY <2>1
  <2>3. N = {}
    BY <1>1 DEF Unreaped
  <2>4. DOMAIN B = DOMAIN rows /\ B[id] = r /\ \A t \in DOMAIN rows \ {id} : B[t] = rows[t]
    BY <2>2
  <2>5. SameTask(rows[id], r) /\ ~IsFinal(rows[id].status) /\ IsFinal(r.status)
    BY <2>2, EndsFields
  <2>6. AllBroke(B, W) \/ \A w \in W : B[w].status = "completed"
    BY <2>2, <2>4 DEF AllBroke
  <2>7. \A t \in W : /\ B[t] \in Mem!Record
                     /\ B[t].dependsOn = rows[t].dependsOn /\ B[t].policy = rows[t].policy
                     /\ B[t].key = rows[t].key /\ B[t].replayOf = rows[t].replayOf
                     /\ ~IsFinal(rows[t].status)
                     /\ IsFinal(B[t].status) \/ (rows[t].status = "running" /\ B[t].status = "pending")
    BY <2>2, <2>4, <2>5 DEF SameTask
  <2>8. QED
    BY <2>2, <2>3, <2>4, <2>6, <2>7 DEF GoodBase
<1>2. CASE x.phase # "final"
  <2>1. B = TakenBack /\ W = ExpiredIn(rows)
    BY <1>2 DEF Purpose
  <2>2. /\ W \subseteq DOMAIN rows /\ N \subseteq W
        /\ \A t \in DOMAIN rows : t \in W <=> Mem!IsExpired(rows[t])
    BY <2>1 DEF ExpiredIn, Unreaped
  <2>3. \A t \in W : rows[t].status = "running"
    BY <2>2 DEF Mem!IsExpired
  <2>4. DOMAIN B = DOMAIN rows /\ \A t \in DOMAIN rows \ W : B[t] = rows[t]
    BY <2>1, <2>2 DEF TakenBack
  <2>5. ASSUME NEW t \in W
        PROVE  SameTask(rows[t], B[t]) /\ B[t].status \in {"canceled", "failed", "pending"}
    <3>1. B[t] = Mem!Reaped(rows[t]) /\ rows[t] \in Mem!Record
      BY <2>1, <2>2, TableRows DEF TakenBack
    <3>2. QED
      BY <3>1, RowWrites
  <2>6. AllBroke(B, W)
    BY <2>5 DEF AllBroke
  <2>7. \A t \in W : /\ B[t] \in Mem!Record
                     /\ B[t].dependsOn = rows[t].dependsOn /\ B[t].policy = rows[t].policy
                     /\ B[t].key = rows[t].key /\ B[t].replayOf = rows[t].replayOf
                     /\ ~IsFinal(rows[t].status)
                     /\ IsFinal(B[t].status) \/ (rows[t].status = "running" /\ B[t].status = "pending")
    BY <2>3, <2>5 DEF SameTask, IsFinal, Live
  <2>8. \A t \in N : Live(rows[t].status)
    BY <2>2, <2>3 DEF Live
  <2>9. QED
    BY <2>2, <2>4, <2>6, <2>7, <2>8 DEF GoodBase
<1>3. QED
  BY <1>1, <1>2

\* The parts of a transaction that is in order.
LEMMA TxParts ==
  ASSUME TablesOK, NEW x, TxGood(x)
  PROVE  /\ DOMAIN x.rows = DOMAIN rows /\ DOMAIN x.edges = Arcs(x.rows)
         /\ \A t \in DOMAIN rows : /\ x.rows[t] \in Mem!Record
                                   /\ Parents(x.rows[t]) = Parents(rows[t])
                                   /\ Parents(x.rows[t]) \subseteq DOMAIN rows
         /\ \A t \in Owing(x) : t \in DOMAIN rows /\ IsFinal(x.rows[t].status)
         /\ x.list \subseteq DOMAIN rows /\ x.work \in Seq(DOMAIN rows)
         /\ Range(x.work) \subseteq DOMAIN rows
<1>1. TxShape(x)
  BY DEF TxGood
<1>2. /\ DOMAIN x.rows = DOMAIN rows /\ x.list \subseteq DOMAIN rows
      /\ x.work \in Seq(DOMAIN rows) /\ \A t \in DOMAIN rows : x.rows[t] \in Mem!Record
  BY <1>1 DEF TxShape
<1>3. Range(x.work) \subseteq DOMAIN rows
  BY <1>2 DEF Range
<1>4. PICK B, W : Purpose(x, B, W) /\ Walk(x.rows, B, W, Unreaped(x.phase))
  BY DEF TxGood
<1>5. GoodBase(B, W, Unreaped(x.phase))
  BY <1>4, PurposeBase
<1>6. \A t \in DOMAIN rows : /\ Parents(x.rows[t]) = Parents(rows[t])
                             /\ Parents(x.rows[t]) \subseteq DOMAIN rows
  BY <1>4, <1>5, WalkKeeps, TableRows
<1>7. \A t \in Owing(x) : t \in DOMAIN rows /\ IsFinal(x.rows[t].status)
  BY <1>2, <1>3 DEF TxGood, QueueOK, Owing
<1>8. DOMAIN x.edges = Arcs(x.rows)
  BY SMTT(60) DEF TxGood, Marked
<1>9. QED
  BY <1>2, <1>3, <1>6, <1>7, <1>8

\* Transaction x after the children of the first task in its queue were settled.
AfterVisit(x) ==
  LET p     == Head(x.work)
      kids  == childrenOf(x.edges, p)
      new   == [c \in kids |-> Settled(x.rows[p].status, x.rows[c])]
      ended == {c \in kids : IsFinal(new[c].status) /\ ~IsFinal(x.rows[c].status)}
  IN  [x EXCEPT !.rows = [t \in DOMAIN @ |-> IF t \in kids THEN new[t] ELSE @[t]],
                !.edges = MarkDone(x, p),
                !.work = Tail(@) \o Ascending(ended),
                !.notifs = @ \cup UNION {Noted(x.rows[c], new[c], c) : c \in kids}]

\* What AfterVisit writes, in the words of the lemmas above.
LEMMA AfterVisitIs ==
  ASSUME TablesOK, NEW x, TxGood(x), x.work # <<>>
  PROVE  LET X  == x.rows
             p  == Head(x.work)
             X2 == Visited(X, p, X[p].status)
             D  == Dropped(X, p, X[p].status)
         IN  /\ p \in Range(x.work) /\ p \in Owing(x) /\ p \in DOMAIN rows
             /\ IsFinal(X[p].status) /\ ~IsFinal(rows[p].status)
             /\ AfterVisit(x) =
                  [x EXCEPT !.rows = X2,
                            !.edges = [e \in DOMAIN x.edges |-> x.edges[e] \/ e[2] = p],
                            !.work = Tail(x.work) \o Ascending(D),
                            !.notifs = x.notifs \cup
                              Notice(X2, {t \in DOMAIN rows : X2[t].status # X[t].status})]
<1> DEFINE X == x.rows
           p == Head(x.work)
           s == X[p].status
           X2 == Visited(X, p, s)
           D == Dropped(X, p, s)
           kids == childrenOf(x.edges, p)
           new == [c \in kids |-> Settled(s, X[c])]
           M == {t \in DOMAIN rows : X2[t].status # X[t].status}
<1>1. /\ DOMAIN X = DOMAIN rows /\ DOMAIN x.edges = Arcs(X)
      /\ \A t \in DOMAIN rows : X[t] \in Mem!Record /\ Parents(X[t]) \subseteq DOMAIN rows
      /\ \A t \in Owing(x) : t \in DOMAIN rows /\ IsFinal(X[t].status)
      /\ x.work \in Seq(DOMAIN rows)
  BY TxParts
<1>2. p \in Range(x.work)
  BY <1>1 DEF Range
<1>3. p \in Owing(x)
  BY <1>2 DEF Owing
<1>4. p \in DOMAIN rows /\ IsFinal(s) /\ ~IsFinal(rows[p].status)
  BY <1>1, <1>3 DEF TxGood, QueueOK
<1>5. kids = {t \in DOMAIN rows : p \in Parents(X[t])}
  <2>1. \A t : t \in kids <=> \E e \in Arcs(X) : e[2] = p /\ t = e[1]
    BY <1>1 DEF childrenOf
  <2>2. \A t : (\E e \in Arcs(X) : e[2] = p /\ t = e[1]) <=> t \in DOMAIN X /\ p \in Parents(X[t])
    <3>1. SUFFICES ASSUME NEW t
                   PROVE  (\E e \in Arcs(X) : e[2] = p /\ t = e[1]) <=> t \in DOMAIN X /\ p \in Parents(X[t])
      OBVIOUS
    <3>2. ASSUME NEW e \in Arcs(X), e[2] = p, t = e[1] PROVE t \in DOMAIN X /\ p \in Parents(X[t])
      BY <3>2, ArcsMeaning
    <3>3. ASSUME t \in DOMAIN X, p \in Parents(X[t])
          PROVE  <<t, p>> \in Arcs(X) /\ <<t, p>>[2] = p /\ <<t, p>>[1] = t
      BY <3>3, ArcsMeaning
    <3>4. QED
      BY <3>2, <3>3
  <2>3. QED
    BY <1>1, <2>1, <2>2
<1> HIDE DEF kids
<1>6. [t \in DOMAIN X |-> IF t \in kids THEN new[t] ELSE X[t]] = X2
  BY <1>1, <1>5 DEF Visited
<1>7. \A c \in kids : new[c] = X2[c] /\ c \in DOMAIN rows
  BY <1>1, <1>5 DEF Visited
<1>8. Right(X, Owing(x))
  BY DEF TxGood
<1>9. D = {t \in DOMAIN X : IsFinal(X2[t].status) /\ ~IsFinal(X[t].status)}
  <2>1. PICK U : U = Owing(x)
    OBVIOUS
  <2>2. /\ \A t \in DOMAIN X : X[t] \in Mem!Record /\ Parents(X[t]) \subseteq DOMAIN X
        /\ \A q \in U : q \in DOMAIN X /\ IsFinal(X[q].status)
        /\ p \in U /\ Right(X, U)
    BY <1>1, <1>3, <1>8, <2>1
  <2>3. \A Y, V : Y = X /\ V = X2 => Dropped(Y, p, Y[p].status) =
           {t \in DOMAIN Y : IsFinal(V[t].status) /\ ~IsFinal(Y[t].status)}
    <3>1. SUFFICES ASSUME NEW Y, NEW V, Y = X, V = X2
                   PROVE Dropped(Y, p, Y[p].status) =
                           {t \in DOMAIN Y : IsFinal(V[t].status) /\ ~IsFinal(Y[t].status)}
      OBVIOUS
    <3>2. /\ \A t \in DOMAIN Y : Y[t] \in Mem!Record
          /\ \A t \in DOMAIN Y : Parents(Y[t]) \subseteq DOMAIN Y
          /\ \A q \in U : q \in DOMAIN Y /\ IsFinal(Y[q].status)
          /\ p \in U /\ Right(Y, U) /\ V = Visited(Y, p, Y[p].status)
      BY <2>2, <3>1
    <3> HIDE DEF X, X2, p
    <3>3. QED
      BY <3>2, VisitDrops
  <2>4. QED
    BY <2>3, Zenon
<1>10. \A t \in DOMAIN rows : t \notin kids => X2[t] = X[t]
  BY <1>1, <1>5 DEF Visited
<1> HIDE DEF X2, D, new
<1>11. {c \in kids : IsFinal(new[c].status) /\ ~IsFinal(X[c].status)} = D
  BY <1>1, <1>7, <1>9, <1>10
<1>12. UNION {Noted(X[c], new[c], c) : c \in kids} = Notice(X2, M)
  <2>1. ASSUME NEW c \in kids
        PROVE  Noted(X[c], new[c], c) = IF c \in M THEN {<<c, X2[c].status>>} ELSE {}
    BY <1>7 DEF Noted
  <2>2. M \subseteq kids
    BY <1>10
  <2> HIDE DEF M
  <2>3. QED
    BY <2>1, <2>2 DEF Notice
<1>13. MarkDone(x, p) = [e \in DOMAIN x.edges |-> x.edges[e] \/ e[2] = p]
  BY DEF MarkDone
<1> HIDE DEF M
<1>14. AfterVisit(x) =
         [x EXCEPT !.rows = X2, !.edges = [e \in DOMAIN x.edges |-> x.edges[e] \/ e[2] = p],
                   !.work = Tail(x.work) \o Ascending(D), !.notifs = x.notifs \cup Notice(X2, M)]
  <2>1. AfterVisit(x) =
          [x EXCEPT !.rows = [t \in DOMAIN X |-> IF t \in kids THEN new[t] ELSE X[t]],
                    !.edges = MarkDone(x, p),
                    !.work = Tail(x.work) \o Ascending({c \in kids : IsFinal(new[c].status) /\ ~IsFinal(X[c].status)}),
                    !.notifs = x.notifs \cup UNION {Noted(X[c], new[c], c) : c \in kids}]
    BY DEF AfterVisit, kids, new
  <2>2. QED
    BY <2>1, <1>6, <1>11, <1>12, <1>13
<1>15. QED
  BY <1>2, <1>3, <1>4, <1>14 DEF X2, D, M
\* A step of the walk leaves the transaction in order.
LEMMA VisitGood ==
  ASSUME TablesOK, NEW x, TxGood(x), x.work # <<>>
  PROVE  TxGood(AfterVisit(x))
<1> DEFINE S == DOMAIN rows
           X == x.rows
           p == Head(x.work)
           X2 == Visited(X, p, X[p].status)
           D == Dropped(X, p, X[p].status)
           U == Owing(x)
           y == AfterVisit(x)
<1>1. /\ p \in Range(x.work) /\ p \in Owing(x) /\ p \in S
      /\ IsFinal(X[p].status) /\ ~IsFinal(rows[p].status)
      /\ y = [x EXCEPT !.rows = X2,
                       !.edges = [e \in DOMAIN x.edges |-> x.edges[e] \/ e[2] = p],
                       !.work = Tail(x.work) \o Ascending(D),
                       !.notifs = x.notifs \cup Notice(X2, {t \in S : X2[t].status # X[t].status})]
  BY AfterVisitIs, ZenonT(60)
<1>2. /\ DOMAIN X = S /\ DOMAIN x.edges = Arcs(X)
      /\ \A t \in S : /\ X[t] \in Mem!Record
                      /\ Parents(X[t]) \subseteq S
      /\ \A t \in Owing(x) : t \in S /\ IsFinal(X[t].status)
      /\ x.list \subseteq S /\ x.work \in Seq(S) /\ Range(x.work) \subseteq S
  BY TxParts
<1>3. /\ TxShape(x) /\ QueueOK(x) /\ PhaseOK(x) /\ Right(X, Owing(x))
      /\ Marked(X, x.edges, Owing(x)) /\ x.notifs = Notice(X, Changed(X))
  BY DEF TxGood
<1>4. PICK B, W : Purpose(x, B, W) /\ Walk(X, B, W, Unreaped(x.phase))
  BY DEF TxGood
<1>5. GoodBase(B, W, Unreaped(x.phase))
  BY <1>4, PurposeBase, SMTT(60)
<1>6. /\ y.phase = x.phase /\ y.list = x.list /\ y.rows = X2
      /\ y.edges = [e \in DOMAIN x.edges |-> x.edges[e] \/ e[2] = p]
      /\ y.work = Tail(x.work) \o Ascending(D)
      /\ y.notifs = x.notifs \cup Notice(X2, {t \in S : X2[t].status # X[t].status})
      /\ DOMAIN y = DOMAIN x
  BY <1>1, <1>3, ZenonT(60) DEF TxShape
<1>8. /\ \A t \in DOMAIN X : X[t] \in Mem!Record
      /\ \A t \in DOMAIN X : Parents(X[t]) \subseteq DOMAIN X
      /\ \A q \in U : q \in DOMAIN X /\ IsFinal(X[q].status)
      /\ p \in U /\ Right(X, U) /\ Marked(X, x.edges, U)
  BY <1>1, <1>2, <1>3
<1>9. /\ DOMAIN X2 = DOMAIN X
      /\ \A t \in DOMAIN X : /\ X2[t] \in Mem!Record
                             /\ IsFinal(X[t].status) => X2[t] = X[t]
                             /\ Live(X[t].status) => X2[t] = X[t]
      /\ \A t \in DOMAIN X : t \in D <=> IsFinal(X2[t].status) /\ ~IsFinal(X[t].status)
      /\ Right(X2, (U \ {p}) \cup D)
      /\ Marked(X2, [e \in DOMAIN x.edges |-> x.edges[e] \/ e[2] = p], (U \ {p}) \cup D)
  <2>1. /\ DOMAIN X2 = DOMAIN X
        /\ \A t \in DOMAIN X : /\ X2[t] \in Mem!Record
                               /\ Parents(X2[t]) = Parents(X[t])
                               /\ IsFinal(X[t].status) => X2[t] = X[t]
                               /\ Live(X[t].status) => X2[t] = X[t]
    BY <1>8, VisitKeepsRight, ZenonT(60)
  <2>4. \A t \in DOMAIN X : t \in D <=> IsFinal(X2[t].status) /\ ~IsFinal(X[t].status)
    BY <1>8, VisitKeepsRight
  <2>5. Right(X2, (U \ {p}) \cup D)
    BY <1>8, VisitKeepsRight
  <2>2. \A E : Marked(X, E, U) =>
                 Marked(X2, [e \in DOMAIN E |-> E[e] \/ e[2] = p], (U \ {p}) \cup D)
    BY <1>8, VisitKeepsRight
  <2> HIDE DEF X, p, X2, D, U
  <2>3. QED
    BY <1>8, <2>1, <2>2, <2>4, <2>5
<1>25. Walk(X2, B, W, Unreaped(x.phase))
  BY <1>1, <1>2, <1>3, <1>4, <1>5, VisitWalks
<1>0. /\ X = x.rows /\ p = Head(x.work) /\ X2 = Visited(X, p, X[p].status)
      /\ D = Dropped(X, p, X[p].status) /\ U = Owing(x) /\ y = AfterVisit(x)
  OBVIOUS
<1> HIDE DEF X, p, X2, D, U, y
<1>10. D \subseteq S /\ \A t \in D : X[t].status = "blocked" /\ rows[t].status = "blocked"
  <2>1. D \subseteq S /\ \A t \in D : X[t].status = "blocked"
    BY <1>0, <1>2 DEF Dropped
  <2>2. QED
    BY <1>4, <1>5, <2>1, WalkKeeps
<1>11. \A t \in S : X[t].status # "blocked" => X2[t] = X[t]
  <2>1. \A t \in S : X[t].status \in Statuses
    BY <1>2, SameWords DEF Mem!Record
  <2>2. \A t \in S : X[t].status # "blocked" => Live(X[t].status) \/ IsFinal(X[t].status)
    BY <2>1 DEF Statuses, Live, IsFinal
  <2>3. QED
    BY <1>2, <1>9, <2>2
<1>12. IsFiniteSet(D) /\ D \in SUBSET Nat
  BY <1>10, TableRows, FS_Subset
<1>13. PICK A : A = Ascending(D)
  OBVIOUS
<1>14. A \in Seq(S) /\ Range(A) = D /\ \A i, j \in DOMAIN A : A[i] = A[j] => i = j
  <2>1. A \in Seq(D)
    BY <1>12, <1>13, AscendingLists
  <2>2. QED
    BY <1>10, <1>12, <1>13, <2>1, AscendingLists, SeqMonotonic
<1>15. \A t \in Range(x.work) : IsFinal(X[t].status)
  BY <1>0, <1>3 DEF QueueOK
<1>16. Range(A) \cap Range(x.work) = {}
  BY <1>10, <1>14, <1>15 DEF IsFinal
<1>17. /\ y.work \in Seq(S)
       /\ Range(y.work) = (Range(x.work) \ {p}) \cup D
       /\ \A i, j \in DOMAIN y.work : y.work[i] = y.work[j] => i = j
  <2>1. \A i, j \in DOMAIN x.work : x.work[i] = x.work[j] => i = j
    BY <1>3 DEF QueueOK
  <2>2. PICK w : w = x.work
    OBVIOUS
  <2>3. /\ w \in Seq(S) /\ w # <<>> /\ Range(A) \cap Range(w) = {} /\ p = Head(w)
        /\ \A i, j \in DOMAIN w : w[i] = w[j] => i = j
        /\ y.work = Tail(w) \o A
    BY <1>0, <1>2, <1>6, <1>13, <1>16, <2>1, <2>2, ZenonT(60)
  <2>4. /\ Tail(w) \o A \in Seq(S)
        /\ Range(Tail(w) \o A) = (Range(w) \ {Head(w)}) \cup Range(A)
        /\ \A i, j \in DOMAIN (Tail(w) \o A) : (Tail(w) \o A)[i] = (Tail(w) \o A)[j] => i = j
    BY <1>14, <2>3, QueueMoves
  <2>5. QED
    BY <1>14, <2>2, <2>3, <2>4, SMTT(60)
<1>18. \A t \in x.list : X[t].status # "blocked" /\ X2[t] = X[t]
  <2>1. x.phase # "repair"
    BY <1>3 DEF PhaseOK
  <2>2. x.phase \in {"final", "reap0", "reap1", "repair"}
    BY <1>3 DEF TxShape
  <2>3. \A t \in x.list : X[t].status # "blocked"
    BY <1>0, <1>3, <2>1, <2>2 DEF PhaseOK
  <2>4. QED
    BY <1>2, <1>11, <2>3
<1>19. Owing(y) = (U \ {p}) \cup D
  <2>1. {t \in y.list : IsFinal(y.rows[t].status)} = {t \in x.list : IsFinal(X[t].status)}
    BY <1>6, <1>18
  <2>2. p \notin x.list
    BY <1>1, <1>3 DEF QueueOK
  <2>3. U = Range(x.work) \cup {t \in x.list : IsFinal(X[t].status)}
    BY <1>0, <1>0 DEF Owing
  <2>4. Owing(y) = Range(y.work) \cup {t \in y.list : IsFinal(y.rows[t].status)}
    BY DEF Owing
  <2>5. QED
    BY <1>17, <2>1, <2>2, <2>3, <2>4
<1>20. QueueOK(y)
  <2>1. \A t \in Range(y.work) : IsFinal(y.rows[t].status)
    BY <1>2, <1>6, <1>9, <1>10, <1>15, <1>17
  <2>2. Range(y.work) \cap y.list = {}
    <3>1. Range(x.work) \cap x.list = {} /\ D \cap x.list = {}
      BY <1>3, <1>10, <1>18 DEF QueueOK
    <3>2. QED
      BY <1>6, <1>17, <3>1
  <2>3. \A t \in Owing(y) : ~IsFinal(rows[t].status)
    <3>1. \A t \in U : ~IsFinal(rows[t].status)
      BY <1>3, <1>0 DEF QueueOK
    <3>2. QED
      BY <1>10, <1>19, <3>1 DEF IsFinal
  <2>4. QED
    BY <1>17, <2>1, <2>2, <2>3 DEF QueueOK
<1>21. PhaseOK(y)
  BY <1>3, <1>6, <1>18 DEF PhaseOK
<1>22. y.notifs = Notice(X2, Changed(X2))
  <2>1. \A t \in S : X2[t].status # X[t].status => X[t].status = rows[t].status
    <3>1. \A t \in S : X[t].status = "blocked" => rows[t].status = "blocked"
      BY <1>4, <1>5, WalkKeeps
    <3>2. QED
      BY <1>11, <3>1
  <2>2. Notice(X, Changed(X)) \cup Notice(X2, {t \in S : X2[t].status # X[t].status})
          = Notice(X2, Changed(X2))
    BY <2>1, NoticesGrow, ZenonT(60)
  <2>3. QED
    BY <1>3, <1>6, <2>2
<1>23. TxShape(y)
  <2>1. X2 \in [S -> Mem!Record]
    <3>1. X2 = [t \in S |-> X2[t]]
      BY <1>0, <1>2 DEF Visited
    <3>2. \A t \in S : X2[t] \in Mem!Record
      BY <1>2, <1>9
    <3>3. QED
      BY <3>1, <3>2
  <2>2. y.edges \in [DOMAIN edges -> BOOLEAN]
    <3>1. x.edges \in [DOMAIN edges -> BOOLEAN]
      BY <1>3 DEF TxShape
    <3>2. QED
      BY <1>6, <3>1
  <2>3. y.notifs \in SUBSET (S \X Statuses)
    <3>1. \A t \in S : X2[t].status \in Statuses
      BY <1>2, <1>9, SameWords DEF Mem!Record
    <3>2. QED
      BY <1>22, <3>1 DEF Notice, Changed
  <2>4. QED
    BY <1>1, <1>3, <1>6, <1>17, <2>1, <2>2, <2>3 DEF TxShape
<1>24. Purpose(y, B, W)
  BY <1>4, <1>6 DEF Purpose
<1>26. TxGood(y)
  BY <1>6, <1>9, <1>19, <1>20, <1>21, <1>22, <1>23, <1>24, <1>25 DEF TxGood
<1>27. QED
  BY <1>0, <1>26
\* Before the walk: the rows of W are written, except for N, and no other.
LEMMA WalkStarts ==
  ASSUME TablesOK, NEW B, NEW W, NEW N, GoodBase(B, W, N), NEW X,
         \A t \in DOMAIN rows : X[t] = IF t \in W \ N THEN B[t] ELSE rows[t]
  PROVE  Walk(X, B, W, N)
<1>1. ASSUME NEW t \in DOMAIN rows
      PROVE  Follows(rows[t], rows[t], AllBroke(B, W))
  <2>1. rows[t] \in Mem!Record
    BY TableRows
  <2>2. rows[t].pendingParents \in Nat /\ CountedRow(rows[t], rows[t].pendingParents) = rows[t]
    <3>1. rows[t].pendingParents \in Nat
      BY <2>1 DEF Mem!Record
    <3>2. QED
      BY <2>1, <3>1, WritesCompose
  <2>3. QED
    BY <2>2 DEF Follows
<1>2. Fallen(X, W) = {}
  BY DEF Fallen
<1>3. N \subseteq W
  BY DEF GoodBase
<1>4. QED
  BY <1>1, <1>2, <1>3 DEF Walk

\* The edges of the committed tables.
LEMMA TableEdges ==
  ASSUME TablesOK
  PROVE  edges \in [DOMAIN edges -> BOOLEAN] /\ DOMAIN edges = Arcs(rows)
<1>1. edges = [e \in Arcs(rows) |-> Over(rows, {}, e[2])]
  BY DEF TablesOK, Tables, Marked
<1>2. QED
  BY <1>1 DEF Over

\* What a transaction writes before its first walk: it ends the tasks of D.
FirstWrite(phase, X, D, list, work) ==
  [phase |-> phase, rows |-> X, edges |-> edges, list |-> list, work |-> work,
   notifs |-> Notice(X, D)]

\* A transaction that has made its first write, and settled nothing yet, is in order.
LEMMA FirstWriteGood ==
  ASSUME TablesOK, NEW phase \in {"final", "reap0"}, NEW X, NEW D, NEW list, NEW work,
         NEW B, NEW W, NEW x, x = FirstWrite(phase, X, D, list, work), Purpose(x, B, W),
         D = W \ Unreaped(phase), X = [t \in DOMAIN rows |-> IF t \in D THEN B[t] ELSE rows[t]],
         \A t \in D : IsFinal(B[t].status),
         \/ phase = "final" /\ list = {} /\ work \in Seq(D) /\ Len(work) = 1 /\ D = {work[1]}
         \/ phase = "reap0" /\ list = D /\ work = <<>>
  PROVE  TxGood(x)
<1> DEFINE S == DOMAIN rows
           N == Unreaped(phase)
<1>1. /\ x.phase = phase /\ x.rows = X /\ x.edges = edges /\ x.list = list /\ x.work = work
      /\ x.notifs = Notice(X, D)
  BY DEF FirstWrite
<1>2. GoodBase(B, W, N)
  BY <1>1, PurposeBase
<1>3. D \subseteq S /\ D \subseteq W
  BY <1>2 DEF GoodBase
<1>4. /\ \A t \in D : X[t] = B[t] /\ ~IsFinal(rows[t].status) /\ IsFinal(X[t].status)
      /\ \A t \in S \ D : X[t] = rows[t]
      /\ DOMAIN X = S
  BY <1>2, <1>3 DEF GoodBase
<1>5. \A t \in S : /\ X[t] \in Mem!Record
                   /\ X[t].dependsOn = rows[t].dependsOn /\ X[t].policy = rows[t].policy
  BY <1>2, <1>3, <1>4, TableRows DEF GoodBase
<1>6. Range(work) \subseteq D /\ work \in Seq(S) /\ Range(work) \cap list = {}
      /\ (\A i, j \in DOMAIN work : work[i] = work[j] => i = j)
      /\ Range(work) \cup list = D
  <2>1. CASE phase = "final" /\ list = {} /\ work \in Seq(D) /\ Len(work) = 1 /\ D = {work[1]}
    <3>1. DOMAIN work = {1}
      BY <2>1
    <3>2. Range(work) = D
      BY <2>1, <3>1 DEF Range
    <3>3. work \in Seq(S)
      BY <1>3, <2>1, SeqMonotonic
    <3>4. QED
      BY <2>1, <3>1, <3>2, <3>3
  <2>2. CASE phase = "reap0" /\ list = D /\ work = <<>>
    <3>1. DOMAIN work = {} /\ work \in Seq(S)
      BY <2>2
    <3>2. Range(work) = {}
      BY <3>1 DEF Range
    <3>3. QED
      BY <2>2, <3>1, <3>2
  <2>3. QED
    BY <2>1, <2>2
<1>7. Owing(x) = D
  BY <1>1, <1>4, <1>6 DEF Owing
<1>8. Right(rows, {}) /\ Marked(rows, edges, {})
  BY DEF TablesOK, Tables
<1> HIDE DEF N
<1>9. Right(X, {} \cup D) /\ \A E : Marked(rows, E, {}) => Marked(X, E, {} \cup D)
  <2>1. \A t \in S \ D : X[t].status = rows[t].status /\ X[t].pendingParents = rows[t].pendingParents
    BY <1>4
  <2>2. \A t \in S : Parents(rows[t]) \subseteq S
    BY TableRows
  <2>3. QED
    BY <1>3, <1>4, <1>5, <1>8, <2>1, <2>2, Rewritten, ZenonT(60)
<1>10. Right(x.rows, Owing(x)) /\ Marked(x.rows, x.edges, Owing(x))
  <2>1. {} \cup D = D
    OBVIOUS
  <2>2. Marked(X, edges, {} \cup D)
    BY <1>8, <1>9
  <2>3. Right(X, D) /\ Marked(X, edges, D)
    BY <1>9, <2>1, <2>2
  <2>4. QED
    BY <1>1, <1>7, <2>3
<1>11. Changed(X) = D
  BY <1>3, <1>4 DEF Changed
<1>12. x.notifs = Notice(x.rows, Changed(x.rows))
  BY <1>1, <1>11
<1>13. QueueOK(x)
  <2>1. \A t \in Range(x.work) : IsFinal(x.rows[t].status)
    BY <1>1, <1>4, <1>6
  <2>2. \A t \in Owing(x) : ~IsFinal(rows[t].status)
    BY <1>4, <1>7
  <2>3. Range(x.work) \cap x.list = {} /\ \A i, j \in DOMAIN x.work : x.work[i] = x.work[j] => i = j
    <3>1. PICK w, l : w = x.work /\ l = x.list
      OBVIOUS
    <3>2. w = work /\ l = list
      BY <1>1, <3>1
    <3>3. Range(w) \cap l = {} /\ \A i, j \in DOMAIN w : w[i] = w[j] => i = j
      BY <1>6, <3>2
    <3>4. QED
      BY <3>1, <3>3, ZenonT(60)
  <2>4. QED
    BY <2>1, <2>2, <2>3 DEF QueueOK
<1>14. PhaseOK(x)
  BY <1>1, <1>4, <1>6, ZenonT(60) DEF PhaseOK, IsFinal
<1>15. TxShape(x)
  <2>1. X \in [S -> Mem!Record]
    BY <1>5
  <2>2. \A t \in S : X[t].status \in Statuses
    BY <1>5, SameWords DEF Mem!Record
  <2>3. Notice(X, D) \in SUBSET (S \X Statuses)
    BY <1>3, <2>2 DEF Notice
  <2>4. list \in SUBSET S
    BY <1>3, <1>6
  <2>5. edges \in [DOMAIN edges -> BOOLEAN]
    BY TableEdges
  <2>6. QED
    BY <1>6, <2>1, <2>3, <2>4, <2>5 DEF TxShape, FirstWrite
<1>16. Walk(X, B, W, N)
  <2>1. \A t \in S : X[t] = IF t \in W \ N THEN B[t] ELSE rows[t]
    BY DEF N
  <2>2. QED
    BY <1>2, <2>1, WalkStarts
<1>17. QED
  BY <1>1, <1>10, <1>12, <1>13, <1>14, <1>15, <1>16, ZenonT(60) DEF TxGood, N

\* The transaction that ends a task, when it has written that task's row.
LEMMA BeginFinalGood ==
  ASSUME TablesOK, NEW id \in DOMAIN rows, NEW r, Ends(id, r), NEW x,
         x = [NoTx EXCEPT !.phase = "final", !.rows = [rows EXCEPT ![id] = r], !.edges = edges,
                          !.work = <<id>>, !.notifs = {<<id, r.status>>}]
  PROVE  TxGood(x)
<1> DEFINE B == [rows EXCEPT ![id] = r]
           X == [t \in DOMAIN rows |-> IF t \in {id} THEN B[t] ELSE rows[t]]
<1>1. B[id] = r /\ \A t \in DOMAIN rows \ {id} : B[t] = rows[t]
  OBVIOUS
<1>2. X = B
  BY <1>1
<1>3. Notice(X, {id}) = {<<id, r.status>>}
  BY <1>1, <1>2 DEF Notice
<1>4. x = FirstWrite("final", X, {id}, {}, <<id>>)
  BY <1>2, <1>3 DEF FirstWrite, NoTx
<1>5. Purpose(x, B, {id}) /\ x.phase = "final"
  BY <1>4 DEF Purpose, FirstWrite
<1>6. {id} = {id} \ Unreaped("final")
  BY DEF Unreaped
<1>7. IsFinal(B[id].status)
  BY <1>1, EndsFields
<1>8. <<id>> \in Seq({id}) /\ Len(<<id>>) = 1 /\ <<id>>[1] = id
  OBVIOUS
<1> HIDE DEF B, X
<1>9. X = [t \in DOMAIN rows |-> IF t \in {id} THEN B[t] ELSE rows[t]]
  BY DEF X
<1>10. PICK D, work, list : D = {id} /\ work = <<id>> /\ list = {}
  OBVIOUS
<1>11. /\ x = FirstWrite("final", X, D, list, work) /\ Purpose(x, B, D)
       /\ D = D \ Unreaped("final") /\ \A t \in D : IsFinal(B[t].status)
       /\ X = [t \in DOMAIN rows |-> IF t \in D THEN B[t] ELSE rows[t]]
       /\ list = {} /\ work \in Seq(D) /\ Len(work) = 1 /\ D = {work[1]}
  BY <1>4, <1>5, <1>6, <1>7, <1>8, <1>9, <1>10
<1>12. PICK phase \in {"final", "reap0"} : phase = "final"
  OBVIOUS
<1>13. QED
  BY <1>11, <1>12, FirstWriteGood

\* The reaper, when it has canceled the flagged tasks.
LEMMA BeginReapGood ==
  ASSUME TablesOK, NEW F, F = {t \in ExpiredIn(rows) : rows[t].cancelRequested}, NEW x,
         x = UpdateReturning([NoTx EXCEPT !.rows = rows, !.edges = edges],
                             "reap0", [t \in F |-> Canceled(rows[t])])
  PROVE  TxGood(x)
<1> DEFINE B == TakenBack
           W == ExpiredIn(rows)
           X == [t \in DOMAIN rows |-> IF t \in F THEN B[t] ELSE rows[t]]
           set == [t \in F |-> Canceled(rows[t])]
<1>1. F = W \ Unreaped("reap0") /\ F \subseteq DOMAIN rows
  BY DEF Unreaped, ExpiredIn
<1>2. \A t \in F : /\ set[t] = B[t] /\ IsFinal(B[t].status)
                   /\ B[t] = Canceled(rows[t])
  <2>1. SUFFICES ASSUME NEW t \in F PROVE B[t] = Canceled(rows[t]) /\ IsFinal(B[t].status)
    OBVIOUS
  <2>2. t \in DOMAIN rows /\ Mem!IsExpired(rows[t]) /\ rows[t].cancelRequested
    BY DEF ExpiredIn
  <2>3. B[t] = Mem!Reaped(rows[t]) /\ rows[t] \in Mem!Record
    BY <2>2, TableRows DEF TakenBack
  <2>4. B[t] = Canceled(rows[t]) /\ Canceled(rows[t]).status = "canceled"
    BY <2>2, <2>3, RowWrites
  <2>5. QED
    BY <2>4 DEF IsFinal
<1>3. DOMAIN set = F
  OBVIOUS
<1> HIDE DEF B, W, set
<1>4. X = [t \in DOMAIN rows |-> IF t \in DOMAIN set THEN set[t] ELSE rows[t]]
  BY <1>2, <1>3
<1>5. Notice(set, F) = Notice(X, F)
  BY <1>1, <1>2 DEF Notice
<1>6. x = FirstWrite("reap0", X, F, F, <<>>)
  <2>1. x = UpdateReturning([NoTx EXCEPT !.rows = rows, !.edges = edges], "reap0", set)
    BY DEF set
  <2>2. PICK y : y = [NoTx EXCEPT !.rows = rows, !.edges = edges]
    OBVIOUS
  <2>3. y = [phase |-> "none", rows |-> rows, edges |-> edges, list |-> {}, work |-> <<>>, notifs |-> {}]
    BY <2>2 DEF NoTx
  <2>4. x = [y EXCEPT !.phase = "reap0", !.rows = X, !.list = F, !.notifs = Notice(X, F)]
    <3>1. x = [y EXCEPT !.phase = "reap0",
                        !.rows = [t \in DOMAIN y.rows |-> IF t \in DOMAIN set THEN set[t] ELSE y.rows[t]],
                        !.list = DOMAIN set,
                        !.notifs = y.notifs \cup Notice(set, DOMAIN set)]
      BY <2>1, <2>2 DEF UpdateReturning
    <3>2. y.rows = rows /\ y.notifs = {}
      BY <2>3
    <3>3. y.notifs \cup Notice(set, DOMAIN set) = Notice(X, F)
      BY <1>3, <1>5, <3>2
    <3>4. [t \in DOMAIN y.rows |-> IF t \in DOMAIN set THEN set[t] ELSE y.rows[t]] = X
      BY <1>4, <3>2
    <3> HIDE DEF X
    <3>5. QED
      BY <1>3, <3>1, <3>3, <3>4
  <2> HIDE DEF X
  <2>5. QED
    BY <2>3, <2>4 DEF FirstWrite
<1>7. Purpose(x, B, W)
  BY <1>6 DEF Purpose, FirstWrite, B, W
<1> HIDE DEF X
<1>8. X = [t \in DOMAIN rows |-> IF t \in F THEN B[t] ELSE rows[t]]
  BY DEF X
<1>9. QED
  BY <1>1, <1>2, <1>6, <1>7, <1>8, FirstWriteGood

\* The reaper goes on to the next task that it wrote.
LEMMA ReapNextGood ==
  ASSUME TablesOK, NEW x, TxGood(x), x.phase \in {"reap0", "reap1"}, x.work = <<>>,
         NEW t \in x.list, NEW y,
         y = [x EXCEPT !.list = x.list \ {t},
                       !.work = IF IsFinal(x.rows[t].status) THEN <<t>> ELSE <<>>]
  PROVE  TxGood(y)
<1> DEFINE S == DOMAIN rows
<1>1. TxShape(x) /\ QueueOK(x) /\ PhaseOK(x)
  BY DEF TxGood
<1>2. /\ y.phase = x.phase /\ y.rows = x.rows /\ y.edges = x.edges /\ y.notifs = x.notifs
      /\ y.list = x.list \ {t}
      /\ y.work = IF IsFinal(x.rows[t].status) THEN <<t>> ELSE <<>>
  BY <1>1 DEF TxShape
<1>3. t \in S
  BY <1>1 DEF TxShape
<1>4. y.work \in Seq(S) /\ (\A i, j \in DOMAIN y.work : y.work[i] = y.work[j] => i = j)
      /\ Range(y.work) = IF IsFinal(x.rows[t].status) THEN {t} ELSE {}
  <2>1. CASE IsFinal(x.rows[t].status)
    <3>1. PICK w : w = <<t>>
      OBVIOUS
    <3>2. y.work = w /\ w \in Seq(S) /\ DOMAIN w = {1} /\ w[1] = t
      BY <1>2, <1>3, <2>1, <3>1
    <3>3. QED
      BY <2>1, <3>2 DEF Range
  <2>2. CASE ~IsFinal(x.rows[t].status)
    <3>1. PICK w : w = << >>
      OBVIOUS
    <3>2. y.work = w /\ w \in Seq(S) /\ DOMAIN w = {}
      BY <1>2, <2>2, <3>1
    <3>3. QED
      BY <2>2, <3>2 DEF Range
  <2>3. QED
    BY <2>1, <2>2
<1>5. Range(x.work) = {}
  BY DEF Range
<1>6. Owing(y) = Owing(x)
  <2>1. Owing(x) = {u \in x.list : IsFinal(x.rows[u].status)}
    BY <1>5 DEF Owing
  <2>2. Owing(y) = Range(y.work) \cup {u \in x.list \ {t} : IsFinal(x.rows[u].status)}
    BY <1>2 DEF Owing
  <2>3. QED
    BY <1>4, <2>1, <2>2
<1>7. QueueOK(y)
  <2>1. \A u \in Range(y.work) : IsFinal(y.rows[u].status)
    BY <1>2, <1>4
  <2>2. Range(y.work) \cap y.list = {}
    BY <1>2, <1>4
  <2>3. \A u \in Owing(y) : ~IsFinal(rows[u].status)
    BY <1>1, <1>6 DEF QueueOK
  <2>4. QED
    BY <1>4, <2>1, <2>2, <2>3 DEF QueueOK
<1>8. PhaseOK(y)
  BY <1>1, <1>2 DEF PhaseOK
<1>9. TxShape(y)
  BY <1>1, <1>2, <1>4 DEF TxShape
<1>10. \A B, W : Purpose(x, B, W) => Purpose(y, B, W)
  BY <1>2 DEF Purpose
<1>11. PICK B, W : Purpose(x, B, W) /\ Walk(x.rows, B, W, Unreaped(x.phase))
  BY DEF TxGood
<1>12. Purpose(y, B, W) /\ Walk(y.rows, B, W, Unreaped(y.phase))
  BY <1>2, <1>10, <1>11
<1>13. Right(y.rows, Owing(y)) /\ Marked(y.rows, y.edges, Owing(y))
       /\ y.notifs = Notice(y.rows, Changed(y.rows))
  BY <1>2, <1>6 DEF TxGood
<1>14. QED
  BY <1>7, <1>8, <1>9, <1>12, <1>13 DEF TxGood

\* The reaper has handled all that it wrote and lists the blocked tasks.
LEMMA ScanBlockedGood ==
  ASSUME TablesOK, NEW x, TxGood(x), x.phase = "reap1", x.work = <<>>, x.list = {}, NEW y,
         y = [x EXCEPT !.phase = "repair",
                       !.list = {t \in DOMAIN x.rows : x.rows[t].status = "blocked"}]
  PROVE  TxGood(y)
<1> DEFINE S == DOMAIN rows
           L == {t \in DOMAIN x.rows : x.rows[t].status = "blocked"}
<1>1. TxShape(x) /\ QueueOK(x) /\ PhaseOK(x)
  BY DEF TxGood
<1>2. /\ y.phase = "repair" /\ y.rows = x.rows /\ y.edges = x.edges /\ y.notifs = x.notifs
      /\ y.list = L /\ y.work = <<>> /\ L \subseteq S
  BY <1>1 DEF TxShape
<1>3. \A u \in L : x.rows[u].status = "blocked"
  OBVIOUS
<1> HIDE DEF L
<1>4. Range(x.work) = {} /\ Range(y.work) = {} /\ DOMAIN y.work = {}
  BY <1>2 DEF Range
<1>5. Owing(x) = {} /\ Owing(y) = {}
  BY <1>2, <1>3, <1>4 DEF Owing, IsFinal
<1>6. QueueOK(y) /\ PhaseOK(y)
  BY <1>2, <1>3, <1>4, <1>5 DEF QueueOK, PhaseOK
<1>7. TxShape(y)
  BY <1>1, <1>2 DEF TxShape, L
<1>8. PICK B, W : Purpose(x, B, W) /\ Walk(x.rows, B, W, Unreaped(x.phase))
  BY DEF TxGood
<1>9. Unreaped(x.phase) = {} /\ Unreaped(y.phase) = {}
  BY <1>2 DEF Unreaped
<1>10. Purpose(y, B, W) /\ Walk(y.rows, B, W, Unreaped(y.phase))
  BY <1>2, <1>8, <1>9 DEF Purpose
<1>11. Right(y.rows, Owing(y)) /\ Marked(y.rows, y.edges, Owing(y))
       /\ y.notifs = Notice(y.rows, Changed(y.rows))
  BY <1>2, <1>5 DEF TxGood
<1>12. QED
  BY <1>6, <1>7, <1>10, <1>11 DEF TxGood

\* In its second pass the reaper finds exactly the expired tasks that it has not
\* canceled, as they were, and writes them as the in-memory broker does.
LEMMA ReapLostFinds ==
  ASSUME TablesOK, NEW X, DOMAIN X = DOMAIN rows, NEW x, x.phase = "reap0",
         NEW B, NEW W, Purpose(x, B, W), Walk(X, B, W, Unreaped("reap0"))
  PROVE  /\ B = TakenBack /\ W = ExpiredIn(rows)
         /\ ExpiredIn(X) = Unreaped("reap0")
         /\ \A t \in ExpiredIn(X) : /\ t \in DOMAIN rows /\ t \in W /\ X[t] = rows[t]
                                    /\ B[t] = Lost(X[t]) /\ X[t].status = "running"
                                    /\ Lost(X[t]) \in Mem!Record
                                    /\ SameTask(X[t], Lost(X[t]))
                                    /\ Lost(X[t]).status \in {"failed", "pending"}
<1> DEFINE N == Unreaped("reap0")
<1>1. B = TakenBack /\ W = ExpiredIn(rows)
  BY DEF Purpose
<1>2. GoodBase(B, W, N)
  BY PurposeBase
<1>3. N = {t \in W : ~rows[t].cancelRequested} /\ W \subseteq DOMAIN rows
  BY <1>1 DEF Unreaped, ExpiredIn
<1>4. ASSUME NEW t \in N
      PROVE  /\ t \in ExpiredIn(X) /\ X[t] = rows[t] /\ X[t].status = "running"
             /\ B[t] = Lost(X[t]) /\ Lost(X[t]) \in Mem!Record
             /\ SameTask(X[t], Lost(X[t]))
             /\ Lost(X[t]).status \in {"failed", "pending"}
  <2>1. t \in DOMAIN rows /\ t \in W /\ ~rows[t].cancelRequested /\ X[t] = rows[t]
    BY <1>3 DEF Walk
  <2>2. Mem!IsExpired(rows[t]) /\ rows[t] \in Mem!Record
    BY <1>1, <2>1, TableRows DEF ExpiredIn
  <2>3. B[t] = Mem!Reaped(rows[t])
    BY <1>1, <2>1, <2>2 DEF TakenBack
  <2>4. B[t] = Lost(rows[t]) /\ SameTask(rows[t], Lost(rows[t])) /\ Lost(rows[t]).status \in {"failed", "pending"}
    BY <2>1, <2>2, <2>3, RowWrites
  <2>5. rows[t].status = "running"
    BY <2>2 DEF Mem!IsExpired
  <2>6. QED
    BY <2>1, <2>2, <2>4, <2>5 DEF ExpiredIn, SameTask
<1>5. ASSUME NEW t \in DOMAIN rows, Mem!IsExpired(X[t]) PROVE t \in N
  <2>1. X[t].status = "running"
    BY <1>5 DEF Mem!IsExpired
  <2>2. CASE t \in W \ N
    <3>1. X[t] = B[t] /\ t \in W
      BY <2>2 DEF Walk
    <3>2. B[t] = Mem!Reaped(rows[t]) /\ rows[t] \in Mem!Record
      BY <1>1, <3>1, TableRows DEF TakenBack, ExpiredIn
    <3>3. B[t].status \in {"canceled", "failed", "pending"}
      BY <3>2, RowWrites
    <3>4. QED
      BY <2>1, <3>1, <3>3
  <2>3. CASE t \notin W
    <3>1. X[t].status = rows[t].status
      BY <1>2, <2>1, WalkKeeps DEF IsFinal
    <3>2. X[t] = rows[t]
      BY <2>1, <2>3, <3>1 DEF Walk
    <3>3. t \in ExpiredIn(rows)
      BY <1>5, <3>2 DEF ExpiredIn
    <3>4. QED
      BY <1>1, <2>3, <3>3
  <2>4. QED
    BY <1>2, <2>2, <2>3 DEF GoodBase
<1>6. ExpiredIn(X) = N
  BY <1>3, <1>4, <1>5 DEF ExpiredIn
<1>7. QED
  BY <1>1, <1>3, <1>4, <1>6

\* The second pass leaves the transaction in order.
LEMMA ReapLostGood ==
  ASSUME TablesOK, NEW x, TxGood(x), x.phase = "reap0", x.work = <<>>, x.list = {}, NEW y,
         y = UpdateReturning(x, "reap1", [t \in ExpiredIn(x.rows) |-> Lost(x.rows[t])])
  PROVE  TxGood(y)
<1> DEFINE S == DOMAIN rows
           X == x.rows
           L == ExpiredIn(X)
           set == [t \in L |-> Lost(X[t])]
           X2 == [t \in DOMAIN X |-> IF t \in DOMAIN set THEN set[t] ELSE X[t]]
           D == {t \in L : IsFinal(X2[t].status)}
<1>1. TxShape(x) /\ QueueOK(x) /\ PhaseOK(x)
  BY DEF TxGood
<1>2. /\ DOMAIN X = S /\ DOMAIN x.edges = Arcs(X)
      /\ \A t \in S : /\ X[t] \in Mem!Record
                      /\ Parents(X[t]) = Parents(rows[t])
                      /\ Parents(X[t]) \subseteq S
  BY TxParts
<1>3. PICK B, W : Purpose(x, B, W) /\ Walk(X, B, W, Unreaped(x.phase))
  BY DEF TxGood
<1>4. PICK N : N = Unreaped("reap0")
  OBVIOUS
<1>5. GoodBase(B, W, N) /\ Walk(X, B, W, N)
  BY <1>3, <1>4, PurposeBase
<1>6. /\ B = TakenBack /\ W = ExpiredIn(rows) /\ L = N
      /\ \A t \in L : /\ t \in S /\ t \in W /\ X[t] = rows[t]
                      /\ B[t] = Lost(X[t]) /\ X[t].status = "running"
                      /\ Lost(X[t]) \in Mem!Record /\ SameTask(X[t], Lost(X[t]))
                      /\ Lost(X[t]).status \in {"failed", "pending"}
  <2>1. Walk(X, B, W, Unreaped("reap0")) /\ Purpose(x, B, W)
    BY <1>3, <1>4, <1>5
  <2>2. QED
    BY <1>2, <1>4, <2>1, ReapLostFinds
<1>7. y = [x EXCEPT !.phase = "reap1", !.rows = X2, !.list = L,
                    !.notifs = x.notifs \cup Notice(set, L)]
  BY DEF UpdateReturning
<1>8. /\ DOMAIN set = L /\ DOMAIN X2 = S /\ X2 = [t \in S |-> X2[t]]
      /\ \A t \in S : X2[t] = IF t \in L THEN Lost(X[t]) ELSE X[t]
      /\ \A t \in L : set[t] = X2[t]
  BY <1>2, <1>6
<1>9. D = {t \in L : IsFinal(X2[t].status)} /\ X = x.rows
  OBVIOUS
<1> HIDE DEF X, L, set, X2, D
<1>10. /\ y.phase = "reap1" /\ y.rows = X2 /\ y.edges = x.edges /\ y.work = <<>> /\ y.list = L
       /\ y.notifs = x.notifs \cup Notice(set, L)
  BY <1>1, <1>7 DEF TxShape
<1>11. Range(x.work) = {} /\ Range(y.work) = {} /\ DOMAIN y.work = {}
  BY <1>10 DEF Range
<1>12. Owing(x) = {} /\ Owing(y) = D
  BY <1>9, <1>10, <1>11 DEF Owing
<1>13. Right(X, {}) /\ Marked(X, x.edges, {}) /\ x.notifs = Notice(X, Changed(X))
  BY <1>9, <1>12 DEF TxGood
<1>14. \A t \in L : X2[t] = B[t] /\ X2[t].status \in {"failed", "pending"} /\ SameTask(X[t], X2[t])
  BY <1>6, <1>8
<1>15. \A t \in S : X2[t] \in Mem!Record /\ X2[t].dependsOn = X[t].dependsOn /\ X2[t].policy = X[t].policy
  BY <1>2, <1>8, <1>14 DEF SameTask
<1>16. Right(X2, {} \cup D) /\ \A E : Marked(X, E, {}) => Marked(X2, E, {} \cup D)
  <2>1. \A t \in DOMAIN X \ D :
            \/ X2[t].status = X[t].status /\ X2[t].pendingParents = X[t].pendingParents
            \/ Live(X[t].status) /\ Live(X2[t].status)
    BY <1>2, <1>6, <1>8, <1>9, <1>14 DEF Live, IsFinal
  <2>2. \A t \in D : ~IsFinal(X[t].status) /\ IsFinal(X2[t].status)
    BY <1>6, <1>9 DEF IsFinal
  <2>3. D \subseteq DOMAIN X
    BY <1>2, <1>6, <1>9
  <2>4. \A t \in DOMAIN X : /\ Parents(X[t]) \subseteq DOMAIN X
                            /\ X2[t].dependsOn = X[t].dependsOn /\ X2[t].policy = X[t].policy
    BY <1>2, <1>15
  <2>5. DOMAIN X2 = DOMAIN X
    BY <1>2, <1>8
  <2>6. QED
    BY <1>13, <2>1, <2>2, <2>3, <2>4, <2>5, Rewritten
<1>17. Right(y.rows, Owing(y)) /\ Marked(y.rows, y.edges, Owing(y))
  <2>1. Marked(X2, x.edges, {} \cup D)
    BY <1>13, <1>16
  <2>2. {} \cup D = D
    OBVIOUS
  <2>3. Right(X2, D) /\ Marked(X2, x.edges, D)
    BY <1>16, <2>1, <2>2
  <2>4. QED
    BY <1>10, <1>12, <2>3
<1>18. y.notifs = Notice(X2, Changed(X2))
  <2>1. L = {t \in S : X2[t].status # X[t].status}
    BY <1>6, <1>8, <1>14
  <2>2. \A t \in S : X2[t].status # X[t].status => X[t].status = rows[t].status
    BY <1>6, <1>8
  <2>3. Notice(X, Changed(X)) \cup Notice(X2, {t \in S : X2[t].status # X[t].status})
          = Notice(X2, Changed(X2))
    BY <2>2, NoticesGrow, ZenonT(60)
  <2>4. Notice(set, L) = Notice(X2, L)
    BY <1>8, ZenonT(60) DEF Notice
  <2>5. QED
    BY <1>10, <1>13, <2>1, <2>3, <2>4
<1>19. QueueOK(y)
  <2>1. \A t \in Owing(y) : ~IsFinal(rows[t].status)
    BY <1>6, <1>9, <1>12 DEF IsFinal
  <2>2. QED
    BY <1>11, <2>1 DEF QueueOK
<1>20. PhaseOK(y)
  <2>1. \A t \in y.list : y.rows[t].status # "blocked"
    BY <1>10, <1>14
  <2>2. QED
    BY <1>10, <2>1 DEF PhaseOK
<1>21. TxShape(y)
  <2>1. X2 \in [S -> Mem!Record]
    BY <1>8, <1>15
  <2>2. \A t \in S : X2[t].status \in Statuses
    BY <1>15, SameWords DEF Mem!Record
  <2>3. y.notifs \in SUBSET (S \X Statuses)
    BY <1>18, <2>2 DEF Notice, Changed
  <2>4. L \in SUBSET S
    BY <1>6
  <2>5. QED
    BY <1>1, <1>7, <1>10, <2>1, <2>3, <2>4 DEF TxShape
<1>22. Purpose(y, B, W)
  BY <1>3, <1>10 DEF Purpose
<1>23. Walk(X2, B, W, {})
  <2>1. ASSUME NEW t \in S
        PROVE  /\ t \in W => X2[t] = B[t]
               /\ t \notin W /\ rows[t].status = "blocked" => Follows(rows[t], X2[t], AllBroke(B, W))
               /\ t \notin W /\ rows[t].status # "blocked" => X2[t] = rows[t]
    <3>1. CASE t \in L
      BY <1>6, <1>14, <3>1
    <3>2. CASE t \notin L
      <4>1. X2[t] = X[t]
        BY <1>8, <3>2
      <4>2. QED
        BY <1>5, <1>6, <3>2, <4>1 DEF Walk
    <3>3. QED
      BY <3>1, <3>2
  <2>2. Fallen(X2, W) = Fallen(X, W)
    <3>1. \A t \in S \ W : X2[t] = X[t]
      BY <1>6, <1>8
    <3>2. QED
      BY <3>1 DEF Fallen
  <2>3. QED
    BY <1>5, <2>1, <2>2 DEF Walk
<1>24. Unreaped(y.phase) = {}
  BY <1>10 DEF Unreaped
<1>25. QED
  BY <1>10, <1>17, <1>18, <1>19, <1>20, <1>21, <1>22, <1>23, <1>24 DEF TxGood

\* A blocked task of a graph in order, decided again from its parents, is left alone.
LEMMA DecidedAgain ==
  ASSUME NEW X, NEW t \in DOMAIN X, X[t] \in Mem!Record, Right(X, {}), X[t].status = "blocked"
  PROVE  DecideOnSubmit(Mem!ParentStates(X, X[t].dependsOn), X[t].policy)
           = [status |-> "blocked", pendingParents |-> X[t].pendingParents]
<1> DEFINE deps == X[t].dependsOn
           open == {p \in Range(deps) : ~IsFinal(X[p].status)}
           dec == DecideOnSubmit(Mem!ParentStates(X, deps), X[t].policy)
<1>1. deps \in Seq(Tasks)
  BY DEF Mem!Record
<1>2. open = Waits(X, {}, t)
  BY DEF Waits, Over, Parents
<1>3. /\ X[t].pendingParents = Cardinality(open) /\ open # {}
      /\ X[t].policy = "fail_fast" => \A p \in Range(deps) : ~ParentBroke(X[p].status)
  <2>1. /\ X[t].pendingParents = Cardinality(Waits(X, {}, t)) /\ Waits(X, {}, t) # {}
        /\ X[t].policy = "fail_fast" =>
             \A p \in Parents(X[t]) \ Waits(X, {}, t) : ~ParentBroke(X[p].status)
    BY DEF Right
  <2>2. \A p \in open : ~ParentBroke(X[p].status)
    BY DEF ParentBroke, IsFinal
  <2>3. QED
    BY <1>2, <2>1, <2>2 DEF Parents
<1>4. \/ /\ dec = [status |-> "canceled", pendingParents |-> 0]
         /\ X[t].policy = "fail_fast" /\ \E p \in Range(deps) : ParentBroke(X[p].status)
      \/ /\ dec = [status |-> "blocked", pendingParents |-> Cardinality(open)]
         /\ open # {}
         /\ X[t].policy = "fail_fast" => \A p \in Range(deps) : ~ParentBroke(X[p].status)
      \/ /\ dec = [status |-> "pending", pendingParents |-> 0]
         /\ open = {}
  BY <1>1, Placed
<1> HIDE DEF deps, open, dec
<1>7. ~(X[t].policy = "fail_fast" /\ \E p \in Range(deps) : ParentBroke(X[p].status))
  BY <1>3
<1>8. dec = [status |-> "blocked", pendingParents |-> Cardinality(open)]
  BY <1>3, <1>4, <1>7, Zenon
<1>5. dec = [status |-> "blocked", pendingParents |-> X[t].pendingParents]
  BY <1>3, <1>8
<1>6. QED
  BY <1>5 DEF dec, deps

\* So the third pass changes no row.
LEMMA RepairedSame ==
  ASSUME TablesOK, TxGood(tx), tx.phase = "repair", NEW t \in tx.list
  PROVE  Repaired(tx.rows[t]) = tx.rows[t] /\ t \in DOMAIN tx.rows /\ tx.rows[t].status = "blocked"
<1>1. TxShape(tx) /\ PhaseOK(tx) /\ QueueOK(tx)
  BY DEF TxGood
<1>2. tx.work = <<>> /\ \A u \in tx.list : tx.rows[u].status = "blocked"
  BY <1>1 DEF PhaseOK
<1>3. t \in DOMAIN tx.rows /\ tx.rows[t] \in Mem!Record /\ tx.rows[t].status = "blocked"
  BY <1>1, <1>2 DEF TxShape
<1>4. Owing(tx) = {}
  BY <1>2 DEF Owing, Range, IsFinal
<1>5. Right(tx.rows, {})
  BY <1>4 DEF TxGood
<1>6. PICK X, r : X = tx.rows /\ r = tx.rows[t]
  OBVIOUS
<1>7. DecideOnSubmit(Mem!ParentStates(X, r.dependsOn), r.policy)
        = [status |-> "blocked", pendingParents |-> r.pendingParents]
  BY <1>3, <1>5, <1>6, DecidedAgain
<1>8. Repaired(r) = [r EXCEPT !.status = "blocked", !.pendingParents = r.pendingParents]
  BY <1>3, <1>6, <1>7 DEF Repaired
<1>9. Repaired(r) = r
  <2>1. r \in Mem!Record /\ r.status = "blocked"
    BY <1>3, <1>6
  <2>2. [r EXCEPT !.status = "blocked", !.pendingParents = r.pendingParents] = r
    BY <2>1 DEF Mem!Record
  <2>3. QED
    BY <1>8, <2>2
<1>10. QED
  BY <1>3, <1>6, <1>9

\* The third pass goes on to the next blocked task.
LEMMA RepairGood ==
  ASSUME TablesOK, NEW x, TxGood(x), x.phase = "repair", NEW t \in x.list, NEW y,
         y = [x EXCEPT !.list = x.list \ {t}]
  PROVE  TxGood(y)
<1>1. TxShape(x) /\ QueueOK(x) /\ PhaseOK(x)
  BY DEF TxGood
<1>2. /\ y.phase = x.phase /\ y.rows = x.rows /\ y.edges = x.edges /\ y.notifs = x.notifs
      /\ y.list = x.list \ {t} /\ y.work = x.work /\ y.work = <<>>
      /\ \A u \in x.list : x.rows[u].status = "blocked"
  BY <1>1 DEF TxShape, PhaseOK
<1>3. Range(y.work) = {} /\ DOMAIN y.work = {} /\ Range(x.work) = {}
  BY <1>2 DEF Range
<1>4. Owing(x) = {} /\ Owing(y) = {}
  BY <1>2, <1>3 DEF Owing, IsFinal
<1>5. QueueOK(y) /\ PhaseOK(y)
  BY <1>2, <1>3, <1>4 DEF QueueOK, PhaseOK
<1>6. TxShape(y)
  BY <1>1, <1>2 DEF TxShape
<1>7. PICK B, W : Purpose(x, B, W) /\ Walk(x.rows, B, W, Unreaped(x.phase))
  BY DEF TxGood
<1>8. Purpose(y, B, W) /\ Walk(y.rows, B, W, Unreaped(y.phase))
  BY <1>2, <1>7 DEF Purpose
<1>9. Right(y.rows, Owing(y)) /\ Marked(y.rows, y.edges, Owing(y))
       /\ y.notifs = Notice(y.rows, Changed(y.rows))
  BY <1>2, <1>4 DEF TxGood
<1>10. QED
  BY <1>5, <1>6, <1>8, <1>9 DEF TxGood

\* While the tables stand still, a transaction that is in order is so in the next state.
LEMMA TxStays ==
  ASSUME NEW x, TxGood(x), tx' = x, UNCHANGED <<rows, edges, now, lastToken>>
  PROVE  TxGood(tx)'
<1>1. TxShape(x) => TxShape(tx)'
  BY DEF TxShape
<1>2. QueueOK(x) => QueueOK(tx)'
  BY DEF QueueOK
<1>3. PhaseOK(x) => PhaseOK(tx)'
  BY DEF PhaseOK
<1>4. Right(x.rows, Owing(x)) => Right(tx.rows, Owing(tx))'
  BY DEF Owing
<1>5. Marked(x.rows, x.edges, Owing(x)) => Marked(tx.rows, tx.edges, Owing(tx))'
  BY DEF Owing
<1>6. x.notifs = Notice(x.rows, Changed(x.rows)) => (tx.notifs = Notice(tx.rows, Changed(tx.rows)))'
  BY DEF Changed
<1>7. \A B, W : Purpose(x, B, W) => Purpose(tx, B, W)'
  BY DEF Purpose, Ends, TakenBack, ExpiredIn, Mem!IsExpired, Mem!HoldsLease
<1>8. \A B, W : Walk(x.rows, B, W, Unreaped(x.phase)) => Walk(tx.rows, B, W, Unreaped(tx.phase))'
  BY DEF Walk, Unreaped, ExpiredIn, Mem!IsExpired, Fallen
<1>9. QED
  BY <1>1, <1>2, <1>3, <1>4, <1>5, <1>6, <1>7, <1>8 DEF TxGood

-------------------------------------------------------------------------------
(* What the transactions do to the tables.                                 *)

\* The rows of tables in order, whatever tables.
LEMMA RowsOf ==
  ASSUME NEW X, NEW E, Tables(X, E)
  PROVE  /\ DOMAIN X \subseteq Tasks /\ X \in [DOMAIN X -> Mem!Record]
         /\ \A t \in DOMAIN X : X[t] \in Mem!Record /\ Parents(X[t]) \subseteq DOMAIN X
  BY SameWords DEF Tables, Mem!IsStore

\* One row is rewritten, and a task in progress stays in progress.
LEMMA RewriteTables ==
  ASSUME NEW X, NEW E, Tables(X, E), NEW id \in DOMAIN X, NEW r, SameTask(X[id], r),
         r.status = X[id].status \/ (Live(X[id].status) /\ Live(r.status))
  PROVE  Tables([X EXCEPT ![id] = r], E)
<1> DEFINE X2 == [X EXCEPT ![id] = r]
<1>1. /\ DOMAIN X2 = DOMAIN X /\ X2[id] = r
      /\ \A t \in DOMAIN X \ {id} : X2[t] = X[t]
  OBVIOUS
<1>2. /\ DOMAIN X \subseteq Tasks /\ X \in [DOMAIN X -> Mem!Record]
      /\ \A t \in DOMAIN X : X[t] \in Mem!Record /\ Parents(X[t]) \subseteq DOMAIN X
  BY RowsOf
<1>3. \A t \in DOMAIN X : /\ X2[t] \in Mem!Record
                          /\ X2[t].dependsOn = X[t].dependsOn /\ X2[t].policy = X[t].policy
  BY <1>1, <1>2 DEF SameTask
<1>4. \A t \in DOMAIN X :
         \/ X2[t].status = X[t].status /\ X2[t].pendingParents = X[t].pendingParents
         \/ Live(X[t].status) /\ Live(X2[t].status)
  BY <1>1 DEF SameTask
<1>5. X2 \in [DOMAIN X -> Mem!Record]
  BY <1>2, <1>3
<1> HIDE DEF X2
<1>6. Right(X, {}) /\ Marked(X, E, {})
  BY DEF Tables
<1>7. Right(X2, {} \cup {}) /\ \A F : Marked(X, F, {}) => Marked(X2, F, {} \cup {})
  BY <1>1, <1>2, <1>3, <1>4, <1>6, Rewritten
<1>8. Right(X2, {}) /\ Marked(X2, E, {})
  <2>1. {} \cup {} = {}
    OBVIOUS
  <2>2. Marked(X2, E, {} \cup {})
    BY <1>6, <1>7
  <2>3. QED
    BY <1>7, <2>1, <2>2
<1>9. Mem!IsStore(X2)
  <2>1. \A t \in DOMAIN X2 : Parents(X2[t]) \subseteq DOMAIN X2
    BY <1>1, <1>2, <1>3 DEF Parents
  <2>2. QED
    BY <1>1, <1>2, <1>5, <2>1, SameWords DEF Mem!IsStore
<1>10. \A t \in DOMAIN X2, u \in Tasks : u < t => u \in DOMAIN X2
  BY <1>1 DEF Tables
<1>11. Tables(X2, E)
  BY <1>8, <1>9, <1>10 DEF Tables
<1>12. QED
  BY <1>11 DEF X2

\* A row is added under the next id, right about its parents.
LEMMA InsertTables ==
  ASSUME NEW X, NEW E, Tables(X, E), NEW id \in Tasks, id \notin DOMAIN X,
         \A t \in Tasks : t < id => t \in DOMAIN X,
         NEW r \in Mem!Record, RightNew(X, r)
  PROVE  Tables(Inserted(X, id, r), Linked(X, E, id, r))
<1> DEFINE X2 == Inserted(X, id, r)
           E2 == Linked(X, E, id, r)
<1>1. /\ DOMAIN X \subseteq Tasks /\ X \in [DOMAIN X -> Mem!Record]
      /\ \A t \in DOMAIN X : X[t] \in Mem!Record /\ Parents(X[t]) \subseteq DOMAIN X
  BY RowsOf
<1>2. Right(X, {}) /\ Marked(X, E, {})
  BY DEF Tables
<1>3. Right(X2, {}) /\ Marked(X2, E2, {})
  <2>1. \A t \in DOMAIN X : Parents(X[t]) \subseteq DOMAIN X
    BY <1>1
  <2>2. QED
    BY <1>2, <2>1, InsertKeepsRight
<1>4. /\ DOMAIN X2 = DOMAIN X \cup {id} /\ X2[id] = r
      /\ \A t \in DOMAIN X : X2[t] = X[t]
      /\ X2 = [t \in DOMAIN X2 |-> X2[t]] /\ Parents(r) \subseteq DOMAIN X
  BY DEF Inserted, RightNew
<1> HIDE DEF X2, E2
<1>5. Mem!IsStore(X2)
  <2>1. \A t \in DOMAIN X2 : Parents(X2[t]) \subseteq DOMAIN X2
    BY <1>1, <1>4
  <2>2. X2 \in [DOMAIN X2 -> Mem!Record]
    BY <1>1, <1>4
  <2>3. QED
    BY <1>1, <1>4, <2>1, <2>2, SameWords DEF Mem!IsStore
<1>6. \A t \in DOMAIN X2, u \in Tasks : u < t => u \in DOMAIN X2
  BY <1>4 DEF Tables
<1>7. QED
  BY <1>3, <1>5, <1>6 DEF Tables, X2, E2

\* Enqueue adds a row that is right about its parents.
LEMMA NewRowRight ==
  ASSUME NEW X, NEW E, Tables(X, E), NEW deps \in Seq(Tasks), Range(deps) \subseteq DOMAIN X,
         NEW policy \in Policies, NEW key \in Keys \cup {NoKey}, NEW queue \in Queues,
         NEW maxRetry \in Nat, NEW runAt \in Nat, NEW r,
         r = Mem!NewRecord(DecideOnSubmit(Mem!ParentStates(X, deps), policy),
                           deps, policy, key, NoID, queue, maxRetry, runAt)
  PROVE  /\ r \in Mem!Record /\ r.key = key /\ r.replayOf = NoID
         /\ RightNew(X, r)
<1> DEFINE dec == DecideOnSubmit(Mem!ParentStates(X, deps), policy)
           open == Unfinished(X, r)
           opn == {p \in Range(deps) : ~IsFinal(X[p].status)}
<1>1. \/ /\ dec = [status |-> "canceled", pendingParents |-> 0]
         /\ policy = "fail_fast" /\ \E p \in Range(deps) : ParentBroke(X[p].status)
      \/ /\ dec = [status |-> "blocked", pendingParents |-> Cardinality(opn)]
         /\ opn # {}
         /\ policy = "fail_fast" => \A p \in Range(deps) : ~ParentBroke(X[p].status)
      \/ /\ dec = [status |-> "pending", pendingParents |-> 0]
         /\ opn = {}
  BY Placed
<1> HIDE DEF dec
<1>2. r = Mem!NewRecord(dec, deps, policy, key, NoID, queue, maxRetry, runAt)
  BY DEF dec
<1>3. /\ r.dependsOn = deps /\ r.status = dec.status /\ r.pendingParents = dec.pendingParents
      /\ r.policy = policy /\ r.key = key /\ r.replayOf = NoID
  BY <1>2 DEF Mem!NewRecord
<1>4. Parents(r) = Range(deps) /\ open = opn
  BY <1>3 DEF Parents, Unfinished
<1>5. Cardinality(opn) \in Nat
  <2>1. IsFiniteSet(opn)
    <3>1. opn \subseteq Tasks
      BY DEF Range
    <3>2. QED
      BY <3>1, FS_Subset, SqliteAssumption
  <2>2. QED
    BY <2>1, FS_CardinalityType
<1> HIDE DEF opn, open
<1>6. dec.status \in Mem!Statuses /\ dec.pendingParents \in Nat
  BY <1>1, <1>5 DEF Mem!Statuses
<1>7. r \in Mem!Record
  <2>1. policy \in Mem!Policies
    BY SameWords
  <2>2. QED
    BY <1>2, <1>6, <2>1 DEF Mem!NewRecord, Mem!Record, NoID, Mem!NoID, Mem!NoToken
<1>8. r.status = "blocked" =>
        /\ r.pendingParents = Cardinality(open) /\ open # {}
        /\ r.policy = "fail_fast" => \A p \in Parents(r) : ~ParentBroke(X[p].status)
  <2>1. ASSUME r.status = "blocked"
        PROVE  /\ dec.pendingParents = Cardinality(opn) /\ opn # {}
               /\ policy = "fail_fast" => \A p \in Range(deps) : ~ParentBroke(X[p].status)
    <3>1. CASE dec = [status |-> "canceled", pendingParents |-> 0]
      BY <1>3, <2>1, <3>1
    <3>2. CASE dec = [status |-> "pending", pendingParents |-> 0]
      BY <1>3, <2>1, <3>2
    <3>3. CASE /\ dec = [status |-> "blocked", pendingParents |-> Cardinality(opn)]
               /\ opn # {}
               /\ policy = "fail_fast" => \A p \in Range(deps) : ~ParentBroke(X[p].status)
      <4>1. dec.pendingParents = Cardinality(opn)
        BY <3>3
      <4>2. QED
        BY <3>3, <4>1
    <3>4. QED
      BY <1>1, <3>1, <3>2, <3>3
  <2>2. QED
    BY <1>3, <1>4, <2>1
<1>9. Live(r.status) => open = {}
  BY <1>1, <1>3, <1>4 DEF Live
<1>10. QED
  BY <1>3, <1>4, <1>7, <1>8, <1>9 DEF RightNew, open

\* What a finished transaction leaves behind are tables in order.
LEMMA CommitTables ==
  ASSUME TablesOK, TxGood(tx), TxDone
  PROVE  Tables(tx.rows, tx.edges) /\ Owing(tx) = {} /\ DOMAIN tx.rows = DOMAIN rows
<1>1. /\ DOMAIN tx.rows = DOMAIN rows
      /\ \A t \in DOMAIN rows : /\ tx.rows[t] \in Mem!Record
                                /\ Parents(tx.rows[t]) \subseteq DOMAIN rows
  BY TxParts
<1>2. Owing(tx) = {}
  BY DEF TxDone, Settling, Owing, Range
<1>3. Right(tx.rows, {}) /\ Marked(tx.rows, tx.edges, {})
  BY <1>2 DEF TxGood
<1>4. Mem!IsStore(tx.rows)
  <2>1. tx.rows \in [DOMAIN rows -> Mem!Record]
    BY DEF TxGood, TxShape
  <2>2. DOMAIN rows \subseteq Tasks
    BY TableRows
  <2>3. QED
    BY <1>1, <2>1, <2>2, SameWords DEF Mem!IsStore
<1>5. \A t \in DOMAIN tx.rows, u \in Tasks : u < t => u \in DOMAIN tx.rows
  BY <1>1 DEF TablesOK, Tables
<1>6. QED
  BY <1>1, <1>2, <1>3, <1>4, <1>5 DEF Tables

\* Every queue has the length of its leases.
LEMMA LeaseLengths ==
  ASSUME NEW u \in Mem!Record
  PROVE  LeaseTTL[u.queue] \in Nat
<1>1. u.queue \in Queues
  BY DEF Mem!Record
<1>2. LeaseTTL \in [Queues -> Nat \ {0}]
  BY SqliteAssumption
<1>3. QED
  BY <1>1, <1>2

\* The rows that Claim, Heartbeat and CancelRunning write.
LEMMA ClaimedRow ==
  ASSUME TablesOK, NEW id \in DOMAIN rows, NEW at \in Nat, NEW n \in Nat, NEW r,
         r = [rows[id] EXCEPT !.status = "running", !.leaseToken = n,
                              !.leaseUntil = at + LeaseTTL[rows[id].queue]]
  PROVE  SameTask(rows[id], r) /\ r.status = "running"
<1>1. PICK u, l : u = rows[id] /\ l = at + LeaseTTL[u.queue]
  OBVIOUS
<1>2. u \in Mem!Record
  BY <1>1, TableRows
<1>3. l \in Nat /\ "running" \in Mem!Statuses
  BY <1>1, <1>2, LeaseLengths DEF Mem!Statuses
<1>4. r = [u EXCEPT !.status = "running", !.leaseToken = n, !.leaseUntil = l]
  BY <1>1
<1>5. SameTask(u, r) /\ r.status = "running"
  BY <1>2, <1>3, <1>4, ZenonT(60) DEF SameTask, Mem!Record
<1>6. QED
  BY <1>1, <1>5

\* Heartbeat moves the lease and nothing else that matters here.
LEMMA RenewedRow ==
  ASSUME TablesOK, NEW id \in DOMAIN rows, NEW at \in Nat, NEW r,
         r = [rows[id] EXCEPT !.leaseUntil = at + LeaseTTL[rows[id].queue]]
  PROVE  SameTask(rows[id], r) /\ r.status = rows[id].status
<1>1. PICK u, l : u = rows[id] /\ l = at + LeaseTTL[u.queue]
  OBVIOUS
<1>2. u \in Mem!Record
  BY <1>1, TableRows
<1>3. l \in Nat
  BY <1>1, <1>2, LeaseLengths
<1>4. r = [u EXCEPT !.leaseUntil = l]
  BY <1>1
<1>5. SameTask(u, r) /\ r.status = u.status
  BY <1>2, <1>3, <1>4, ZenonT(60) DEF SameTask, Mem!Record
<1>6. QED
  BY <1>1, <1>5

\* Cancel of a running task only raises its flag.
LEMMA FlaggedRow ==
  ASSUME TablesOK, NEW id \in DOMAIN rows, NEW r, r = [rows[id] EXCEPT !.cancelRequested = TRUE]
  PROVE  SameTask(rows[id], r) /\ r.status = rows[id].status
<1>1. rows[id] \in Mem!Record
  BY TableRows
<1>2. QED
  BY <1>1 DEF SameTask, Mem!Record

\* The row that FailRetry writes.
RetriedRow(r, kind, n) ==
  [Mem!ClearLease(Mem!Counted(r, kind)) EXCEPT !.status = "retrying", !.runAt = n]

\* A failure that is retried leaves the task what it was.
LEMMA RetriedRowIs ==
  ASSUME NEW u \in Mem!Record, NEW kind, NEW n \in Nat
  PROVE  SameTask(u, RetriedRow(u, kind, n)) /\ RetriedRow(u, kind, n).status = "retrying"
<1>1. PICK d, c : d = Mem!Counted(u, kind) /\ c = Mem!ClearLease(d)
  OBVIOUS
<1>3. SameTask(u, d)
  BY <1>1, RowWrites
<1>4. c = [d EXCEPT !.leaseToken = 0, !.leaseUntil = 0]
  BY <1>1 DEF Mem!ClearLease, Mem!NoToken
<1>5. SameTask(u, c)
  BY <1>3, <1>4 DEF SameTask, Mem!Record
<1>2. PICK r : r = [c EXCEPT !.status = "retrying", !.runAt = n]
  OBVIOUS
<1>6. "retrying" \in Mem!Statuses
  BY DEF Mem!Statuses
<1>7. SameTask(u, r) /\ r.status = "retrying"
  BY <1>2, <1>5, <1>6 DEF SameTask, Mem!Record
<1>8. QED
  BY <1>1, <1>2, <1>7 DEF RetriedRow

\* A transaction on one row keeps the invariant.
LEMMA OneRowInv ==
  ASSUME SqliteInv, Idle, NEW id \in DOMAIN rows, NEW r, SameTask(rows[id], r),
         r.status = rows[id].status \/ (Live(rows[id].status) /\ Live(r.status)),
         SetRow(id, r), edges' = edges, now' = now, lastToken' \in Nat, tx' = tx
  PROVE  SqliteInv'
<1>1. Tables([rows EXCEPT ![id] = r], edges)
  BY RewriteTables DEF SqliteInv, TablesOK
<1>2. TablesOK'
  BY <1>1 DEF TablesOK, SetRow
<1>3. tx' = NoTx'
  BY DEF Idle, NoTx
<1>4. QED
  BY <1>2, <1>3 DEF SqliteInv

\* A step of an open transaction keeps the invariant.
LEMMA TxStepInv ==
  ASSUME SqliteInv, NEW x, TxGood(x), tx' = x, UNCHANGED <<rows, edges, now, lastToken>>
  PROVE  SqliteInv'
<1>1. TablesOK'
  BY DEF SqliteInv, TablesOK
<1>2. TxGood(tx)'
  BY TxStays
<1>3. QED
  BY <1>1, <1>2 DEF SqliteInv

\* A transaction under way is in order.
LEMMA OpenTx ==
  ASSUME SqliteInv, tx # NoTx
  PROVE  TablesOK /\ TxGood(tx)
  BY DEF SqliteInv

\* A new row with its edges.
LEMMA InsertInv ==
  ASSUME SqliteInv, Idle, NEW id \in Tasks, Mem!IsFreshID(id), NEW r \in Mem!Record,
         RightNew(rows, r), Insert(id, r), UNCHANGED <<now, lastToken, tx>>
  PROVE  SqliteInv'
<1>1. id \notin DOMAIN rows /\ \A t \in Tasks : t < id => t \in DOMAIN rows
  BY DEF Mem!IsFreshID
<1>2. rows' = Inserted(rows, id, r) /\ edges' = Linked(rows, edges, id, r)
  BY DEF Insert, Inserted, Linked
<1>3. Tables(Inserted(rows, id, r), Linked(rows, edges, id, r))
  BY <1>1, InsertTables DEF SqliteInv, TablesOK
<1>4. TablesOK'
  BY <1>2, <1>3 DEF TablesOK
<1>5. tx' = NoTx'
  BY DEF Idle, NoTx
<1>6. QED
  BY <1>4, <1>5 DEF SqliteInv

\* The row of a submission.
LEMMA EnqueueRow ==
  ASSUME SqliteInv, NEW s \in Submissions, NEW queue \in Queues, NEW maxRetry \in MaxRetries,
         NEW delay \in Delays, Range(s.deps) \subseteq DOMAIN rows, NEW r,
         r = Mem!NewRecord(DecideOnSubmit(Mem!ParentStates(rows, s.deps), s.policy),
                           s.deps, s.policy, s.key, NoID, queue, maxRetry, now + delay)
  PROVE  r \in Mem!Record /\ r.key = s.key /\ r.replayOf = NoID /\ RightNew(rows, r)
<1>1. /\ s.deps \in Seq(Tasks) /\ s.policy \in Policies /\ s.key \in Keys \cup {NoKey}
      /\ maxRetry \in Nat
  BY SqliteAssumption
<1>2. PICK runAt \in Nat : runAt = now + delay
  BY SqliteAssumption DEF SqliteInv
<1>3. Tables(rows, edges)
  BY DEF SqliteInv, TablesOK
<1>4. PICK deps, policy, key : deps = s.deps /\ policy = s.policy /\ key = s.key
  OBVIOUS
<1>5. r = Mem!NewRecord(DecideOnSubmit(Mem!ParentStates(rows, deps), policy),
                        deps, policy, key, NoID, queue, maxRetry, runAt)
  BY <1>2, <1>4
<1>6. deps \in Seq(Tasks) /\ policy \in Policies /\ key \in Keys \cup {NoKey} /\ Range(deps) \subseteq DOMAIN rows
  BY <1>1, <1>4
<1>7. r \in Mem!Record /\ r.key = key /\ r.replayOf = NoID /\ RightNew(rows, r)
  BY <1>1, <1>3, <1>5, <1>6, NewRowRight, SMTT(60)
<1>8. QED
  BY <1>4, <1>7

\* Enqueue: the new row counts its open parents, and its edges are marked to match.
LEMMA SubmitInv ==
  ASSUME SqliteInv, Submit
  PROVE  SqliteInv'
<1>1. PICK id \in Tasks, s \in Submissions, queue \in Queues, maxRetry \in MaxRetries, delay \in Delays :
         Enqueue(id, s.deps, s.policy, s.key, queue, maxRetry, delay)
  BY DEF Submit
<1>2. PICK r : r = Mem!NewRecord(DecideOnSubmit(Mem!ParentStates(rows, s.deps), s.policy),
                                 s.deps, s.policy, s.key, NoID, queue, maxRetry, now + delay)
  OBVIOUS
<1>3. /\ Idle /\ Mem!IsFreshID(id) /\ Range(s.deps) \subseteq DOMAIN rows
      /\ Insert(id, r) /\ UNCHANGED <<now, lastToken, tx>>
  BY <1>1, <1>2 DEF Enqueue
<1>4. r \in Mem!Record /\ RightNew(rows, r)
  BY <1>2, <1>3, EnqueueRow
<1>5. QED
  BY <1>3, <1>4, InsertInv

\* The row of a replay has no parents.
LEMMA ReplayRow ==
  ASSUME SqliteInv, NEW target \in DOMAIN rows, NEW r,
         r = Mem!NewRecord([status |-> "pending", pendingParents |-> 0], <<>>,
                           rows[target].policy, rows[target].key, target,
                           rows[target].queue, rows[target].maxRetry, now)
  PROVE  /\ r \in Mem!Record /\ r.key = rows[target].key /\ r.replayOf = target
         /\ RightNew(rows, r)
<1>1. rows[target] \in Mem!Record /\ target \in Tasks
  BY TableRows DEF SqliteInv
<1>2. PICK u, at, dec : u = rows[target] /\ at = now /\ dec = [status |-> "pending", pendingParents |-> 0]
  OBVIOUS
<1>9. PICK deps : deps = << >> /\ deps \in Seq(Tasks)
  <2>1. << >> \in Seq(Tasks)
    BY EmptySeq
  <2>2. QED
    BY <2>1
<1>3. r = Mem!NewRecord(dec, deps, u.policy, u.key, target, u.queue, u.maxRetry, at)
  BY <1>2, <1>9
<1>4. /\ dec.status \in Mem!Statuses /\ dec.pendingParents \in Nat /\ at \in Nat /\ u \in Mem!Record
      /\ dec.status = "pending"
  BY <1>1, <1>2 DEF Mem!Statuses, SqliteInv
<1>5. r \in Mem!Record /\ r.key = u.key /\ r.replayOf = target /\ r.status = "pending" /\ r.dependsOn = deps
  BY <1>1, <1>3, <1>4, <1>9 DEF Mem!Record, Mem!NewRecord, Mem!NoID, Mem!NoToken
<1>6. Parents(r) = {}
  <2>1. r.dependsOn = << >>
    BY <1>5, <1>9
  <2>2. QED
    BY <2>1 DEF Parents, Range
<1>7. RightNew(rows, r)
  BY <1>5, <1>6 DEF RightNew, Unfinished
<1>8. QED
  BY <1>2, <1>5, <1>7

\* Both ways to replay lead to a target in the table.
LEMMA ReplayTargets ==
  ASSUME NEW id \in Tasks, NEW allowCompleted \in BOOLEAN, Replay(id, allowCompleted)
  PROVE  \E target \in DOMAIN rows : ReplayTarget(id, target, allowCompleted)
  BY DEF Replay, TailsOf

\* Replay: a row without parents.
LEMMA ReplayInv ==
  ASSUME SqliteInv, NEW id \in Tasks, NEW allowCompleted \in BOOLEAN, Replay(id, allowCompleted)
  PROVE  SqliteInv'
<1>1. PICK target \in DOMAIN rows : ReplayTarget(id, target, allowCompleted)
  BY ReplayTargets
<1>2. PICK r : r = Mem!NewRecord([status |-> "pending", pendingParents |-> 0], <<>>,
                                 rows[target].policy, rows[target].key, target,
                                 rows[target].queue, rows[target].maxRetry, now)
  OBVIOUS
<1>3. Idle /\ Mem!IsFreshID(id) /\ Insert(id, r) /\ UNCHANGED <<now, lastToken, tx>>
  BY <1>1, <1>2 DEF ReplayTarget
<1>4. r \in Mem!Record /\ RightNew(rows, r)
  BY <1>2, ReplayRow
<1>5. QED
  BY <1>3, <1>4, InsertInv

\* Dequeue: a queued task waits for nobody, and a running one does not either.
LEMMA ClaimInv ==
  ASSUME SqliteInv, NEW at \in Nat, NEW Q, Claim(at, Q)
  PROVE  SqliteInv'
<1>1. PICK t \in DOMAIN rows :
        /\ Queued(rows[t].status)
        /\ SetRow(t, [rows[t] EXCEPT !.status = "running", !.leaseToken = lastToken + 1,
                                     !.leaseUntil = at + LeaseTTL[rows[t].queue]])
  BY DEF Claim, DueAt
<1>0. PICK n \in Nat : n = lastToken + 1
  BY DEF SqliteInv
<1>2. PICK r : r = [rows[t] EXCEPT !.status = "running", !.leaseToken = n,
                                   !.leaseUntil = at + LeaseTTL[rows[t].queue]]
  OBVIOUS
<1>3. SameTask(rows[t], r) /\ r.status = "running"
  BY <1>2, ClaimedRow DEF SqliteInv
<1>4. Live(rows[t].status) /\ Live(r.status)
  BY <1>1, <1>3 DEF Live, Queued
<1>5. SetRow(t, r)
  BY <1>0, <1>1, <1>2
<1>6. Idle /\ edges' = edges /\ now' = now /\ tx' = tx /\ lastToken' \in Nat
  BY DEF Claim, SqliteInv
<1>7. QED
  BY <1>3, <1>4, <1>5, <1>6, OneRowInv

\* The calls by which a holder returns or keeps a task.
LEMMA KeepInv ==
  ASSUME SqliteInv, NEW id \in Tasks, NEW token, Requeue(id, token) \/ Heartbeat(id, token)
  PROVE  SqliteInv'
<1>1. Idle /\ Mem!HoldsLease(id, token) /\ edges' = edges /\ now' = now /\ lastToken' = lastToken /\ tx' = tx
  BY DEF Requeue, Heartbeat
<1>2. id \in DOMAIN rows /\ rows[id].status = "running" /\ Live(rows[id].status)
  BY <1>1 DEF Mem!HoldsLease, Live
<1>3. TablesOK /\ rows[id] \in Mem!Record /\ now \in Nat /\ lastToken \in Nat
  BY <1>2, TableRows DEF SqliteInv
<1>4. CASE Requeue(id, token)
  <2>1. PICK r : r = Mem!Returned(rows[id])
    OBVIOUS
  <2>2. SameTask(rows[id], r) /\ Live(r.status) /\ SetRow(id, r)
    BY <1>3, <1>4, <2>1, RowWrites DEF Requeue, Live
  <2>3. QED
    BY <1>1, <1>2, <1>3, <2>2, OneRowInv
<1>5. CASE Heartbeat(id, token)
  <2>1. PICK r : r = [rows[id] EXCEPT !.leaseUntil = now + LeaseTTL[rows[id].queue]]
    OBVIOUS
  <2>2. SameTask(rows[id], r) /\ r.status = rows[id].status
    BY <1>2, <1>3, <2>1, RenewedRow
  <2>3. SetRow(id, r)
    BY <1>5, <2>1 DEF Heartbeat
  <2>4. QED
    BY <1>1, <1>2, <1>3, <2>2, <2>3, OneRowInv
<1>7. QED
  BY <1>4, <1>5

\* The call by which it retries one.
LEMMA RetryInv ==
  ASSUME SqliteInv, NEW id \in Tasks, NEW token, NEW kind, NEW delay \in Delays,
         FailRetry(id, token, kind, delay)
  PROVE  SqliteInv'
<1>1. Idle /\ Mem!HoldsLease(id, token) /\ edges' = edges /\ now' = now /\ lastToken' = lastToken /\ tx' = tx
  BY DEF FailRetry
<1>2. id \in DOMAIN rows /\ rows[id].status = "running" /\ Live(rows[id].status)
  BY <1>1 DEF Mem!HoldsLease, Live
<1>3. TablesOK /\ rows[id] \in Mem!Record /\ now \in Nat /\ lastToken \in Nat /\ now + delay \in Nat
  BY <1>2, TableRows, SqliteAssumption DEF SqliteInv
<1>4. PICK n \in Nat : n = now + delay
  BY <1>3
<1>5. PICK r : r = RetriedRow(rows[id], kind, n)
  OBVIOUS
<1>6. SameTask(rows[id], r) /\ r.status = "retrying"
  BY <1>3, <1>4, <1>5, RetriedRowIs
<1>7. SetRow(id, r) /\ Live(r.status)
  BY <1>4, <1>5, <1>6 DEF FailRetry, Live, RetriedRow
<1>8. QED
  BY <1>1, <1>2, <1>3, <1>6, <1>7, OneRowInv

\* The calls that end a task open a transaction.
LEMMA FinalInv ==
  ASSUME SqliteInv, NEW id \in DOMAIN rows, NEW r, Ends(id, r), BeginFinal(id, r)
  PROVE  SqliteInv'
<1>1. PICK x : x = [NoTx EXCEPT !.phase = "final", !.rows = [rows EXCEPT ![id] = r], !.edges = edges,
                                !.work = <<id>>, !.notifs = {<<id, r.status>>}]
  OBVIOUS
<1>2. TxGood(x)
  BY <1>1, BeginFinalGood DEF SqliteInv
<1>3. tx' = x /\ UNCHANGED <<rows, edges, now, lastToken>>
  BY <1>1 DEF BeginFinal
<1>4. QED
  BY <1>2, <1>3, TxStepInv

\* The guards of those calls.
LEMMA HolderEnds ==
  ASSUME NEW id \in Tasks, NEW token \in 1..lastToken, NEW kind \in Mem!FailKinds, NEW delay \in Delays,
         Ack(id, token) \/ FinishCanceled(id, token) \/ FailFinal(id, token, kind)
  PROVE  id \in DOMAIN rows /\ \E r : Ends(id, r) /\ BeginFinal(id, r)
<1>1. Mem!HoldsLease(id, token)
  BY DEF Ack, FinishCanceled, FailFinal
<1>2. id \in DOMAIN rows
  BY <1>1 DEF Mem!HoldsLease
<1>3. CASE Ack(id, token)
  <2>1. PICK r : r = Mem!Finished(rows[id], "completed")
    OBVIOUS
  <2>2. Ends(id, r) /\ BeginFinal(id, r)
    BY <1>1, <1>3, <2>1 DEF Ack, Ends
  <2>3. QED
    BY <1>2, <2>2
<1>4. CASE FinishCanceled(id, token)
  <2>1. PICK r : r = Mem!Finished(rows[id], "canceled")
    OBVIOUS
  <2>2. Ends(id, r) /\ BeginFinal(id, r)
    BY <1>1, <1>4, <2>1 DEF FinishCanceled, Ends
  <2>3. QED
    BY <1>2, <2>2
<1>5. CASE FailFinal(id, token, kind)
  <2>1. PICK r : r = Mem!Finished(Mem!Counted(rows[id], kind), "failed")
    OBVIOUS
  <2>2. Mem!Exhausted(Mem!Counted(rows[id], kind), kind) /\ BeginFinal(id, r)
    BY <1>5, <2>1 DEF FailFinal
  <2>3. Ends(id, r)
    BY <1>1, <2>1, <2>2 DEF Ends
  <2>4. QED
    BY <1>2, <2>2, <2>3
<1>6. QED
  BY <1>3, <1>4, <1>5

\* Every call of a worker, whether it ends the task or not.
LEMMA ReportInv ==
  ASSUME SqliteInv, Report
  PROVE  SqliteInv'
<1>1. PICK id \in Tasks, token \in 1..lastToken :
        \/ Ack(id, token) \/ FinishCanceled(id, token)
        \/ Requeue(id, token) \/ Heartbeat(id, token)
        \/ \E kind \in Mem!FailKinds, delay \in Delays :
             FailFinal(id, token, kind) \/ FailRetry(id, token, kind, delay)
  BY DEF Report
<1>2. ASSUME NEW r, id \in DOMAIN rows, Ends(id, r), BeginFinal(id, r) PROVE SqliteInv'
  BY <1>2, FinalInv
<1>3. CASE Ack(id, token)
  <2>1. PICK r : r = Mem!Finished(rows[id], "completed")
    OBVIOUS
  <2>2. id \in DOMAIN rows /\ Ends(id, r) /\ BeginFinal(id, r)
    BY <1>3, <2>1 DEF Ack, Ends, Mem!HoldsLease
  <2>3. QED
    BY <1>2, <2>2
<1>4. CASE FinishCanceled(id, token)
  <2>1. PICK r : r = Mem!Finished(rows[id], "canceled")
    OBVIOUS
  <2>2. id \in DOMAIN rows /\ Ends(id, r) /\ BeginFinal(id, r)
    BY <1>4, <2>1 DEF FinishCanceled, Ends, Mem!HoldsLease
  <2>3. QED
    BY <1>2, <2>2
<1>5. ASSUME NEW kind \in Mem!FailKinds, NEW delay \in Delays, FailFinal(id, token, kind)
      PROVE  SqliteInv'
  <2>1. id \in DOMAIN rows /\ \E r : Ends(id, r) /\ BeginFinal(id, r)
    BY <1>5, HolderEnds
  <2>2. QED
    BY <1>2, <2>1
<1>6. ASSUME NEW kind \in Mem!FailKinds, NEW delay \in Delays, FailRetry(id, token, kind, delay)
      PROVE  SqliteInv'
  BY <1>6, RetryInv
<1>7. CASE Requeue(id, token) \/ Heartbeat(id, token)
  BY <1>7, KeepInv
<1>8. QED
  BY <1>1, <1>3, <1>4, <1>5, <1>6, <1>7

\* Cancel, of a running and of a waiting task.
LEMMA CancelInv ==
  ASSUME SqliteInv, NEW id \in Tasks, CancelRunning(id) \/ CancelQueued(id)
  PROVE  SqliteInv'
<1>1. CASE CancelRunning(id)
  <2>1. PICK r : r = [rows[id] EXCEPT !.cancelRequested = TRUE]
    OBVIOUS
  <2>2. /\ Idle /\ id \in DOMAIN rows /\ SetRow(id, r)
        /\ edges' = edges /\ now' = now /\ lastToken' = lastToken /\ tx' = tx
    BY <1>1, <2>1 DEF CancelRunning
  <2>3. SameTask(rows[id], r) /\ r.status = rows[id].status
    BY <2>1, <2>2, FlaggedRow DEF SqliteInv
  <2>4. lastToken' \in Nat
    BY <2>2 DEF SqliteInv
  <2>5. QED
    BY <2>2, <2>3, <2>4, OneRowInv
<1>2. CASE CancelQueued(id)
  <2>1. PICK r : r = CanceledRow(rows[id])
    OBVIOUS
  <2>2. /\ id \in DOMAIN rows /\ rows[id].status \in {"blocked", "pending", "retrying"}
        /\ BeginFinal(id, r)
    BY <1>2, <2>1 DEF CancelQueued, CanceledRow
  <2>3. Ends(id, r)
    BY <2>1, <2>2 DEF Ends
  <2>4. QED
    BY <2>2, <2>3, FinalInv
<1>3. QED
  BY <1>1, <1>2

\* The first UPDATE of ReapExpired.
LEMMA BeginReapInv ==
  ASSUME SqliteInv, BeginReap
  PROVE  SqliteInv'
<1>1. PICK F : F = {t \in ExpiredIn(rows) : rows[t].cancelRequested}
  OBVIOUS
<1>2. PICK x : x = UpdateReturning([NoTx EXCEPT !.rows = rows, !.edges = edges],
                                   "reap0", [t \in F |-> Canceled(rows[t])])
  OBVIOUS
<1>3. TxGood(x)
  BY <1>1, <1>2, BeginReapGood DEF SqliteInv
<1>4. tx' = x /\ UNCHANGED <<rows, edges, now, lastToken>>
  BY <1>1, <1>2 DEF BeginReap
<1>5. QED
  BY <1>3, <1>4, TxStepInv

\* One round of propagateTx.
LEMMA PropagateInv ==
  ASSUME SqliteInv, propagateTx
  PROVE  SqliteInv'
<1>1. tx.work # <<>>
  BY DEF propagateTx
<1>2. tx # NoTx
  BY <1>1 DEF NoTx
<1>3. TablesOK /\ TxGood(tx)
  BY <1>2, OpenTx
<1>4. TxGood(AfterVisit(tx))
  BY <1>1, <1>3, VisitGood, SMTT(60)
<1>5. tx' = AfterVisit(tx) /\ UNCHANGED <<rows, edges, now, lastToken>>
  BY DEF propagateTx, AfterVisit
<1>6. QED
  BY <1>4, <1>5, TxStepInv, SMTT(60)

\* The later statements of ReapExpired.
LEMMA ReapStepInv ==
  ASSUME SqliteInv, (\E t \in Tasks : ReapNext(t)) \/ ReapLost \/ ScanBlocked
  PROVE  SqliteInv'
<1>1. tx.phase \in {"reap0", "reap1"} /\ tx.work = <<>> /\ UNCHANGED <<rows, edges, now, lastToken>>
  BY DEF ReapNext, ReapLost, ScanBlocked, Settling
<1>2. tx # NoTx
  BY <1>1 DEF NoTx
<1>3. TablesOK /\ TxGood(tx)
  BY <1>2, OpenTx
<1>4. ASSUME NEW t \in Tasks, ReapNext(t) PROVE SqliteInv'
  <2>1. PICK y : y = [tx EXCEPT !.list = tx.list \ {t},
                                !.work = IF IsFinal(tx.rows[t].status) THEN <<t>> ELSE <<>>]
    OBVIOUS
  <2>2. t \in tx.list /\ tx' = y
    BY <1>4, <2>1 DEF ReapNext
  <2>3. TxGood(y)
    BY <1>1, <1>3, <2>1, <2>2, ReapNextGood
  <2>4. QED
    BY <1>1, <2>2, <2>3, TxStepInv
<1>5. CASE ReapLost
  <2>1. PICK y : y = UpdateReturning(tx, "reap1", [t \in ExpiredIn(tx.rows) |-> Lost(tx.rows[t])])
    OBVIOUS
  <2>2. tx.phase = "reap0" /\ tx.list = {} /\ tx' = y
    BY <1>5, <2>1 DEF ReapLost
  <2>3. TxGood(y)
    BY <1>1, <1>3, <2>1, <2>2, ReapLostGood
  <2>4. QED
    BY <1>1, <2>2, <2>3, TxStepInv
<1>6. CASE ScanBlocked
  <2>1. PICK y : y = [tx EXCEPT !.phase = "repair",
                                !.list = {t \in DOMAIN tx.rows : tx.rows[t].status = "blocked"}]
    OBVIOUS
  <2>2. tx.phase = "reap1" /\ tx.list = {} /\ tx' = y
    BY <1>6, <2>1 DEF ScanBlocked
  <2>3. TxGood(y)
    BY <1>1, <1>3, <2>1, <2>2, ScanBlockedGood
  <2>4. QED
    BY <1>1, <2>2, <2>3, TxStepInv
<1>7. QED
  BY <1>4, <1>5, <1>6

\* The defensive pass over blocked tasks writes what is there already.
LEMMA RepairInv ==
  ASSUME SqliteInv, RepairBlocked
  PROVE  SqliteInv' /\ tx'.rows = tx.rows
<1>1. tx.phase = "repair" /\ tx.work = <<>> /\ tx.list # {} /\ UNCHANGED <<rows, edges, now, lastToken>>
  BY DEF RepairBlocked, Settling
<1>2. tx # NoTx
  BY <1>1 DEF NoTx
<1>3. TablesOK /\ TxGood(tx)
  BY <1>2, OpenTx
<1>4. TxShape(tx)
  BY <1>3 DEF TxGood
<1>5. PICK t : t = Head(Ascending(tx.list))
  OBVIOUS
<1>6. t \in tx.list
  <2>1. tx.list \in SUBSET Nat /\ IsFiniteSet(tx.list)
    BY <1>3, <1>4, TableRows, FS_Subset DEF TxShape
  <2>2. Ascending(tx.list) \in Seq(tx.list) /\ Len(Ascending(tx.list)) = Cardinality(tx.list)
    BY <2>1, AscendingLists
  <2>3. Cardinality(tx.list) # 0
    BY <1>1, <2>1, FS_EmptySet
  <2>4. Ascending(tx.list) # << >>
    BY <2>2, <2>3
  <2>5. QED
    BY <1>5, <2>2, <2>4
<1>7. PICK u : u = Repaired(tx.rows[t])
  OBVIOUS
<1>8. u = tx.rows[t] /\ t \in DOMAIN tx.rows /\ u.status = "blocked"
  BY <1>1, <1>3, <1>6, <1>7, RepairedSame
<1>9. tx' = [tx EXCEPT !.rows[t] = u, !.list = @ \ {t},
                       !.notifs = @ \cup Noted(tx.rows[t], u, t),
                       !.work = IF u.status = "canceled" /\ tx.rows[t].status = "blocked"
                                THEN <<t>> ELSE <<>>]
  BY <1>5, <1>7 DEF RepairBlocked
<1>10. PICK y : y = [tx EXCEPT !.list = tx.list \ {t}]
  OBVIOUS
<1>11. tx' = y /\ y.rows = tx.rows
  <2>1. Noted(tx.rows[t], u, t) = {}
    BY <1>8 DEF Noted
  <2>2. [tx.rows EXCEPT ![t] = u] = tx.rows
    BY <1>4, <1>8 DEF TxShape
  <2>3. (IF u.status = "canceled" /\ tx.rows[t].status = "blocked" THEN <<t>> ELSE <<>>) = tx.work
    BY <1>1, <1>8
  <2>4. tx.notifs \cup Noted(tx.rows[t], u, t) = tx.notifs
    BY <2>1
  <2>5. tx' = [tx EXCEPT !.rows = tx.rows, !.list = tx.list \ {t}, !.notifs = tx.notifs, !.work = tx.work]
    BY <1>9, <2>2, <2>3, <2>4
  <2>6. QED
    BY <1>4, <1>10, <2>5 DEF TxShape
<1>12. TxGood(y)
  BY <1>1, <1>3, <1>6, <1>10, RepairGood
<1>13. SqliteInv'
  BY <1>1, <1>11, <1>12, TxStepInv
<1>14. QED
  BY <1>11, <1>13

\* At its commit a transaction owes nothing to anybody's children.
LEMMA CommitInv ==
  ASSUME SqliteInv, Commit
  PROVE  SqliteInv'
<1>1. TxDone /\ rows' = tx.rows /\ edges' = tx.edges /\ tx' = NoTx /\ UNCHANGED <<now, lastToken>>
  BY DEF Commit
<1>2. tx # NoTx
  BY <1>1 DEF NoTx, TxDone
<1>3. Tables(tx.rows, tx.edges)
  BY <1>1, <1>2, OpenTx, CommitTables
<1>4. TablesOK'
  BY <1>1, <1>3 DEF TablesOK
<1>5. tx' = NoTx'
  BY <1>1 DEF NoTx
<1>6. QED
  BY <1>1, <1>4, <1>5 DEF SqliteInv

\* The invariant holds from the empty file on, whatever the calls and the crashes.
THEOREM SqliteInvariant == SqliteSpec => []SqliteInv
<1>1. SqliteInit => SqliteInv
  <2>1. SUFFICES ASSUME SqliteInit PROVE SqliteInv
    OBVIOUS
  <2>2. DOMAIN rows = {} /\ rows = [t \in {} |-> 0] /\ edges = [t \in {} |-> 0]
    BY <2>1 DEF SqliteInit
  <2>3. Arcs(rows) = {}
    BY <2>2 DEF Arcs
  <2>4. Marked(rows, edges, {})
    BY <2>2, <2>3 DEF Marked
  <2>5. Mem!IsStore(rows) /\ Right(rows, {})
    BY <2>2 DEF Mem!IsStore, Right
  <2>6. QED
    BY <2>1, <2>2, <2>4, <2>5 DEF SqliteInv, TablesOK, Tables, SqliteInit
<1>2. SqliteInv /\ [SqliteNext]_sqliteVars => SqliteInv'
  <2>1. SUFFICES ASSUME SqliteInv, [SqliteNext]_sqliteVars PROVE SqliteInv'
    OBVIOUS
  <2>2. CASE Submit
    BY <2>1, <2>2, SubmitInv
  <2>3. ASSUME NEW id \in Tasks, NEW allowCompleted \in BOOLEAN, Replay(id, allowCompleted)
        PROVE  SqliteInv'
    BY <2>1, <2>3, ReplayInv
  <2>4. ASSUME NEW lag \in 0..MaxLag, NEW Q \in SUBSET Queues \ {{}}, lag <= now, Claim(now - lag, Q)
        PROVE  SqliteInv'
    <3>1. PICK at \in Nat : at = now - lag
      BY <2>1, <2>4, SqliteAssumption DEF SqliteInv
    <3>2. QED
      BY <2>1, <2>4, <3>1, ClaimInv
  <2>5. CASE Report
    BY <2>1, <2>5, ReportInv
  <2>6. ASSUME NEW id \in Tasks, CancelRunning(id) \/ CancelQueued(id) PROVE SqliteInv'
    BY <2>1, <2>6, CancelInv
  <2>7. CASE BeginReap
    BY <2>1, <2>7, BeginReapInv
  <2>8. CASE Step
    BY <2>1, <2>8, PropagateInv, ReapStepInv, RepairInv, CommitInv DEF Step
  <2>9. CASE Crash
    <3>1. TablesOK' /\ tx' = NoTx' /\ now' = now /\ lastToken' = lastToken
      BY <2>1, <2>9 DEF Crash, SqliteInv, TablesOK, NoTx
    <3>2. QED
      BY <2>1, <3>1 DEF SqliteInv
  <2>10. CASE Tick
    <3>1. TablesOK' /\ tx' = NoTx' /\ now' \in Nat /\ lastToken' = lastToken
      BY <2>1, <2>10 DEF Tick, Idle, SqliteInv, TablesOK, NoTx
    <3>2. QED
      BY <2>1, <3>1 DEF SqliteInv
  <2>11. CASE UNCHANGED sqliteVars
    <3>1. TablesOK' /\ now' = now /\ lastToken' = lastToken
      BY <2>1, <2>11 DEF sqliteVars, SqliteInv, TablesOK
    <3>2. CASE tx = NoTx
      BY <2>1, <2>11, <3>1, <3>2 DEF sqliteVars, SqliteInv, NoTx
    <3>3. CASE tx # NoTx
      BY <2>1, <2>11, <3>3, OpenTx, TxStepInv DEF sqliteVars
    <3>4. QED
      BY <3>2, <3>3
  <2>12. QED
    BY <2>1, <2>2, <2>3, <2>4, <2>5, <2>6, <2>7, <2>8, <2>9, <2>10, <2>11 DEF SqliteNext
<1>3. QED
  BY <1>1, <1>2, PTL DEF SqliteSpec

\* task_deps agrees with tasks in every committed state.
THEOREM EdgesAgree == SqliteSpec => []EdgesExact
<1>1. SqliteInv => EdgesExact
  <2>1. SUFFICES ASSUME SqliteInv PROVE EdgesExact
    OBVIOUS
  <2>2. TablesOK /\ Right(rows, {})
    BY <2>1 DEF SqliteInv, TablesOK, Tables
  <2>3. edges = [e \in Arcs(rows) |-> Over(rows, {}, e[2])]
    BY <2>2 DEF TablesOK, Tables, Marked
  <2>4. DOMAIN edges = Arcs(rows) /\ \A e \in Arcs(rows) : edges[e] = IsFinal(rows[e[2]].status)
    <3>1. ASSUME NEW e \in Arcs(rows) PROVE edges[e] = IsFinal(rows[e[2]].status)
      <4>1. edges[e] = Over(rows, {}, e[2])
        BY <2>3
      <4>2. Over(rows, {}, e[2]) <=> IsFinal(rows[e[2]].status)
        BY DEF Over
      <4>3. QED
        BY <4>1, <4>2 DEF Over, IsFinal
    <3>2. QED
      BY <2>3, <3>1
  <2>5. ASSUME NEW t \in DOMAIN rows, rows[t].status = "blocked"
        PROVE  rows[t].pendingParents = Cardinality({e \in DOMAIN edges : e[1] = t /\ ~edges[e]})
    <3> DEFINE S == Waits(rows, {}, t)
               T == {e \in DOMAIN edges : e[1] = t /\ ~edges[e]}
               f == [p \in S |-> <<t, p>>]
    <3>1. rows[t].pendingParents = Cardinality(S)
      BY <2>2, <2>5 DEF Right
    <3>2. IsFiniteSet(S)
      <4>1. rows[t] \in Mem!Record
        BY <2>2, TableRows
      <4>2. QED
        BY <4>1, ParentsKnown, FS_Subset DEF Waits
    <3>3. \A p \in S : f[p] \in T
      <4>1. SUFFICES ASSUME NEW p \in S PROVE <<t, p>> \in T
        OBVIOUS
      <4>2. p \in Parents(rows[t]) /\ ~IsFinal(rows[p].status)
        BY DEF Waits, Over
      <4>3. <<t, p>> \in Arcs(rows)
        BY <4>2, ArcsMeaning
      <4>4. QED
        BY <2>4, <4>2, <4>3
    <3>4. \A e \in T : \E p \in S : f[p] = e
      <4>1. SUFFICES ASSUME NEW e \in T PROVE \E p \in S : <<t, p>> = e
        OBVIOUS
      <4>2. e \in Arcs(rows) /\ e[1] = t /\ ~edges[e]
        BY <2>4
      <4>3. PICK u \in DOMAIN rows : \E p \in Parents(rows[u]) : e = <<u, p>>
        BY <4>2, ArcsMeaning
      <4>4. PICK p \in Parents(rows[u]) : e = <<u, p>>
        BY <4>3
      <4>5. u = t /\ e[2] = p
        BY <4>2, <4>4
      <4>6. ~IsFinal(rows[p].status)
        BY <2>4, <4>2, <4>5
      <4>7. p \in S
        BY <4>4, <4>5, <4>6 DEF Waits, Over
      <4>8. QED
        BY <4>4, <4>5, <4>7
    <3>5. \A p, q \in S : f[p] = f[q] => p = q
      OBVIOUS
    <3> HIDE DEF S, T
    <3>6. f \in Bijection(S, T)
      BY <3>3, <3>4, <3>5 DEF Bijection, Injection, Surjection, IsInjective
    <3>7. Cardinality(T) = Cardinality(S)
      BY <3>2, <3>6, FS_Bijection DEF ExistsBijection
    <3>8. QED
      BY <3>1, <3>7 DEF T
  <2>6. QED
    BY <2>4, <2>5 DEF EdgesExact, Arcs
<1>2. QED
  BY <1>1, SqliteInvariant, PTL

\* Every change of status is notified once, and nothing else is.
THEOREM NoticesAgree == SqliteSpec => []NotifyExact
<1>1. SqliteInv => NotifyExact
  <2>1. SUFFICES ASSUME SqliteInv, TxDone
                 PROVE  tx.notifs = Notice(tx.rows, {t \in DOMAIN rows : rows[t].status # tx.rows[t].status})
    BY DEF NotifyExact
  <2>2. tx # NoTx
    BY <2>1 DEF NoTx, TxDone
  <2>3. TxGood(tx)
    BY <2>1, <2>2, OpenTx
  <2>4. QED
    BY <2>3 DEF TxGood, Changed
<1>2. QED
  BY <1>1, SqliteInvariant, PTL

-------------------------------------------------------------------------------
(* A finished transaction has done what the in-memory broker does at once. *)

\* What settling a child against n satisfied parents comes to.
LEMMA SettleIs ==
  ASSUME NEW r \in Mem!Record, NEW n \in Nat, NEW broken \in BOOLEAN, ~broken
  PROVE  /\ n = 0 => Mem!Settle(r, n, broken) = r
         /\ r.status = "blocked" /\ r.pendingParents > n =>
              Mem!Settle(r, n, broken) = CountedRow(r, r.pendingParents - n)
         /\ r.status = "blocked" /\ r.pendingParents = n /\ n > 0 =>
              Mem!Settle(r, n, broken) = WokenRow(r)
<1>1. PICK left : left = IF r.pendingParents > n THEN r.pendingParents - n ELSE 0
  OBVIOUS
<1>2. r.pendingParents \in Nat /\ r.cancelRequested \in BOOLEAN
  BY DEF Mem!Record
<1>3. PICK st, cr : /\ st = IF n > 0 /\ left = 0 /\ r.status = "blocked" THEN "pending" ELSE r.status
                    /\ cr = (r.cancelRequested \/ (broken /\ r.status = "running"))
  OBVIOUS
<1>4. Mem!Settle(r, n, broken) =
        [r EXCEPT !.pendingParents = left, !.status = st, !.cancelRequested = cr]
  BY <1>1, <1>3 DEF Mem!Settle
<1>5. cr = r.cancelRequested
  BY <1>2, <1>3
<1>6. Mem!Settle(r, n, broken) = [r EXCEPT !.pendingParents = left, !.status = st]
  BY <1>4, <1>5 DEF Mem!Record
<1>7. ASSUME n = 0 PROVE Mem!Settle(r, n, broken) = r
  <2>1. left = r.pendingParents /\ st = r.status
    BY <1>1, <1>2, <1>3, <1>7
  <2>2. QED
    BY <1>6, <2>1 DEF Mem!Record
<1>8. ASSUME r.status = "blocked", r.pendingParents > n
      PROVE  Mem!Settle(r, n, broken) = CountedRow(r, r.pendingParents - n)
  <2>1. left = r.pendingParents - n /\ left # 0 /\ st = r.status
    BY <1>1, <1>2, <1>3, <1>8
  <2>2. QED
    BY <1>6, <2>1 DEF CountedRow, Mem!Record
<1>9. ASSUME r.status = "blocked", r.pendingParents = n, n > 0
      PROVE  Mem!Settle(r, n, broken) = WokenRow(r)
  <2>1. left = 0 /\ st = "pending"
    BY <1>1, <1>2, <1>3, <1>9
  <2>2. QED
    BY <1>6, <2>1 DEF WokenRow, Mem!Record
<1>10. QED
  BY <1>7, <1>8, <1>9

\* The tasks that have ended on the way.
LEMMA EndedOnTheWay ==
  ASSUME TablesOK, NEW X, NEW B, NEW W, GoodBase(B, W, {}), Walk(X, B, W, {}),
         NEW p \in DOMAIN rows
  PROVE  /\ p \in EndedIn(B, W) \cup Fallen(X, W) <=>
              IsFinal(X[p].status) /\ ~IsFinal(rows[p].status)
         /\ p \in EndedIn(B, W) => X[p] = B[p]
         /\ p \in Fallen(X, W) => X[p].status = "canceled"
<1>1. ASSUME p \in EndedIn(B, W) PROVE X[p] = B[p] /\ IsFinal(X[p].status) /\ ~IsFinal(rows[p].status)
  BY <1>1 DEF EndedIn, Walk, GoodBase
<1>2. ASSUME p \in Fallen(X, W)
      PROVE  X[p].status = "canceled" /\ IsFinal(X[p].status) /\ ~IsFinal(rows[p].status)
  BY <1>2 DEF Fallen, IsFinal
<1>3. ASSUME IsFinal(X[p].status), ~IsFinal(rows[p].status) PROVE p \in EndedIn(B, W) \cup Fallen(X, W)
  BY <1>3, WalkEnds
<1>4. QED
  BY <1>1, <1>2, <1>3

\* The walk has canceled exactly the cascade.
LEMMA FallenIsCascade ==
  ASSUME TablesOK, NEW X, DOMAIN X = DOMAIN rows, NEW B, NEW W, GoodBase(B, W, {}),
         Walk(X, B, W, {}), Right(X, {})
  PROVE  Fallen(X, W) = Mem!Cascade(B, EndedIn(B, W))
<1> DEFINE S == DOMAIN rows
           R == EndedIn(B, W)
           K == Fallen(X, W)
           Br == Mem!Broken(B, R)
<1>1. DOMAIN B = S /\ K \subseteq S /\ W \subseteq S
  BY DEF GoodBase, Fallen
<1>2. ASSUME NEW c \in S, Mem!Cancelable(B[c]), NEW p \in Mem!Parents(B[c]) \cap (Br \cup K)
      PROVE  c \in K
  <2>1. /\ B[c].policy = "fail_fast" /\ B[c].status # "running"
        /\ Mem!CanTransition(B[c].status, "canceled")
    BY <1>2 DEF Mem!Cancelable
  <2>2. rows[c] \in Mem!Record /\ rows[c].status \in Statuses
    BY TableRows
  <2>3. B[c].policy = rows[c].policy /\ B[c].dependsOn = rows[c].dependsOn
    BY <1>1 DEF GoodBase
  <2>4. p \in Parents(rows[c]) /\ p \in S
    <3>1. p \in Parents(B[c])
      BY SameWords
    <3>2. p \in Parents(rows[c])
      BY <2>3, <3>1 DEF Parents
    <3>3. QED
      BY <3>2, TableRows
  <2>5. IsFinal(X[p].status) /\ ParentBroke(X[p].status) /\ ~IsFinal(rows[p].status) /\ AllBroke(B, W)
    <3>1. CASE p \in Br
      <4>1. p \in R /\ ParentBroke(B[p].status)
        BY <3>1, SameWords DEF Mem!Broken
      <4>2. X[p] = B[p] /\ IsFinal(X[p].status) /\ ~IsFinal(rows[p].status)
        BY <2>4, <4>1, EndedOnTheWay
      <4>3. QED
        BY <2>4, <4>1, <4>2, WalkEnds DEF ParentBroke
    <3>2. CASE p \in K
      <4>1. X[p].status = "canceled" /\ IsFinal(X[p].status) /\ ~IsFinal(rows[p].status)
        BY <2>4, <3>2, EndedOnTheWay
      <4>2. QED
        BY <2>4, <4>1, WalkEnds DEF ParentBroke
    <3>3. QED
      BY <3>1, <3>2
  <2>6. ~Live(rows[c].status)
    <3>1. p \in Waits(rows, {}, c)
      BY <2>4, <2>5 DEF Waits, Over
    <3>2. Right(rows, {})
      BY DEF TablesOK, Tables
    <3>3. QED
      BY <3>1, <3>2 DEF Right
  <2>7. B[c].status \in {"blocked", "pending", "retrying"}
    <3>1. B[c].status \in Statuses
      <4>1. B[c] \in Mem!Record
        BY <1>1, <2>2 DEF GoodBase
      <4>2. QED
        BY <4>1, SameWords DEF Mem!Record
    <3>2. QED
      BY <2>1, <3>1 DEF Mem!CanTransition, Mem!legalTransitions, Mem!Statuses, Statuses
  <2>8. c \notin W
    BY <2>6, <2>7 DEF GoodBase, Live, IsFinal
  <2>9. B[c] = rows[c] /\ rows[c].status = "blocked" /\ rows[c].policy = "fail_fast"
    BY <2>1, <2>3, <2>6, <2>7, <2>8 DEF GoodBase, Live
  <2>10. X[c] = rows[c] \/ X[c] = CanceledRow(rows[c])
    BY <2>5, <2>8, <2>9 DEF Walk, Follows
  <2>11. X[c] # rows[c]
    <3>1. SUFFICES ASSUME X[c] = rows[c] PROVE FALSE
      OBVIOUS
    <3>2. p \in Parents(X[c]) \ Waits(X, {}, c)
      BY <2>4, <2>5, <3>1 DEF Waits, Over
    <3>3. ~ParentBroke(X[p].status)
      BY <2>9, <3>1, <3>2 DEF Right
    <3>4. QED
      BY <2>5, <3>3
  <2>12. X[c].status = "canceled"
    BY <2>2, <2>10, <2>11, VisitedFields
  <2>13. QED
    BY <2>8, <2>9, <2>12 DEF Fallen
<1>3. Mem!CascadeClosed(B, Br, K)
  BY <1>1, <1>2 DEF Mem!CascadeClosed
<1>4. Mem!Cascade(B, R) \subseteq K
  BY <1>1, <1>3 DEF Mem!Cascade
<1>5. K \subseteq Mem!Cascade(B, R)
  <2>1. \A T \in SUBSET S : Mem!CascadeClosed(B, Br, T) => K \subseteq T
    BY DEF Walk
  <2>2. QED
    BY <1>1, <2>1 DEF Mem!Cascade
<1>6. QED
  BY <1>4, <1>5

\* The parents of c that a transaction on its way to X ends, and those of them that
\* count as satisfied, in the words of Propagate.
NewlyEnded(X, B, W, c) == Parents(B[c]) \cap (EndedIn(B, W) \cup Fallen(X, W))

NewlySatisfied(X, B, W, c) ==
  {p \in NewlyEnded(X, B, W, c) :
     Satisfied(IF p \in Fallen(X, W) THEN "canceled" ELSE B[p].status, B[c].policy)}

\* They are those that c waited for and waits for no more.
LEMMA NewlyEndedAre ==
  ASSUME TablesOK, NEW X, DOMAIN X = DOMAIN rows, NEW B, NEW W, GoodBase(B, W, {}),
         Walk(X, B, W, {}), NEW c \in DOMAIN rows
  PROVE  /\ NewlyEnded(X, B, W, c) = Waits(rows, {}, c) \ Waits(X, {}, c)
         /\ Waits(X, {}, c) \subseteq Waits(rows, {}, c)
         /\ NewlySatisfied(X, B, W, c) =
              {p \in NewlyEnded(X, B, W, c) : Satisfied(X[p].status, rows[c].policy)}
         /\ IsFiniteSet(Waits(rows, {}, c))
         /\ \A p \in NewlyEnded(X, B, W, c) :
              p \in DOMAIN rows /\ IsFinal(X[p].status) /\ ~IsFinal(rows[p].status)
<1>1. B[c].dependsOn = rows[c].dependsOn /\ B[c].policy = rows[c].policy
  BY DEF GoodBase
<1>2. Parents(B[c]) = Parents(rows[c]) /\ Parents(X[c]) = Parents(rows[c])
  BY <1>1, WalkKeeps DEF Parents
<1>3. Parents(rows[c]) \subseteq DOMAIN rows /\ IsFiniteSet(Parents(rows[c]))
  BY TableRows, ParentsKnown
<1>4. \A p \in Parents(rows[c]) : IsFinal(rows[p].status) => IsFinal(X[p].status)
  BY <1>3, WalkKeeps
<1>5. \A p \in Parents(rows[c]) :
        p \in NewlyEnded(X, B, W, c) <=> IsFinal(X[p].status) /\ ~IsFinal(rows[p].status)
  BY <1>2, <1>3, EndedOnTheWay DEF NewlyEnded
<1>6. NewlyEnded(X, B, W, c) \subseteq Parents(rows[c])
  BY <1>2 DEF NewlyEnded
<1>7. Waits(X, {}, c) = {p \in Parents(rows[c]) : ~IsFinal(X[p].status)}
  BY <1>2 DEF Waits, Over
<1>8. Waits(rows, {}, c) = {p \in Parents(rows[c]) : ~IsFinal(rows[p].status)}
  BY DEF Waits, Over
<1>9. \A p \in NewlyEnded(X, B, W, c) :
        (IF p \in Fallen(X, W) THEN "canceled" ELSE B[p].status) = X[p].status
  <2>1. SUFFICES ASSUME NEW p \in NewlyEnded(X, B, W, c)
                 PROVE  (IF p \in Fallen(X, W) THEN "canceled" ELSE B[p].status) = X[p].status
    OBVIOUS
  <2>2. p \in DOMAIN rows /\ p \in EndedIn(B, W) \cup Fallen(X, W)
    BY <1>3, <1>6 DEF NewlyEnded
  <2>3. QED
    BY <2>2, EndedOnTheWay
<1>10. NewlySatisfied(X, B, W, c) =
              {p \in NewlyEnded(X, B, W, c) : Satisfied(X[p].status, rows[c].policy)}
  BY <1>1, <1>9 DEF NewlySatisfied
<1>11. IsFiniteSet(Waits(rows, {}, c))
  BY <1>3, <1>8, FS_Subset
<1>12. NewlyEnded(X, B, W, c) = Waits(rows, {}, c) \ Waits(X, {}, c)
  BY <1>5, <1>6, <1>7, <1>8
<1>13. Waits(X, {}, c) \subseteq Waits(rows, {}, c)
  BY <1>4, <1>7, <1>8
<1>14. QED
  BY <1>3, <1>5, <1>6, <1>10, <1>11, <1>12, <1>13

\* Row by row, a finished walk is what Propagate says.
LEMMA PropagatedRow ==
  ASSUME TablesOK, NEW X, DOMAIN X = DOMAIN rows, NEW B, NEW W, GoodBase(B, W, {}),
         Walk(X, B, W, {}), Right(X, {}), NEW c \in DOMAIN rows
  PROVE  X[c] = IF c \in Fallen(X, W) THEN CanceledRow(B[c])
                ELSE IF IsFinal(B[c].status) THEN B[c]
                ELSE Mem!Settle(B[c], Cardinality(NewlySatisfied(X, B, W, c)),
                                NewlyEnded(X, B, W, c) # NewlySatisfied(X, B, W, c))
<1> DEFINE new  == NewlyEnded(X, B, W, c)
           good == NewlySatisfied(X, B, W, c)
<1>1. rows[c] \in Mem!Record /\ rows[c].status \in Statuses /\ rows[c].policy \in Policies
  BY TableRows
<1>2. B[c] \in Mem!Record /\ c \notin W => B[c] = rows[c]
  BY <1>1 DEF GoodBase
<1>3. B[c] \in Mem!Record
  BY <1>1 DEF GoodBase
<1>4. /\ new = Waits(rows, {}, c) \ Waits(X, {}, c)
      /\ Waits(X, {}, c) \subseteq Waits(rows, {}, c)
      /\ good = {p \in new : Satisfied(X[p].status, rows[c].policy)}
      /\ IsFiniteSet(Waits(rows, {}, c))
      /\ \A p \in new : p \in DOMAIN rows /\ IsFinal(X[p].status) /\ ~IsFinal(rows[p].status)
  BY NewlyEndedAre
<1> HIDE DEF new, good
<1>5. CASE c \in Fallen(X, W)
  <2>1. c \notin W /\ rows[c].status = "blocked" /\ X[c].status = "canceled"
    BY <1>5 DEF Fallen
  <2>2. Follows(rows[c], X[c], AllBroke(B, W))
    BY <2>1 DEF Walk
  <2>3. X[c] = CanceledRow(rows[c])
    <3>1. X[c] # rows[c]
      BY <2>1
    <3>2. \A n \in Nat : X[c] # CountedRow(rows[c], n) /\ X[c] # WokenRow(rows[c])
      BY <1>1, <2>1, VisitedFields
    <3>3. X[c] # WokenRow(rows[c])
      BY <3>2
    <3>4. QED
      BY <2>2, <3>1, <3>2, <3>3 DEF Follows
  <2>4. QED
    BY <1>2, <1>3, <1>5, <2>1, <2>3
<1>6. CASE c \notin Fallen(X, W) /\ IsFinal(B[c].status)
  <2>1. CASE c \in W
    BY <1>6, <2>1 DEF Walk
  <2>2. CASE c \notin W
    <3>1. B[c] = rows[c] /\ rows[c].status # "blocked"
      BY <1>2, <1>3, <1>6, <2>2 DEF IsFinal
    <3>2. QED
      BY <1>6, <2>2, <3>1 DEF Walk
  <2>3. QED
    BY <2>1, <2>2
<1>7. CASE c \notin Fallen(X, W) /\ ~IsFinal(B[c].status)
  <2>1. SUFFICES X[c] = Mem!Settle(B[c], Cardinality(good), new # good)
    BY <1>7 DEF new, good
  <2>2. ASSUME Live(rows[c].status), X[c] = B[c] PROVE X[c] = Mem!Settle(B[c], Cardinality(good), new # good)
    <3>1. Waits(rows, {}, c) = {}
      BY <2>2 DEF TablesOK, Tables, Right
    <3>2. new = {} /\ good = {} /\ Cardinality(good) = 0
      BY <1>4, <3>1, FS_EmptySet
    <3>3. Mem!Settle(B[c], 0, FALSE) = B[c]
      BY <1>3, SettleIs
    <3>4. QED
      BY <2>2, <3>2, <3>3
  <2>3. CASE c \in W
    <3>1. rows[c].status = "running" /\ X[c] = B[c]
      BY <1>7, <2>3 DEF GoodBase, Walk
    <3>2. QED
      BY <2>2, <3>1 DEF Live
  <2>4. CASE c \notin W /\ rows[c].status # "blocked"
    <3>1. X[c] = rows[c] /\ B[c] = rows[c]
      BY <1>2, <1>3, <2>4 DEF Walk
    <3>2. Live(rows[c].status)
      BY <1>1, <1>7, <2>4, <3>1 DEF Live, IsFinal, Statuses
    <3>3. QED
      BY <2>2, <3>1, <3>2
  <2>5. CASE c \notin W /\ rows[c].status = "blocked"
    <3>1. B[c] = rows[c] /\ Follows(rows[c], X[c], AllBroke(B, W))
      BY <1>2, <1>3, <2>5 DEF Walk
    <3>2. rows[c].pendingParents = Cardinality(Waits(rows, {}, c)) /\ Waits(rows, {}, c) # {}
      BY <2>5 DEF TablesOK, Tables, Right
    <3>3. X[c].status # "canceled"
      BY <1>7, <2>5 DEF Fallen
    <3>4. CASE AllBroke(B, W) /\ rows[c].policy = "fail_fast"
      <4>1. X[c] = rows[c]
        BY <1>1, <3>1, <3>3, <3>4, VisitedFields DEF Follows
      <4>2. new = {}
        <5>1. SUFFICES ASSUME NEW p \in new PROVE FALSE
          OBVIOUS
        <5>2. p \in Parents(X[c]) \ Waits(X, {}, c)
          BY <1>4, <4>1 DEF Waits
        <5>3. ~ParentBroke(X[p].status)
          BY <2>5, <3>4, <4>1, <5>2 DEF Right
        <5>4. ParentBroke(X[p].status)
          BY <1>4, <3>4, WalkEnds
        <5>5. QED
          BY <5>3, <5>4
      <4>3. good = {} /\ Cardinality(good) = 0
        BY <1>4, <4>2, FS_EmptySet
      <4>4. Mem!Settle(B[c], 0, FALSE) = B[c]
        BY <1>3, SettleIs
      <4>5. QED
        BY <3>1, <4>1, <4>2, <4>3, <4>4
    <3>5. CASE ~(AllBroke(B, W) /\ rows[c].policy = "fail_fast")
      <4>1. good = new
        <5>1. ASSUME NEW p \in new PROVE Satisfied(X[p].status, rows[c].policy)
          <6>1. CASE AllBroke(B, W)
            BY <1>1, <3>5, <6>1 DEF Satisfied, Policies
          <6>2. CASE ~AllBroke(B, W)
            <7>1. X[p].status = "completed"
              BY <1>4, <6>2, WalkEnds
            <7>2. QED
              BY <7>1 DEF Satisfied
          <6>3. QED
            BY <6>1, <6>2
        <5>2. QED
          BY <1>4, <5>1
      <4>2. /\ IsFiniteSet(new) /\ IsFiniteSet(Waits(X, {}, c))
            /\ Cardinality(new) \in Nat /\ Cardinality(Waits(X, {}, c)) \in Nat
            /\ Cardinality(Waits(rows, {}, c)) = Cardinality(new) + Cardinality(Waits(X, {}, c))
        <5>1. IsFiniteSet(new) /\ IsFiniteSet(Waits(X, {}, c))
          BY <1>4, FS_Subset
        <5>2. Cardinality(new) \in Nat /\ Cardinality(Waits(X, {}, c)) \in Nat
          BY <5>1, FS_CardinalityType
        <5>3. new \cap Waits(X, {}, c) = {} /\ new \cup Waits(X, {}, c) = Waits(rows, {}, c)
          BY <1>4
        <5>4. Cardinality(Waits(rows, {}, c)) =
                Cardinality(new) + Cardinality(Waits(X, {}, c)) - Cardinality({})
          BY <5>1, <5>3, FS_Union
        <5>5. QED
          BY <5>1, <5>2, <5>4, FS_EmptySet
      <4> DEFINE n == Cardinality(new)
                 k == Cardinality(Waits(X, {}, c))
      <4>3. n \in Nat /\ k \in Nat /\ rows[c].pendingParents = n + k
        BY <3>2, <4>2
      <4>4. (\E m \in Nat : X[c] = CountedRow(rows[c], m)) \/ X[c] = WokenRow(rows[c])
        BY <3>1, <3>5 DEF Follows
      <4>5. /\ rows[c].pendingParents > n =>
                 Mem!Settle(rows[c], n, FALSE) = CountedRow(rows[c], rows[c].pendingParents - n)
            /\ rows[c].pendingParents = n /\ n > 0 => Mem!Settle(rows[c], n, FALSE) = WokenRow(rows[c])
        <5> HIDE DEF n
        <5>1. QED
          BY <1>1, <2>5, <4>3, SettleIs
      <4>6. ASSUME NEW m \in Nat, X[c] = CountedRow(rows[c], m)
            PROVE  X[c] = Mem!Settle(rows[c], n, FALSE)
        <5>1. X[c].status = "blocked" /\ X[c].pendingParents = m
          BY <1>1, <2>5, <4>6, VisitedFields
        <5>2. m = k /\ Waits(X, {}, c) # {}
          BY <5>1 DEF Right
        <5>3. k # 0
          BY <4>2, <5>2, FS_EmptySet
        <5> HIDE DEF n, k
        <5>4. rows[c].pendingParents > n /\ rows[c].pendingParents - n = m
          BY <4>3, <5>2, <5>3
        <5>5. QED
          BY <4>5, <4>6, <5>4
      <4>7. ASSUME X[c] = WokenRow(rows[c])
            PROVE  X[c] = Mem!Settle(rows[c], n, FALSE)
        <5>1. X[c].status = "pending"
          BY <1>1, <4>7, VisitedFields
        <5>2. Waits(X, {}, c) = {}
          BY <5>1 DEF Right, Live
        <5>3. k = 0
          BY <5>2, FS_EmptySet
        <5>4. rows[c].pendingParents # 0
          BY <1>4, <3>2, FS_EmptySet
        <5> HIDE DEF n, k
        <5>5. rows[c].pendingParents = n /\ n > 0
          BY <4>3, <5>3, <5>4
        <5>6. QED
          BY <4>5, <4>7, <5>5
      <4>8. X[c] = Mem!Settle(rows[c], n, FALSE)
        BY <4>4, <4>6, <4>7
      <4>9. QED
        BY <3>1, <4>1, <4>8
    <3>6. QED
      BY <3>4, <3>5
  <2>6. QED
    BY <2>3, <2>4, <2>5
<1>8. QED
  BY <1>5, <1>6, <1>7

\* And so is the number of members of a set.
LEMMA SameCount == \A S : Mem!Cardinality(S) = Cardinality(S)
  BY DEF Mem!Cardinality, Cardinality

\* A finished walk has made of the rows what Propagate makes of them at once.
LEMMA PropagateIs ==
  ASSUME TablesOK, NEW X, X = [t \in DOMAIN rows |-> X[t]], NEW B, NEW W,
         GoodBase(B, W, {}), Walk(X, B, W, {}), Right(X, {})
  PROVE  X = Mem!Propagate(B, EndedIn(B, W))
<1> DEFINE R == EndedIn(B, W)
           K == Fallen(X, W)
<1>1. DOMAIN X = DOMAIN rows /\ DOMAIN B = DOMAIN rows
  BY DEF GoodBase
<1>2. Mem!Cascade(B, R) = K
  BY <1>1, FallenIsCascade
<1>3. ASSUME NEW c
      PROVE  /\ Mem!Parents(B[c]) \cap (R \cup K) = NewlyEnded(X, B, W, c)
             /\ {p \in NewlyEnded(X, B, W, c) :
                   Mem!Satisfied(IF p \in K THEN "canceled" ELSE B[p].status, B[c].policy)}
                = NewlySatisfied(X, B, W, c)
  BY SameWords DEF NewlyEnded, NewlySatisfied
<1>4. Mem!Propagate(B, R) =
        [c \in DOMAIN B |->
           IF c \in K THEN CanceledRow(B[c])
           ELSE IF IsFinal(B[c].status) THEN B[c]
           ELSE Mem!Settle(B[c], Cardinality(NewlySatisfied(X, B, W, c)),
                           NewlyEnded(X, B, W, c) # NewlySatisfied(X, B, W, c))]
  <2> DEFINE C == Mem!Cascade(B, R)
             new(c) == Mem!Parents(B[c]) \cap (R \cup C)
             good(c) == {p \in new(c) :
                           Mem!Satisfied(IF p \in C THEN "canceled" ELSE B[p].status, B[c].policy)}
  <2>1. Mem!Propagate(B, R) =
          [c \in DOMAIN B |->
             IF c \in C THEN [Mem!ClearLease(B[c]) EXCEPT !.status = "canceled"]
             ELSE IF Mem!IsFinal(B[c].status) THEN B[c]
             ELSE Mem!Settle(B[c], Mem!Cardinality(good(c)), new(c) # good(c))]
    BY DEF Mem!Propagate
  <2>2. ASSUME NEW c
        PROVE  new(c) = NewlyEnded(X, B, W, c) /\ good(c) = NewlySatisfied(X, B, W, c)
    <3>1. new(c) = NewlyEnded(X, B, W, c)
      BY <1>2, <1>3
    <3>2. good(c) = {p \in NewlyEnded(X, B, W, c) :
                      Mem!Satisfied(IF p \in K THEN "canceled" ELSE B[p].status, B[c].policy)}
      <4> HIDE DEF new, C, K
      <4>1. C = K
        BY <1>2 DEF C, K
      <4>2. QED
        BY <3>1, <4>1
    <3>3. QED
      BY <1>3, <3>1, <3>2
  <2>3. \A c : [Mem!ClearLease(B[c]) EXCEPT !.status = "canceled"] = CanceledRow(B[c])
    BY DEF CanceledRow
  <2>4. \A s : Mem!IsFinal(s) <=> IsFinal(s)
    BY SameWords
  <2> HIDE DEF new, good, R, K, C
  <2>5. C = K
    BY <1>2 DEF C, R, K
  <2>6. QED
    BY <2>1, <2>2, <2>3, <2>4, <2>5, SameCount
<1>5. \A c \in DOMAIN rows :
        X[c] = IF c \in K THEN CanceledRow(B[c])
               ELSE IF IsFinal(B[c].status) THEN B[c]
               ELSE Mem!Settle(B[c], Cardinality(NewlySatisfied(X, B, W, c)),
                               NewlyEnded(X, B, W, c) # NewlySatisfied(X, B, W, c))
  BY <1>1, PropagatedRow
<1> HIDE DEF R, K
<1>6. QED
  BY <1>1, <1>4, <1>5 DEF R

\* Where nothing ended, Propagate does nothing.
LEMMA PropagateNothing ==
  ASSUME NEW X, X = [t \in DOMAIN X |-> X[t]], \A t \in DOMAIN X : X[t] \in Mem!Record
  PROVE  Mem!Propagate(X, {}) = X
<1> DEFINE C == Mem!Cascade(X, {})
           new(c) == Mem!Parents(X[c]) \cap ({} \cup C)
           good(c) == {p \in new(c) :
                         Mem!Satisfied(IF p \in C THEN "canceled" ELSE X[p].status, X[c].policy)}
<1>1. Mem!Propagate(X, {}) =
        [c \in DOMAIN X |->
           IF c \in C THEN [Mem!ClearLease(X[c]) EXCEPT !.status = "canceled"]
           ELSE IF Mem!IsFinal(X[c].status) THEN X[c]
           ELSE Mem!Settle(X[c], Mem!Cardinality(good(c)), new(c) # good(c))]
  BY DEF Mem!Propagate
<1>2. C = {}
  <2>1. Mem!CascadeClosed(X, Mem!Broken(X, {}), {})
    BY DEF Mem!CascadeClosed, Mem!Broken
  <2>2. QED
    BY <2>1 DEF Mem!Cascade
<1>3. ASSUME NEW c PROVE new(c) = {} /\ good(c) = {}
  BY <1>2
<1> HIDE DEF C, new, good
<1>4. Cardinality({}) = 0
  BY FS_EmptySet
<1>5. ASSUME NEW c \in DOMAIN X PROVE Mem!Settle(X[c], Mem!Cardinality(good(c)), new(c) # good(c)) = X[c]
  <2>1. Mem!Settle(X[c], 0, FALSE) = X[c]
    BY SettleIs
  <2>2. Mem!Cardinality(good(c)) = 0 /\ (new(c) # good(c)) = FALSE
    BY <1>3, <1>4, SameCount
  <2>3. QED
    BY <2>1, <2>2
<1>6. QED
  BY <1>1, <1>2, <1>5

\* The decision on submission is the same in both brokers.
LEMMA SameDecision ==
  \A ps, q : Mem!DecideOnSubmit(ps, q) = DecideOnSubmit(ps, q)
<1>1. \A ps : Mem!NotFinal(ps) = NotFinal(ps)
  BY DEF Mem!NotFinal, NotFinal, Mem!IsFinal, IsFinal
<1>2. \A ps : Mem!PendingCount(ps) = PendingCount(ps)
  BY <1>1, SameCount DEF Mem!PendingCount, PendingCount
<1>3. QED
  BY <1>1, <1>2 DEF Mem!DecideOnSubmit, DecideOnSubmit, Mem!ParentBroke, ParentBroke

\* The defensive pass of the in-memory broker would find nothing to do either.
LEMMA RepairNothing ==
  ASSUME NEW X, NEW E, Tables(X, E)
  PROVE  Mem!Repair(X) = X
<1> DEFINE S == {t \in DOMAIN X : X[t].status = "blocked" /\ Mem!Parents(X[t]) \subseteq DOMAIN X}
           dec(t) == Mem!DecideOnSubmit(Mem!ParentStates(X, X[t].dependsOn), X[t].policy)
           Y == [t \in DOMAIN X |->
                   IF t \notin S THEN X[t]
                   ELSE [X[t] EXCEPT !.status = dec(t).status,
                                     !.pendingParents = IF dec(t).status = "canceled"
                                                        THEN X[t].pendingParents
                                                        ELSE dec(t).pendingParents]]
           F == {t \in S : Y[t].status = "canceled"}
<1>1. Mem!Repair(X) = Mem!Propagate(Y, F)
  BY Zenon DEF Mem!Repair
<1>2. Right(X, {}) /\ X \in [DOMAIN X -> Mem!Record] /\ \A t \in DOMAIN X : X[t] \in Mem!Record
  BY RowsOf DEF Tables
<1>3. ASSUME NEW t \in S PROVE dec(t) = [status |-> "blocked", pendingParents |-> X[t].pendingParents]
  BY <1>2, DecidedAgain, SameDecision
<1> HIDE DEF dec
<1>4. ASSUME NEW t \in DOMAIN X PROVE Y[t] = X[t]
  <2>1. X[t] \in Mem!Record
    BY <1>2
  <2>2. CASE t \in S
    <3>1. dec(t).status = X[t].status /\ dec(t).pendingParents = X[t].pendingParents /\ dec(t).status # "canceled"
      BY <1>3, <2>2
    <3>2. [X[t] EXCEPT !.status = X[t].status, !.pendingParents = X[t].pendingParents] = X[t]
      BY <2>1 DEF Mem!Record
    <3> HIDE DEF S
    <3>3. QED
      BY <2>2, <3>1, <3>2
  <2>3. CASE t \notin S
    BY <2>3
  <2>4. QED
    BY <2>2, <2>3
<1>5. DOMAIN Y = DOMAIN X /\ Y = [t \in DOMAIN X |-> Y[t]]
  OBVIOUS
<1>6. S \subseteq DOMAIN X /\ \A t \in S : X[t].status = "blocked"
  OBVIOUS
<1> HIDE DEF Y, S
<1>7. Y = X
  <2>1. X = [t \in DOMAIN X |-> X[t]]
    BY <1>2
  <2>2. QED
    BY <1>4, <1>5, <2>1
<1>8. F = {}
  BY <1>4, <1>6
<1>9. QED
  BY <1>1, <1>2, <1>7, <1>8, PropagateNothing

-------------------------------------------------------------------------------
(* Chains and replays, read off the rows.                                  *)

\* They stay as they are while no row comes, goes or changes its key or replay_of.
LEMMA SameChains ==
  ASSUME DOMAIN rows' = DOMAIN rows,
         \A t \in DOMAIN rows : rows'[t].key = rows[t].key /\ rows'[t].replayOf = rows[t].replayOf
  PROVE  UNCHANGED <<[k \in Keys |-> ChainOf(k)], Replayed>>
<1>1. \A k : {t \in DOMAIN rows' : rows'[t].key = k} = {t \in DOMAIN rows : rows[t].key = k}
  OBVIOUS
<1>2. \A k : ChainOf(k)' = ChainOf(k)
  BY <1>1 DEF ChainOf
<1>3. {rows'[t].replayOf : t \in DOMAIN rows'} = {rows[t].replayOf : t \in DOMAIN rows}
  OBVIOUS
<1>4. Replayed' = Replayed
  BY <1>3 DEF Replayed
<1>5. QED
  BY <1>2, <1>4

\* A new row is linked to the end of the chain of its key.
LEMMA NewExecution ==
  ASSUME SqliteInv, NEW id \in Tasks, Mem!IsFreshID(id), NEW r \in Mem!Record, Insert(id, r)
  PROVE  /\ rows' = Mem!Put(id, r)
         /\ [k \in Keys |-> ChainOf(k)]' = Mem!Link(r.key, id)
         /\ Replayed' = Replayed \cup ({r.replayOf} \ {0})
<1>1. rows' = [t \in DOMAIN rows \cup {id} |-> IF t = id THEN r ELSE rows[t]]
  BY DEF Insert
<1>2. id \notin DOMAIN rows /\ id \in Nat /\ DOMAIN rows \subseteq Nat /\ IsFiniteSet(DOMAIN rows)
  BY SqliteAssumption, TableRows DEF Mem!IsFreshID, SqliteInv
<1>3. \A t \in DOMAIN rows : t < id
  <2>1. SUFFICES ASSUME NEW t \in DOMAIN rows, ~(t < id) PROVE FALSE
    OBVIOUS
  <2>2. t \in Nat /\ id \in Nat /\ t # id
    BY <1>2
  <2>3. id < t
    BY <2>1, <2>2
  <2>4. id \in DOMAIN rows
    BY <2>3 DEF SqliteInv, TablesOK, Tables
  <2>5. QED
    BY <1>2, <2>4
<1> DEFINE of(k) == {t \in DOMAIN rows : rows[t].key = k}
           after(k) == {t \in DOMAIN rows' : rows'[t].key = k}
<1>4. ASSUME NEW k PROVE after(k) = IF k = r.key THEN of(k) \cup {id} ELSE of(k)
  BY <1>1, <1>2
<1>5. ASSUME NEW k PROVE of(k) \in SUBSET Nat /\ IsFiniteSet(of(k)) /\ \A u \in of(k) : u < id
  BY <1>2, <1>3, FS_Subset
<1>6. ASSUME NEW k PROVE ChainOf(k)' = Ascending(after(k)) /\ ChainOf(k) = Ascending(of(k))
  BY DEF ChainOf
<1> HIDE DEF of, after
<1>7. ASSUME NEW k PROVE ChainOf(k)' = IF k = r.key THEN Append(ChainOf(k), id) ELSE ChainOf(k)
  BY <1>2, <1>4, <1>5, <1>6, AscendingAppends
<1>8. [k \in Keys |-> ChainOf(k)]' = Mem!Link(r.key, id)
  <2> DEFINE old == [k \in Keys |-> ChainOf(k)]
             new == [k \in Keys |-> ChainOf(k)']
  <2>1. \A k \in Keys : new[k] = IF k = r.key THEN Append(old[k], id) ELSE old[k]
    BY <1>7
  <2>2. Mem!Link(r.key, id) = IF r.key = NoKey THEN old ELSE [old EXCEPT ![r.key] = Append(@, id)]
    BY DEF Mem!Link
  <2>3. DOMAIN old = Keys /\ DOMAIN new = Keys /\ old = [k \in Keys |-> old[k]] /\ new = [k \in Keys |-> new[k]]
    OBVIOUS
  <2>4. [k \in Keys |-> ChainOf(k)]' = new
    OBVIOUS
  <2>5. NoKey \notin Keys
    BY SqliteAssumption
  <2> HIDE DEF old, new
  <2>6. r.key \in Keys \/ r.key = NoKey
    BY DEF Mem!Record
  <2>7. CASE r.key = NoKey
    BY <2>1, <2>2, <2>3, <2>4, <2>5, <2>7
  <2>8. CASE r.key \in Keys
    BY <2>1, <2>2, <2>3, <2>4, <2>5, <2>8, ZenonT(60)
  <2>9. QED
    BY <2>6, <2>7, <2>8
<1>9. Replayed' = Replayed \cup ({r.replayOf} \ {0})
  <2>1. Replayed' = {rows'[t].replayOf : t \in DOMAIN rows'} \ {0}
    BY DEF Replayed
  <2>2. {rows'[t].replayOf : t \in DOMAIN rows'} = {rows[t].replayOf : t \in DOMAIN rows} \cup {r.replayOf}
    BY <1>1, <1>2
  <2>3. QED
    BY <2>1, <2>2 DEF Replayed
<1>10. QED
  BY <1>1, <1>8, <1>9 DEF Mem!Put

-------------------------------------------------------------------------------
(* Every commit is a step of the in-memory broker.                         *)

\* Enqueue is Enqueue.
LEMMA SubmitMaps ==
  ASSUME SqliteInv, Submit
  PROVE  Mem!Submit
<1>1. PICK id \in Tasks, s \in Submissions, queue \in Queues, maxRetry \in MaxRetries, delay \in Delays :
        Enqueue(id, s.deps, s.policy, s.key, queue, maxRetry, delay)
  BY DEF Submit
<1>2. s.deps \in Seq(Tasks) /\ s.policy \in Policies /\ s.key \in Keys \cup {NoKey}
  BY SqliteAssumption
<1>3. PICK r : r = Mem!NewRecord(DecideOnSubmit(Mem!ParentStates(rows, s.deps), s.policy),
                                s.deps, s.policy, s.key, NoID, queue, maxRetry, now + delay)
  OBVIOUS
<1>4. /\ KeyIsFree(s.key) /\ Mem!IsFreshID(id) /\ Range(s.deps) \subseteq DOMAIN rows
      /\ Insert(id, r) /\ UNCHANGED <<now, lastToken>>
  BY <1>1, <1>3 DEF Enqueue
<1>5. r \in Mem!Record /\ r.key = s.key /\ r.replayOf = NoID
  BY <1>3, <1>4, EnqueueRow
<1>6. /\ rows' = Mem!Put(id, r)
      /\ [k \in Keys |-> ChainOf(k)]' = Mem!Link(s.key, id)
      /\ Replayed' = Replayed
  BY <1>4, <1>5, NewExecution DEF NoID
<1>7. Mem!KeyIsFree(s.key)
  <2>1. SUFFICES ASSUME s.key # NoKey PROVE [k \in Keys |-> ChainOf(k)][s.key] = <<>>
    BY DEF Mem!KeyIsFree
  <2>2. {t \in DOMAIN rows : rows[t].key = s.key} = {}
    BY <1>4, <2>1 DEF KeyIsFree
  <2>3. Ascending({}) = <<>>
    <3>1. IsFiniteSet({}) /\ Cardinality({}) = 0
      BY FS_EmptySet
    <3>2. QED
      BY <3>1 DEF Ascending
  <2>4. QED
    BY <1>2, <2>1, <2>2, <2>3 DEF ChainOf
<1>8. Mem!Range(s.deps) = Range(s.deps)
  BY DEF Mem!Range, Range
<1>9. r = Mem!NewRecord(Mem!DecideOnSubmit(Mem!ParentStates(rows, s.deps), s.policy),
                        s.deps, s.policy, s.key, Mem!NoID, queue, maxRetry, now + delay)
  BY <1>3, SameDecision DEF NoID, Mem!NoID
<1>10. Mem!Enqueue(id, s.deps, s.policy, s.key, queue, maxRetry, delay)
  BY <1>4, <1>6, <1>7, <1>8, <1>9 DEF Mem!Enqueue
<1>11. QED
  BY <1>10 DEF Mem!Submit

\* A replay, of a given execution or of a tail, is the replay of that execution.
LEMMA ReplayMaps ==
  ASSUME SqliteInv, NEW id \in Tasks, NEW allowCompleted \in BOOLEAN, Replay(id, allowCompleted)
  PROVE  Mem!Replay
<1>1. PICK target \in DOMAIN rows : ReplayTarget(id, target, allowCompleted)
  BY ReplayTargets
<1>2. PICK r : r = Mem!NewRecord([status |-> "pending", pendingParents |-> 0], <<>>,
                                rows[target].policy, rows[target].key, target,
                                rows[target].queue, rows[target].maxRetry, now)
  OBVIOUS
<1>3. /\ Mem!IsFreshID(id) /\ Replayable(target, allowCompleted)
      /\ Insert(id, r) /\ UNCHANGED <<now, lastToken>>
  BY <1>1, <1>2 DEF ReplayTarget
<1>4. r \in Mem!Record /\ r.key = rows[target].key /\ r.replayOf = target
  BY <1>2, ReplayRow
<1>5. target \in Tasks /\ target # 0
  BY SqliteAssumption, TableRows DEF SqliteInv
<1>6. /\ rows' = Mem!Put(id, r)
      /\ [k \in Keys |-> ChainOf(k)]' = Mem!Link(rows[target].key, id)
      /\ Replayed' = Replayed \cup {target}
  BY <1>3, <1>4, <1>5, NewExecution
<1>7. Mem!Replayable(target, allowCompleted)
  <2>1. target \notin Replayed
    BY <1>3 DEF Replayable, Replayed
  <2>2. QED
    BY <1>3, <2>1, SameWords DEF Replayable, Mem!Replayable
<1>8. Mem!ReplayByID(id, target, allowCompleted)
  BY <1>2, <1>3, <1>6, <1>7 DEF Mem!ReplayByID, Mem!ReplayTarget
<1>9. QED
  BY <1>5, <1>8 DEF Mem!Replay

\* What rewrites one row leaves the chains alone.
LEMMA RewriteKeepsChains ==
  ASSUME TablesOK, NEW id \in DOMAIN rows, NEW r, SameTask(rows[id], r), SetRow(id, r)
  PROVE  UNCHANGED <<[k \in Keys |-> ChainOf(k)], Replayed>>
<1>1. rows' = [rows EXCEPT ![id] = r] /\ r.key = rows[id].key /\ r.replayOf = rows[id].replayOf
  BY DEF SetRow, SameTask
<1>2. DOMAIN rows' = DOMAIN rows
  BY <1>1
<1>3. \A t \in DOMAIN rows : rows'[t].key = rows[t].key /\ rows'[t].replayOf = rows[t].replayOf
  BY <1>1
<1>4. QED
  BY <1>2, <1>3, SameChains

\* A claim that did not have to wait is a Dequeue.
LEMMA ClaimMaps ==
  ASSUME SqliteInv, NEW Q, Claim(now, Q)
  PROVE  Mem!Dequeue(Q)
<1> DEFINE due == {t \in DueAt(now) : rows[t].queue \in Q}
<1>1. due = Mem!Ready(Q)
  BY DEF DueAt, Mem!Ready, Queued, Mem!Queued
<1> HIDE DEF due
<1>2. /\ lastToken < MaxClaims /\ lastToken' = lastToken + 1 /\ UNCHANGED now
      /\ \E t \in due :
           /\ \A u \in due \ {t} : Mem!Earlier(t, u)
           /\ SetRow(t, Mem!Claimed(rows[t]))
  BY DEF Claim, due, Mem!Claimed
<1>3. PICK t \in due : /\ \A u \in due \ {t} : Mem!Earlier(t, u)
                       /\ SetRow(t, Mem!Claimed(rows[t]))
  BY <1>2
<1>4. t \in DOMAIN rows /\ TablesOK /\ now \in Nat /\ lastToken + 1 \in Nat
  BY DEF due, DueAt, SqliteInv
<1>5. SameTask(rows[t], Mem!Claimed(rows[t]))
  BY <1>4, ClaimedRow DEF Mem!Claimed
<1>6. UNCHANGED <<[k \in Keys |-> ChainOf(k)], Replayed>>
  BY <1>3, <1>4, <1>5, RewriteKeepsChains
<1>7. rows' = [rows EXCEPT ![t] = Mem!Claimed(rows[t])]
  BY <1>3 DEF SetRow
<1>8. QED
  BY <1>1, <1>2, <1>3, <1>6, <1>7 DEF Mem!Dequeue

\* Requeue and Heartbeat.
LEMMA KeepMaps ==
  ASSUME SqliteInv, NEW id \in Tasks, NEW token, Requeue(id, token) \/ Heartbeat(id, token)
  PROVE  Mem!Requeue(id, token) \/ Mem!Heartbeat(id, token)
<1>1. TablesOK /\ now \in Nat
  BY DEF SqliteInv
<1>2. Mem!HoldsLease(id, token) /\ UNCHANGED <<now, lastToken>>
  BY DEF Requeue, Heartbeat
<1>3. id \in DOMAIN rows /\ rows[id] \in Mem!Record
  BY <1>1, <1>2, TableRows DEF Mem!HoldsLease
<1>4. CASE Requeue(id, token)
  <2>1. SetRow(id, Mem!Returned(rows[id]))
    BY <1>4 DEF Requeue
  <2>2. UNCHANGED <<[k \in Keys |-> ChainOf(k)], Replayed>>
    BY <1>1, <1>3, <2>1, RowWrites, RewriteKeepsChains
  <2>3. QED
    BY <1>2, <2>1, <2>2 DEF Mem!Requeue, SetRow
<1>5. CASE Heartbeat(id, token)
  <2>1. PICK r : r = [rows[id] EXCEPT !.leaseUntil = now + LeaseTTL[rows[id].queue]]
    OBVIOUS
  <2>2. SetRow(id, r) /\ SameTask(rows[id], r)
    BY <1>1, <1>3, <1>5, <2>1, RenewedRow DEF Heartbeat
  <2>3. UNCHANGED <<[k \in Keys |-> ChainOf(k)], Replayed>>
    BY <1>1, <1>3, <2>2, RewriteKeepsChains
  <2>4. rows' = [rows EXCEPT ![id].leaseUntil = now + LeaseTTL[rows[id].queue]]
    BY <2>1, <2>2 DEF SetRow
  <2>5. QED
    BY <1>2, <2>3, <2>4 DEF Mem!Heartbeat
<1>6. QED
  BY <1>4, <1>5

\* A failure that is retried.
LEMMA RetryMaps ==
  ASSUME SqliteInv, NEW id \in Tasks, NEW token, NEW kind, NEW delay \in Delays,
         FailRetry(id, token, kind, delay)
  PROVE  Mem!Fail(id, token, kind, delay)
<1>1. TablesOK /\ now + delay \in Nat
  BY SqliteAssumption DEF SqliteInv
<1>2. /\ Mem!HoldsLease(id, token) /\ UNCHANGED <<now, lastToken>>
      /\ ~Mem!Exhausted(Mem!Counted(rows[id], kind), kind)
      /\ SetRow(id, RetriedRow(rows[id], kind, now + delay))
  BY DEF FailRetry, RetriedRow
<1>3. id \in DOMAIN rows /\ rows[id] \in Mem!Record
  BY <1>1, <1>2, TableRows DEF Mem!HoldsLease
<1>4. UNCHANGED <<[k \in Keys |-> ChainOf(k)], Replayed>>
  BY <1>1, <1>2, <1>3, RetriedRowIs, RewriteKeepsChains
<1>5. QED
  BY <1>2, <1>4 DEF Mem!Fail, SetRow, RetriedRow

\* The cancellation of a running task.
LEMMA FlagMaps ==
  ASSUME SqliteInv, NEW id \in Tasks, CancelRunning(id)
  PROVE  Mem!Cancel(id)
<1>1. TablesOK /\ id \in DOMAIN rows /\ rows[id].status = "running" /\ UNCHANGED <<now, lastToken>>
  BY DEF SqliteInv, CancelRunning
<1>2. PICK r : r = [rows[id] EXCEPT !.cancelRequested = TRUE]
  OBVIOUS
<1>3. SetRow(id, r) /\ SameTask(rows[id], r)
  BY <1>1, <1>2, FlaggedRow DEF CancelRunning
<1>4. UNCHANGED <<[k \in Keys |-> ChainOf(k)], Replayed>>
  BY <1>1, <1>3, RewriteKeepsChains
<1>5. rows' = [rows EXCEPT ![id].cancelRequested = TRUE]
  BY <1>2, <1>3 DEF SetRow
<1>6. ~Mem!IsFinal(rows[id].status)
  BY <1>1 DEF Mem!IsFinal
<1>7. QED
  BY <1>1, <1>4, <1>5, <1>6 DEF Mem!Cancel

\* A transaction that ends a task, with its cascade, commits what GoFinal writes.
LEMMA CommitEnds ==
  ASSUME SqliteInv, Commit, tx.phase = "final"
  PROVE  \E id \in DOMAIN rows : \E r : Ends(id, r) /\ Mem!GoFinal(id, r)
<1>1. TablesOK /\ TxGood(tx) /\ TxDone /\ rows' = tx.rows
  <2>1. tx # NoTx
    BY DEF NoTx
  <2>2. QED
    BY <2>1, OpenTx DEF Commit
<1>2. PICK B, W : Purpose(tx, B, W) /\ Walk(tx.rows, B, W, Unreaped(tx.phase))
  BY <1>1 DEF TxGood
<1>3. Unreaped(tx.phase) = {}
  BY DEF Unreaped
<1>0. PICK id \in DOMAIN rows : \E r : Ends(id, r) /\ B = [rows EXCEPT ![id] = r] /\ W = {id}
  BY <1>2 DEF Purpose
<1>4. PICK r : Ends(id, r) /\ B = [rows EXCEPT ![id] = r] /\ W = {id}
  BY <1>0
<1>5. GoodBase(B, W, {})
  BY <1>1, <1>2, <1>3, PurposeBase
<1>6. EndedIn(B, W) = {id}
  BY <1>1, <1>4, EndsFields DEF EndedIn
<1>7. Right(tx.rows, {})
  BY <1>1, CommitTables DEF Tables
<1>8. tx.rows = [t \in DOMAIN rows |-> tx.rows[t]]
  BY <1>1 DEF TxGood, TxShape
<1>9. tx.rows = Mem!Propagate(B, {id})
  BY <1>1, <1>2, <1>3, <1>5, <1>6, <1>7, <1>8, PropagateIs
<1>10. Mem!GoFinal(id, r)
  BY <1>1, <1>4, <1>9 DEF Mem!GoFinal
<1>11. QED
  BY <1>4, <1>10

\* A reap commits what ReapExpired writes at once.
LEMMA CommitReaps ==
  ASSUME SqliteInv, Commit, tx.phase # "final"
  PROVE  rows' = Mem!Repair(Mem!ReapLeases(rows))
<1>1. TablesOK /\ TxGood(tx) /\ TxDone /\ rows' = tx.rows /\ tx.phase = "repair"
  <2>1. tx # NoTx
    BY DEF NoTx, Commit, TxDone
  <2>2. QED
    BY <2>1, OpenTx DEF Commit, TxDone
<1>2. PICK B, W : Purpose(tx, B, W) /\ Walk(tx.rows, B, W, Unreaped(tx.phase))
  BY <1>1 DEF TxGood
<1>3. Unreaped(tx.phase) = {}
  BY <1>1 DEF Unreaped
<1>4. B = TakenBack /\ W = ExpiredIn(rows)
  BY <1>2 DEF Purpose
<1>5. GoodBase(B, W, {})
  BY <1>1, <1>2, <1>3, PurposeBase
<1>6. Tables(tx.rows, tx.edges) /\ Right(tx.rows, {})
  BY <1>1, CommitTables DEF Tables
<1>7. tx.rows = [t \in DOMAIN rows |-> tx.rows[t]]
  BY <1>1 DEF TxGood, TxShape
<1>8. tx.rows = Mem!Propagate(TakenBack, EndedIn(TakenBack, ExpiredIn(rows)))
  BY <1>1, <1>2, <1>3, <1>4, <1>5, <1>6, <1>7, PropagateIs
<1>9. Mem!ReapLeases(rows) = Mem!Propagate(TakenBack, EndedIn(TakenBack, ExpiredIn(rows)))
  <2> DEFINE E == {t \in DOMAIN rows : Mem!IsExpired(rows[t])}
             Y == [t \in DOMAIN rows |-> IF t \in E THEN Mem!Reaped(rows[t]) ELSE rows[t]]
  <2>1. Mem!ReapLeases(rows) = Mem!Propagate(Y, {t \in E : Mem!IsFinal(Y[t].status)})
    BY DEF Mem!ReapLeases
  <2>2. E = ExpiredIn(rows)
    BY DEF ExpiredIn
  <2>3. Y = TakenBack
    BY DEF TakenBack
  <2> HIDE DEF E, Y
  <2>4. {t \in E : Mem!IsFinal(Y[t].status)} = EndedIn(TakenBack, ExpiredIn(rows))
    BY <2>2, <2>3, SameWords DEF EndedIn
  <2>5. QED
    BY <2>1, <2>3, <2>4
<1>10. QED
  BY <1>1, <1>6, <1>8, <1>9, RepairNothing

\* What a commit writes is one call on the in-memory broker.
LEMMA CommitMaps ==
  ASSUME SqliteInv, Commit
  PROVE  Mem!Next
<1>1. TablesOK /\ TxGood(tx) /\ TxDone /\ rows' = tx.rows /\ UNCHANGED <<now, lastToken>>
  <2>1. tx # NoTx
    BY DEF NoTx, Commit, TxDone
  <2>2. QED
    BY <2>1, OpenTx DEF Commit
<1>2. UNCHANGED <<[k \in Keys |-> ChainOf(k)], Replayed>>
  <2>1. PICK B, W : Purpose(tx, B, W) /\ Walk(tx.rows, B, W, Unreaped(tx.phase))
    BY <1>1 DEF TxGood
  <2>2. GoodBase(B, W, Unreaped(tx.phase))
    BY <1>1, <2>1, PurposeBase
  <2>3. \A t \in DOMAIN rows : tx.rows[t].key = rows[t].key /\ tx.rows[t].replayOf = rows[t].replayOf
    BY <1>1, <2>1, <2>2, WalkKeeps
  <2>4. DOMAIN tx.rows = DOMAIN rows
    BY <1>1, TxParts
  <2>5. QED
    BY <1>1, <2>3, <2>4, SameChains
<1>3. CASE tx.phase # "final"
  <2>1. Mem!ReapExpired
    BY <1>1, <1>2, <1>3, CommitReaps DEF Mem!ReapExpired
  <2>2. QED
    BY <2>1 DEF Mem!Next
<1>4. CASE tx.phase = "final"
  <2>1. PICK id \in DOMAIN rows : \E r : Ends(id, r) /\ Mem!GoFinal(id, r)
    BY <1>4, CommitEnds
  <2>2. PICK r : Ends(id, r) /\ Mem!GoFinal(id, r)
    BY <2>1
  <2>3. id \in Tasks
    BY <1>1, TableRows
  <2>4. CASE rows[id].status \in {"blocked", "pending", "retrying"} /\ r = CanceledRow(rows[id])
    <3>1. ~Mem!IsFinal(rows[id].status) /\ rows[id].status # "running"
      BY <2>4 DEF Mem!IsFinal
    <3>2. Mem!Cancel(id)
      BY <1>1, <1>2, <2>2, <2>4, <3>1 DEF Mem!Cancel, CanceledRow
    <3>3. QED
      BY <2>3, <3>2 DEF Mem!Next
  <2>5. ASSUME NEW token \in 1..lastToken, Mem!HoldsLease(id, token),
               \/ r = Mem!Finished(rows[id], "completed")
               \/ r = Mem!Finished(rows[id], "canceled")
               \/ \E kind \in Mem!FailKinds, delay \in Delays :
                    /\ Mem!Exhausted(Mem!Counted(rows[id], kind), kind)
                    /\ r = Mem!Finished(Mem!Counted(rows[id], kind), "failed")
        PROVE  Mem!Next
    <3>1. CASE r = Mem!Finished(rows[id], "completed")
      <4>1. Mem!Ack(id, token)
        BY <1>1, <1>2, <2>2, <2>5, <3>1 DEF Mem!Ack
      <4>2. QED
        BY <2>3, <4>1 DEF Mem!Next, Mem!Report
    <3>2. CASE r = Mem!Finished(rows[id], "canceled")
      <4>1. Mem!FinishCanceled(id, token)
        BY <1>1, <1>2, <2>2, <2>5, <3>2 DEF Mem!FinishCanceled
      <4>2. QED
        BY <2>3, <4>1 DEF Mem!Next, Mem!Report
    <3>3. ASSUME NEW kind \in Mem!FailKinds, NEW delay \in Delays,
                 Mem!Exhausted(Mem!Counted(rows[id], kind), kind),
                 r = Mem!Finished(Mem!Counted(rows[id], kind), "failed")
          PROVE  Mem!Next
      <4>1. Mem!Fail(id, token, kind, delay)
        BY <1>1, <1>2, <2>2, <2>5, <3>3, SMTT(60) DEF Mem!Fail
      <4>2. QED
        BY <2>3, <4>1 DEF Mem!Next, Mem!Report
    <3>4. QED
      BY <2>5, <3>1, <3>2, <3>3
  <2>6. QED
    BY <2>2, <2>4, <2>5 DEF Ends
<1>5. QED
  BY <1>3, <1>4

\* What a transaction writes before its commit is not seen, nor is what it loses.
LEMMA UnseenSteps ==
  ASSUME \/ \E id \in Tasks, token \in 1..lastToken : Ack(id, token) \/ FinishCanceled(id, token)
         \/ \E id \in Tasks : \E token, kind : FailFinal(id, token, kind)
         \/ \E id \in Tasks : CancelQueued(id)
         \/ BeginReap \/ propagateTx
         \/ (\E t \in Tasks : ReapNext(t)) \/ ReapLost \/ ScanBlocked \/ RepairBlocked
         \/ Crash
  PROVE  UNCHANGED <<rows, now, lastToken>>
  BY ZenonT(60) DEF Ack, FinishCanceled, FailFinal, CancelQueued, BeginFinal, BeginReap, propagateTx,
         ReapNext, ReapLost, ScanBlocked, RepairBlocked, Crash

\* Every call of a worker.
LEMMA ReportMaps ==
  ASSUME SqliteInv, Report
  PROVE  UNCHANGED <<rows, now, lastToken>> \/ Mem!Report
<1>1. PICK id \in Tasks, token \in 1..lastToken :
        \/ Ack(id, token) \/ FinishCanceled(id, token)
        \/ Requeue(id, token) \/ Heartbeat(id, token)
        \/ \E kind \in Mem!FailKinds, delay \in Delays :
             FailFinal(id, token, kind) \/ FailRetry(id, token, kind, delay)
  BY DEF Report
<1>2. CASE Ack(id, token) \/ FinishCanceled(id, token)
  BY <1>2, UnseenSteps
<1>3. CASE Requeue(id, token) \/ Heartbeat(id, token)
  BY <1>3, KeepMaps DEF Mem!Report
<1>4. ASSUME NEW kind \in Mem!FailKinds, NEW delay \in Delays, FailFinal(id, token, kind)
      PROVE  UNCHANGED <<rows, now, lastToken>>
  BY <1>4 DEF FailFinal, BeginFinal
<1>5. ASSUME NEW kind \in Mem!FailKinds, NEW delay \in Delays, FailRetry(id, token, kind, delay)
      PROVE  Mem!Report
  BY <1>5, RetryMaps DEF Mem!Report
<1>6. QED
  BY <1>1, <1>2, <1>3, <1>4, <1>5

\* Time.
LEMMA TickMaps ==
  ASSUME Tick
  PROVE  Mem!Tick
<1>1. UNCHANGED rows
  BY DEF Tick
<1>2. UNCHANGED <<[k \in Keys |-> ChainOf(k)], Replayed>>
  BY <1>1, SameChains
<1>3. QED
  BY <1>1, <1>2 DEF Tick, Mem!Tick

\* The file behaves like the in-memory broker, for any number of tasks, keys and
\* queues: every commit is one call of it with the same record in every field,
\* whichever statements and crashes came before; but for leases granted by a claim
\* that waited for the write lock.
THEOREM SqliteImplements == SqliteSpec => SqliteImplementsMemory
<1>1. SqliteInit => Mem!Init
  <2>1. SUFFICES ASSUME SqliteInit PROVE Mem!Init
    OBVIOUS
  <2>2. rows = <<>> /\ now = 0 /\ lastToken = 0 /\ DOMAIN rows = {}
    BY <2>1 DEF SqliteInit
  <2>3. Ascending({}) = <<>>
    BY FS_EmptySet DEF Ascending
  <2>4. \A k \in Keys : ChainOf(k) = <<>>
    BY <2>2, <2>3 DEF ChainOf
  <2>5. Replayed = {}
    BY <2>2 DEF Replayed
  <2>6. QED
    BY <2>2, <2>4, <2>5 DEF Mem!Init, Mem!NoToken
<1>2. SqliteInv /\ [SqliteNext]_sqliteVars =>
        [UNCHANGED <<rows, now, lastToken>> \/ Mem!Next \/ ShortLease]_(Mem!vars)
  <2>1. SUFFICES ASSUME SqliteInv, [SqliteNext]_sqliteVars
                 PROVE  UNCHANGED <<rows, now, lastToken>> \/ Mem!Next \/ ShortLease
    OBVIOUS
  <2>2. CASE Submit
    BY <2>1, <2>2, SubmitMaps DEF Mem!Next
  <2>3. CASE \E id \in Tasks, allowCompleted \in BOOLEAN : Replay(id, allowCompleted)
    BY <2>1, <2>3, ReplayMaps DEF Mem!Next
  <2>4. ASSUME NEW lag \in 0..MaxLag, NEW Q \in SUBSET Queues \ {{}}, lag <= now, Claim(now - lag, Q)
        PROVE  Mem!Next \/ ShortLease
    <3>1. now \in Nat /\ MaxLag \in Nat
      BY <2>1, SqliteAssumption DEF SqliteInv
    <3>2. CASE lag = 0
      <4>1. now - lag = now
        BY <3>1, <3>2
      <4>2. Mem!Dequeue(Q)
        BY <2>1, <2>4, <4>1, ClaimMaps
      <4>3. QED
        BY <4>2 DEF Mem!Next
    <3>3. CASE lag # 0
      <4>1. lag \in 1..MaxLag
        BY <3>1, <3>3
      <4>2. QED
        BY <2>4, <4>1 DEF ShortLease
    <3>4. QED
      BY <3>2, <3>3
  <2>5. CASE Report
    BY <2>1, <2>5, ReportMaps DEF Mem!Next
  <2>6. ASSUME NEW id \in Tasks, CancelRunning(id) \/ CancelQueued(id)
        PROVE  UNCHANGED <<rows, now, lastToken>> \/ Mem!Next
    BY <2>1, <2>6, FlagMaps, UnseenSteps DEF Mem!Next
  <2>7. CASE Commit
    BY <2>1, <2>7, CommitMaps
  <2>8. CASE BeginReap \/ Crash
    BY <2>8, UnseenSteps
  <2>9. CASE Step
    BY <2>7, <2>9, UnseenSteps DEF Step
  <2>10. CASE Tick
    BY <2>10, TickMaps DEF Mem!Next
  <2>11. CASE UNCHANGED sqliteVars
    BY <2>11 DEF sqliteVars
  <2>12. QED
    BY <2>1, <2>2, <2>3, <2>4, <2>5, <2>6, <2>8, <2>9, <2>10, <2>11 DEF SqliteNext
<1>3. QED
  BY <1>1, <1>2, SqliteInvariant, PTL DEF SqliteSpec, SqliteImplementsMemory
===============================================================================
