-------------------------- MODULE MemoryBrokerProofs --------------------------
(***************************************************************************)
(* Proofs about MemoryBroker, for every value of its constants: first the  *)
(* dependency graph, state by state, then what each step does.             *)
(* SchedulerProofs and RedisBrokerProofs build on the lemmas of both parts.*)
(***************************************************************************)
EXTENDS MemoryBroker, FiniteSetTheorems, TLAPS

\* A record's parents are finitely many known ids (DependsOn is a list).
LEMMA ParentsFinite ==
  ASSUME NEW r \in Record
  PROVE  Parents(r) \subseteq Tasks /\ IsFiniteSet(Parents(r))
<1>1. Parents(r) \subseteq Tasks
  BY DEF Parents, Range, Record
<1>2. QED
  BY <1>1, FS_Subset, ConstantsAssumption

\* Clearing a lease and writing a status keeps a record well typed.
LEMMA StatusWritesType ==
  ASSUME NEW r \in Record, NEW s \in Statuses
  PROVE  /\ ClearLease(r) \in Record
         /\ Finished(r, s) \in Record
         /\ Returned(r) \in Record
         /\ [ClearLease(r) EXCEPT !.status = s] \in Record
  BY ZenonT(60) DEF ClearLease, Finished, Returned, Record, NoToken, Statuses

\* Settling a child keeps its record well typed.
LEMMA SettleType ==
  ASSUME NEW r \in Record, NEW n \in Nat, NEW b \in BOOLEAN
  PROVE  Settle(r, n, b) \in Record
<1> DEFINE left == IF r.pendingParents > n THEN r.pendingParents - n ELSE 0
           st == IF n > 0 /\ left = 0 /\ r.status = "blocked" THEN "pending" ELSE r.status
           flag == r.cancelRequested \/ (b /\ r.status = "running")
<1>1. left \in Nat
  BY DEF Record
<1>2. st \in Statuses
  BY DEF Record, Statuses
<1>3. flag \in BOOLEAN
  BY Zenon
<1>4. Settle(r, n, b) = [r EXCEPT !.pendingParents = left, !.status = st, !.cancelRequested = flag]
  BY Zenon DEF Settle
<1> HIDE DEF left, st, flag
<1>5. [r EXCEPT !.pendingParents = left, !.status = st, !.cancelRequested = flag] \in Record
  BY <1>1, <1>2, <1>3 DEF Record
<1>6. QED
  BY <1>4, <1>5

\* Propagation keeps the domain and the type of the records.
LEMMA PropagateType ==
  ASSUME NEW rs, NEW R, \A t \in DOMAIN rs : rs[t] \in Record
  PROVE  /\ DOMAIN Propagate(rs, R) = DOMAIN rs
         /\ \A t \in DOMAIN rs : Propagate(rs, R)[t] \in Record
<1> DEFINE K == Cascade(rs, R)
           new(c) == Parents(rs[c]) \cap (R \cup K)
           good(c) == {p \in new(c) :
                         Satisfied(IF p \in K THEN "canceled" ELSE rs[p].status, rs[c].policy)}
           cancel(c) == [ClearLease(rs[c]) EXCEPT !.status = "canceled"]
           settle(c) == Settle(rs[c], Cardinality(good(c)), new(c) # good(c))
<1>1. Propagate(rs, R) = [c \in DOMAIN rs |-> IF c \in K THEN cancel(c)
                                             ELSE IF IsFinal(rs[c].status) THEN rs[c]
                                             ELSE settle(c)]
  BY Zenon DEF Propagate
<1>2. ASSUME NEW t \in DOMAIN rs PROVE cancel(t) \in Record /\ settle(t) \in Record
  <2>1. cancel(t) \in Record
    BY StatusWritesType DEF Statuses
  <2>2. Cardinality(good(t)) \in Nat
    BY ParentsFinite, FS_Subset, FS_CardinalityType
  <2>3. (new(t) # good(t)) \in BOOLEAN
    OBVIOUS
  <2>4. QED
    BY <2>1, <2>2, <2>3, SettleType
<1> HIDE DEF K, new, good, cancel, settle
<1>3. QED
  BY <1>1, <1>2

-------------------------------------------------------------------------------
(* The dependency invariant, stated for any map of records.                *)

WaitsRightly(rs, t) ==
  rs[t].status = "blocked" =>
    /\ rs[t].pendingParents = Cardinality(OpenParents(rs, t))
    /\ OpenParents(rs, t) # {}
    /\ rs[t].policy = "fail_fast" =>
         \A p \in Parents(rs[t]) : ~ParentBroke(rs[p].status)

RunsRightly(rs, t) ==
  rs[t].status \notin {"blocked", "canceled"} =>
    \A p \in Parents(rs[t]) :
       /\ p \in DOMAIN rs
       /\ IsFinal(rs[p].status)
       /\ rs[t].policy = "fail_fast" => rs[p].status = "completed"

Settled(rs) == \A t \in DOMAIN rs : WaitsRightly(rs, t) /\ RunsRightly(rs, t)

\* The three statuses of a task that is in its queue or runs.
Live == {"pending", "running", "retrying"}

\* rs1 is rs0 after the tasks of R were written final and some live tasks were
\* written with another live status; nothing of the dependency graph changed.
Writes(rs0, rs1, R) ==
  /\ DOMAIN rs1 = DOMAIN rs0
  /\ R \subseteq DOMAIN rs0
  /\ \A t \in DOMAIN rs0 :
       /\ rs1[t].dependsOn = rs0[t].dependsOn
       /\ rs1[t].policy = rs0[t].policy
       /\ rs1[t].pendingParents = rs0[t].pendingParents
  /\ \A t \in DOMAIN rs0 \ R :
       \/ rs1[t].status = rs0[t].status
       \/ rs1[t].status \in Live /\ rs0[t].status \in Live
  /\ \A t \in R : /\ ~IsFinal(rs0[t].status)
                  /\ IsFinal(rs1[t].status)
                  /\ rs1[t].status # "canceled" => rs0[t].status \in Live
  /\ \/ \A t \in R : ParentBroke(rs1[t].status)
     \/ \A t \in R : rs1[t].status = "completed"

\* What Cascade computes: cancelable records only, and all of those that have
\* a parent among the broken or the canceled.
LEMMA CascadeProperties ==
  ASSUME NEW rs, NEW R
  PROVE  /\ Cascade(rs, R) \subseteq DOMAIN rs
         /\ \A c \in Cascade(rs, R) : Cancelable(rs[c])
         /\ CascadeClosed(rs, Broken(rs, R), Cascade(rs, R))
<1> DEFINE B == Broken(rs, R)
           K == Cascade(rs, R)
           C == {c \in DOMAIN rs : Cancelable(rs[c])}
<1>1. K \subseteq DOMAIN rs
  BY DEF Cascade
<1>2. C \in SUBSET DOMAIN rs /\ CascadeClosed(rs, B, C)
  BY DEF CascadeClosed
<1>3. K \subseteq C
  BY <1>2 DEF Cascade
<1>4. ASSUME NEW c \in DOMAIN rs, Cancelable(rs[c]), Parents(rs[c]) \cap (B \cup K) # {}
      PROVE  c \in K
  <2>1. ASSUME NEW S \in SUBSET DOMAIN rs, CascadeClosed(rs, B, S) PROVE c \in S
    <3>1. K \subseteq S
      BY <2>1 DEF Cascade
    <3>2. Parents(rs[c]) \cap (B \cup S) # {}
      BY <3>1, <1>4
    <3>3. QED
      BY <3>2, <2>1, <1>4 DEF CascadeClosed
  <2>2. QED
    BY <2>1 DEF Cascade
<1>5. QED
  BY <1>1, <1>3, <1>4 DEF CascadeClosed

\* With no task written final there is nothing to cascade.
LEMMA CascadeOfNone ==
  ASSUME NEW rs
  PROVE  Cascade(rs, {}) = {}
<1>1. Broken(rs, {}) = {}
  BY DEF Broken
<1>2. CascadeClosed(rs, {}, {})
  BY DEF CascadeClosed
<1>3. QED
  BY <1>1, <1>2 DEF Cascade

-------------------------------------------------------------------------------
(* Propagation settles the graph again.                                    *)

\* What Settle does to the fields the invariant speaks of.
LEMMA SettleFields ==
  ASSUME NEW r \in Record, NEW n \in Nat, NEW b \in BOOLEAN
  PROVE  LET left == IF r.pendingParents > n THEN r.pendingParents - n ELSE 0
             s == Settle(r, n, b)
         IN  /\ s.dependsOn = r.dependsOn
             /\ s.policy = r.policy
             /\ s.pendingParents = left
             /\ s.status = IF n > 0 /\ left = 0 /\ r.status = "blocked"
                           THEN "pending" ELSE r.status
  BY DEF Settle, Record

\* One step of propagation, record by record: the cascade is canceled, final
\* records stay, a blocked record is woken when its last open parent is gone.
LEMMA PropagateFields ==
  ASSUME NEW rs, NEW R, NEW t \in DOMAIN rs, \A c \in DOMAIN rs : rs[c] \in Record
  PROVE  LET K == Cascade(rs, R)
             new == Parents(rs[t]) \cap (R \cup K)
             good == {p \in new : Satisfied(IF p \in K THEN "canceled" ELSE rs[p].status,
                                            rs[t].policy)}
             n == Cardinality(good)
             left == IF rs[t].pendingParents > n THEN rs[t].pendingParents - n ELSE 0
             u == Propagate(rs, R)[t]
         IN  /\ IsFiniteSet(good) /\ n \in Nat
             /\ u.dependsOn = rs[t].dependsOn
             /\ u.policy = rs[t].policy
             /\ t \in K => u.status = "canceled"
             /\ t \notin K /\ IsFinal(rs[t].status) => u.status = rs[t].status
             /\ t \notin K /\ ~IsFinal(rs[t].status) =>
                  /\ u.pendingParents = left
                  /\ u.status = IF n > 0 /\ left = 0 /\ rs[t].status = "blocked"
                                THEN "pending" ELSE rs[t].status
<1> DEFINE K == Cascade(rs, R)
           new(c) == Parents(rs[c]) \cap (R \cup K)
           good(c) == {p \in new(c) :
                         Satisfied(IF p \in K THEN "canceled" ELSE rs[p].status, rs[c].policy)}
           n == Cardinality(good(t))
           left == IF rs[t].pendingParents > n THEN rs[t].pendingParents - n ELSE 0
           cancel(c) == [ClearLease(rs[c]) EXCEPT !.status = "canceled"]
           settle(c) == Settle(rs[c], Cardinality(good(c)), new(c) # good(c))
           u == Propagate(rs, R)[t]
<1>1. u = IF t \in K THEN cancel(t) ELSE IF IsFinal(rs[t].status) THEN rs[t] ELSE settle(t)
  BY Zenon DEF Propagate
<1>2. IsFiniteSet(good(t)) /\ n \in Nat
  BY ParentsFinite, FS_Subset, FS_CardinalityType
<1>3. (new(t) # good(t)) \in BOOLEAN
  OBVIOUS
<1>4. /\ cancel(t).dependsOn = rs[t].dependsOn
      /\ cancel(t).policy = rs[t].policy
      /\ cancel(t).status = "canceled"
  BY DEF ClearLease, Record
<1>5. /\ settle(t).dependsOn = rs[t].dependsOn
      /\ settle(t).policy = rs[t].policy
      /\ settle(t).pendingParents = left
      /\ settle(t).status = IF n > 0 /\ left = 0 /\ rs[t].status = "blocked"
                            THEN "pending" ELSE rs[t].status
  BY <1>2, <1>3, SettleFields
<1> HIDE DEF K, n, left, cancel, settle, u, new, good
<1>6. /\ IsFiniteSet(good(t)) /\ n \in Nat
      /\ u.dependsOn = rs[t].dependsOn
      /\ u.policy = rs[t].policy
      /\ t \in K => u.status = "canceled"
      /\ t \notin K /\ IsFinal(rs[t].status) => u.status = rs[t].status
      /\ t \notin K /\ ~IsFinal(rs[t].status) =>
           /\ u.pendingParents = left
           /\ u.status = IF n > 0 /\ left = 0 /\ rs[t].status = "blocked"
                         THEN "pending" ELSE rs[t].status
  BY <1>1, <1>2, <1>4, <1>5
<1>7. QED
  BY <1>6 DEF K, n, left, u, new, good

\* Removing n members of a finite set from a counter that counts it.
LEMMA CountDown ==
  ASSUME NEW S, IsFiniteSet(S), NEW D, D \subseteq S
  PROVE  /\ IsFiniteSet(S \ D) /\ IsFiniteSet(D)
         /\ Cardinality(S) \in Nat /\ Cardinality(D) \in Nat /\ Cardinality(S \ D) \in Nat
         /\ Cardinality(S) - Cardinality(D) = Cardinality(S \ D)
         /\ Cardinality(D) = 0 <=> D = {}
         /\ Cardinality(S \ D) = 0 <=> S \ D = {}
         /\ Cardinality(D) <= Cardinality(S)
<1>1. IsFiniteSet(D) /\ IsFiniteSet(S \ D) /\ Cardinality(D) <= Cardinality(S)
  BY FS_Subset
<1>2. S \cap D = D
  OBVIOUS
<1>3. Cardinality(S \ D) = Cardinality(S) - Cardinality(D)
  BY <1>2, FS_Difference, ZenonT(60)
<1>4. QED
  BY <1>1, <1>3, FS_EmptySet, FS_CardinalityType

\* The heart of the matter: if the graph was settled, the tasks of R are
\* written final and propagation runs, the graph is settled again.
LEMMA PropagateSettles ==
  ASSUME NEW rs0, NEW rs1, NEW R,
         IsStore(rs0), IsStore(rs1), Settled(rs0), Writes(rs0, rs1, R)
  PROVE  IsStore(Propagate(rs1, R)) /\ Settled(Propagate(rs1, R))
<1> DEFINE K == Cascade(rs1, R)
           F == R \cup K
           rs2 == Propagate(rs1, R)
           D == DOMAIN rs1
           new(t) == Parents(rs1[t]) \cap F
           good(t) == {p \in new(t) : Satisfied(IF p \in K THEN "canceled" ELSE rs1[p].status,
                                                rs1[t].policy)}
           n(t) == Cardinality(good(t))
           left(t) == IF rs1[t].pendingParents > n(t) THEN rs1[t].pendingParents - n(t) ELSE 0
<1>1. /\ DOMAIN rs2 = D /\ D = DOMAIN rs0 /\ D \subseteq Tasks /\ R \subseteq D
      /\ \A t \in D : rs0[t] \in Record /\ rs1[t] \in Record /\ rs2[t] \in Record
  BY PropagateType DEF IsStore, Writes
<1>2. /\ K \subseteq D
      /\ \A c \in K : Cancelable(rs1[c])
      /\ CascadeClosed(rs1, Broken(rs1, R), K)
  BY CascadeProperties
<1>3. ASSUME NEW t \in D
      PROVE  /\ IsFiniteSet(good(t)) /\ n(t) \in Nat
             /\ rs2[t].dependsOn = rs1[t].dependsOn
             /\ rs2[t].policy = rs1[t].policy
             /\ t \in K => rs2[t].status = "canceled"
             /\ t \notin K /\ IsFinal(rs1[t].status) => rs2[t].status = rs1[t].status
             /\ t \notin K /\ ~IsFinal(rs1[t].status) =>
                  /\ rs2[t].pendingParents = left(t)
                  /\ rs2[t].status = IF n(t) > 0 /\ left(t) = 0 /\ rs1[t].status = "blocked"
                                     THEN "pending" ELSE rs1[t].status
  BY <1>1, PropagateFields, ZenonT(60)
<1>4. ASSUME NEW t \in D
      PROVE  Parents(rs2[t]) = Parents(rs0[t]) /\ Parents(rs1[t]) = Parents(rs0[t])
  BY <1>1, <1>3 DEF Parents, Writes
<1>5. IsStore(rs2)
  <2>1. rs2 \in [D -> Record]
    BY <1>1, Zenon DEF Propagate
  <2>2. \A t \in D : Parents(rs2[t]) \subseteq D
    BY <1>1, <1>4 DEF IsStore
  <2>3. QED
    BY <1>1, <2>1, <2>2 DEF IsStore
\* The tasks of F became final in this step, and no other did.
<1>6. ASSUME NEW t \in F PROVE t \in D /\ ~IsFinal(rs0[t].status) /\ IsFinal(rs2[t].status)
  <2>1. CASE t \in K
    <3>1. ~IsFinal(rs1[t].status)
      BY <1>1, <1>2, <2>1 DEF Cancelable, CanTransition, legalTransitions, IsFinal, Statuses, Record
    <3>2. QED
      BY <1>1, <1>2, <1>3, <2>1, <3>1 DEF Writes, IsFinal, Live
  <2>2. CASE t \in R /\ t \notin K
    BY <1>1, <1>3, <2>2 DEF Writes
  <2>3. QED
    BY <2>1, <2>2
<1>7. ASSUME NEW t \in D, t \notin F
      PROVE  /\ IsFinal(rs2[t].status) <=> IsFinal(rs0[t].status)
             /\ IsFinal(rs0[t].status) => rs2[t].status = rs0[t].status
             /\ rs1[t].status = "blocked" <=> rs0[t].status = "blocked"
             /\ rs2[t].status = "blocked" => rs1[t].status = "blocked"
             /\ rs2[t].status = "canceled" <=> rs0[t].status = "canceled"
  BY <1>1, <1>3, <1>7, ZenonT(60) DEF Writes, IsFinal, Live
<1>8. ASSUME NEW t \in D
      PROVE  OpenParents(rs2, t) = OpenParents(rs0, t) \ F
  <2>1. Parents(rs0[t]) \subseteq D
    BY <1>1 DEF IsStore
  <2>2. QED
    BY <1>4, <1>6, <1>7, <2>1 DEF OpenParents
\* A task that waited and was not canceled counts down by its new final parents.
<1>9. ASSUME NEW t \in D, t \notin F, rs0[t].status = "blocked"
      PROVE  /\ left(t) = Cardinality(OpenParents(rs2, t))
             /\ n(t) = 0 => OpenParents(rs2, t) = OpenParents(rs0, t)
             /\ left(t) = 0 <=> OpenParents(rs2, t) = {}
             /\ left(t) \in Nat
             /\ rs0[t].policy = "fail_fast" =>
                  \A p \in Parents(rs0[t]) : ~ParentBroke(rs2[p].status)
  <2>1. rs1[t].status = "blocked" /\ rs1[t].policy = rs0[t].policy
        /\ rs1[t].pendingParents = rs0[t].pendingParents
    BY <1>1, <1>7, <1>9 DEF Writes
  <2>2. rs1[t].policy = "fail_fast" => Parents(rs1[t]) \cap (Broken(rs1, R) \cup K) = {}
    BY <1>2, <2>1, <1>9 DEF CascadeClosed, Cancelable, CanTransition, legalTransitions, Statuses
  <2>3. good(t) = new(t)
    <3>1. CASE rs1[t].policy = "fail_fast"
      <4>1. \A p \in new(t) : p \in R /\ p \notin K /\ rs1[p].status = "completed"
        BY <1>1, <2>2, <3>1 DEF Broken, Writes, ParentBroke, IsFinal
      <4>2. QED
        BY <4>1 DEF Satisfied
    <3>2. CASE rs1[t].policy # "fail_fast"
      BY <1>1, <3>2 DEF Satisfied, Policies, Record
    <3>3. QED
      BY <3>1, <3>2
  <2>4. new(t) = Parents(rs0[t]) \cap F
    BY <1>4
  <2>5. new(t) \subseteq OpenParents(rs0, t) /\ OpenParents(rs0, t) \ F = OpenParents(rs0, t) \ new(t)
    BY <1>6, <2>4 DEF OpenParents
  <2>6. IsFiniteSet(OpenParents(rs0, t))
    <3>1. OpenParents(rs0, t) \subseteq Parents(rs0[t])
      BY DEF OpenParents
    <3>2. QED
      BY <1>1, <3>1, ParentsFinite, FS_Subset
  <2>7. rs1[t].pendingParents = Cardinality(OpenParents(rs0, t))
    BY <1>1, <1>9, <2>1 DEF Settled, WaitsRightly
  <2>8. rs0[t].policy = "fail_fast" => \A p \in Parents(rs0[t]) : ~ParentBroke(rs2[p].status)
    <3>1. SUFFICES ASSUME rs0[t].policy = "fail_fast", NEW p \in Parents(rs0[t])
                   PROVE  ~ParentBroke(rs2[p].status)
      OBVIOUS
    <3>2. p \in D /\ ~ParentBroke(rs0[p].status)
      BY <1>1, <1>9, <3>1 DEF IsStore, Settled, WaitsRightly
    <3>3. p \notin K /\ p \notin Broken(rs1, R)
      BY <1>4, <2>1, <2>2, <3>1
    <3>4. CASE p \in R
      BY <1>3, <3>2, <3>3, <3>4 DEF Broken, Writes
    <3>5. CASE p \notin R
      BY <1>3, <1>7, <3>2, <3>3, <3>5 DEF IsFinal, ParentBroke
    <3>6. QED
      BY <3>4, <3>5
  <2> HIDE DEF new, good, K, F, rs2, D
  <2>9. left(t) = Cardinality(OpenParents(rs0, t) \ new(t))
        /\ (n(t) = 0 => new(t) = {})
        /\ (left(t) = 0 <=> OpenParents(rs0, t) \ new(t) = {})
        /\ left(t) \in Nat
    BY <2>3, <2>5, <2>6, <2>7, CountDown
  <2>10. QED
    BY <1>8, <2>5, <2>8, <2>9
<1>10. ASSUME NEW t \in D PROVE WaitsRightly(rs2, t)
  <2>1. SUFFICES ASSUME rs2[t].status = "blocked" PROVE WaitsRightly(rs2, t)
    BY DEF WaitsRightly
  <2>2. t \notin F /\ rs0[t].status = "blocked" /\ rs1[t].status = "blocked"
    BY <1>6, <1>7, <2>1 DEF IsFinal
  <2>3. rs2[t].pendingParents = left(t) /\ ~(n(t) > 0 /\ left(t) = 0)
    BY <1>3, <2>1, <2>2 DEF IsFinal
  <2>4. OpenParents(rs0, t) # {}
    BY <1>1, <2>2 DEF Settled, WaitsRightly
  <2>5. OpenParents(rs2, t) # {}
    BY <1>3, <1>9, <2>2, <2>3, <2>4
  <2>6. rs2[t].policy = rs0[t].policy
    BY <1>1, <1>3 DEF Writes
  <2>7. QED
    BY <1>4, <1>9, <2>2, <2>3, <2>5, <2>6 DEF WaitsRightly
<1>11. ASSUME NEW t \in D PROVE RunsRightly(rs2, t)
  <2>1. SUFFICES ASSUME rs2[t].status \notin {"blocked", "canceled"}, NEW p \in Parents(rs2[t])
                 PROVE  /\ p \in D /\ IsFinal(rs2[p].status)
                        /\ rs2[t].policy = "fail_fast" => rs2[p].status = "completed"
    BY <1>1 DEF RunsRightly
  <2>2. p \in D /\ p \in Parents(rs0[t]) /\ rs2[t].policy = rs0[t].policy /\ t \notin K
    BY <1>1, <1>3, <1>4, <2>1 DEF IsStore, Writes
  <2>3. CASE rs0[t].status \notin {"blocked", "canceled"}
    <3>1. IsFinal(rs0[p].status) /\ (rs0[t].policy = "fail_fast" => rs0[p].status = "completed")
      BY <1>1, <2>2, <2>3 DEF Settled, RunsRightly
    <3>2. p \notin F
      BY <1>6, <3>1
    <3>3. QED
      BY <1>7, <2>2, <3>1, <3>2
  <2>4. CASE rs0[t].status = "canceled"
    BY <1>6, <1>7, <2>1, <2>4 DEF IsFinal
  <2>5. CASE rs0[t].status = "blocked"
    <3>1. t \notin R
      BY <1>3, <2>1, <2>2, <2>5, ZenonT(60) DEF Writes, Live
    <3>2. rs1[t].status = "blocked" /\ n(t) > 0 /\ left(t) = 0
      BY <1>3, <1>7, <2>1, <2>2, <2>5, <3>1 DEF IsFinal
    <3>3. OpenParents(rs2, t) = {} /\ (rs0[t].policy = "fail_fast" => ~ParentBroke(rs2[p].status))
      BY <1>9, <2>2, <2>5, <3>1, <3>2
    <3>4. QED
      BY <2>1, <2>2, <3>3 DEF OpenParents, IsFinal, ParentBroke
  <2>6. QED
    BY <2>3, <2>4, <2>5
<1>12. QED
  BY <1>1, <1>5, <1>10, <1>11 DEF Settled

\* A step that writes live tasks with live statuses, and nothing final.
LEMMA LiveWriteSettled ==
  ASSUME NEW rs0, NEW rs1, IsStore(rs0), IsStore(rs1), Settled(rs0), Writes(rs0, rs1, {})
  PROVE  Settled(rs1)
<1>1. ASSUME NEW t \in DOMAIN rs0
      PROVE  /\ Parents(rs1[t]) = Parents(rs0[t])
             /\ Parents(rs0[t]) \subseteq DOMAIN rs0
             /\ IsFinal(rs1[t].status) <=> IsFinal(rs0[t].status)
             /\ IsFinal(rs0[t].status) => rs1[t].status = rs0[t].status
             /\ rs1[t].status = "blocked" <=> rs0[t].status = "blocked"
             /\ ParentBroke(rs1[t].status) <=> ParentBroke(rs0[t].status)
  BY DEF Writes, Parents, IsStore, IsFinal, Live, ParentBroke
<1>2. ASSUME NEW t \in DOMAIN rs0 PROVE OpenParents(rs1, t) = OpenParents(rs0, t)
  BY <1>1 DEF OpenParents
<1>3. ASSUME NEW t \in DOMAIN rs0 PROVE WaitsRightly(rs1, t)
  BY <1>1, <1>2 DEF WaitsRightly, Settled, Writes
<1>4. ASSUME NEW t \in DOMAIN rs0 PROVE RunsRightly(rs1, t)
  BY <1>1 DEF RunsRightly, Settled, Writes, IsFinal
<1>5. QED
  BY <1>3, <1>4 DEF Settled, Writes

\* The count DecideOnSubmit takes from a list of parents is the number of
\* distinct parents that are not final.
LEMMA NotFinalIsOpen ==
  ASSUME NEW rs, NEW deps \in Seq(Tasks)
  PROVE  /\ NotFinal(ParentStates(rs, deps)) = {p \in Range(deps) : ~IsFinal(rs[p].status)}
         /\ (\E i \in DOMAIN ParentStates(rs, deps) :
               ParentBroke(ParentStates(rs, deps)[i].status))
            <=> (\E p \in Range(deps) : ParentBroke(rs[p].status))
<1> DEFINE P == ParentStates(rs, deps)
<1>1. DOMAIN P = DOMAIN deps
      /\ \A i \in DOMAIN deps : P[i].id = deps[i] /\ P[i].status = rs[deps[i]].status
  BY DEF ParentStates
<1> HIDE DEF P
<1>2. NotFinal(P) = {p \in Range(deps) : ~IsFinal(rs[p].status)}
  BY <1>1 DEF NotFinal, Range
<1>3. (\E i \in DOMAIN P : ParentBroke(P[i].status))
      <=> (\E p \in Range(deps) : ParentBroke(rs[p].status))
  BY <1>1 DEF Range
<1>4. QED
  BY <1>2, <1>3 DEF P

\* In a settled graph the defensive pass changes nothing.
LEMMA RepairOfSettled ==
  ASSUME NEW rs, IsStore(rs), Settled(rs)
  PROVE  Repair(rs) = rs
<1> DEFINE B == {t \in DOMAIN rs : rs[t].status = "blocked" /\ Parents(rs[t]) \subseteq DOMAIN rs}
           dec(t) == DecideOnSubmit(ParentStates(rs, rs[t].dependsOn), rs[t].policy)
           upd(t) == [rs[t] EXCEPT !.status = dec(t).status,
                                   !.pendingParents = IF dec(t).status = "canceled" THEN @
                                                      ELSE dec(t).pendingParents]
           r1 == [t \in DOMAIN rs |-> IF t \notin B THEN rs[t] ELSE upd(t)]
<1>1. Repair(rs) = Propagate(r1, {t \in B : r1[t].status = "canceled"})
  BY Zenon DEF Repair
<1>2. ASSUME NEW t \in DOMAIN rs PROVE rs[t] \in Record
  BY DEF IsStore
<1>3. ASSUME NEW t \in B
      PROVE  dec(t).status = "blocked" /\ dec(t).pendingParents = rs[t].pendingParents
  <2>1. rs[t].dependsOn \in Seq(Tasks) /\ rs[t].policy \in Policies
    BY <1>2 DEF Record
  <2>2. NotFinal(ParentStates(rs, rs[t].dependsOn)) = OpenParents(rs, t)
    BY <2>1, NotFinalIsOpen DEF OpenParents, Parents
  <2>3. /\ OpenParents(rs, t) # {}
        /\ rs[t].pendingParents = Cardinality(OpenParents(rs, t))
        /\ rs[t].policy = "fail_fast" => \A p \in Parents(rs[t]) : ~ParentBroke(rs[p].status)
    BY DEF Settled, WaitsRightly
  <2>4. ~ (/\ rs[t].policy = "fail_fast"
           /\ \E i \in DOMAIN ParentStates(rs, rs[t].dependsOn) :
                ParentBroke(ParentStates(rs, rs[t].dependsOn)[i].status))
    BY <2>1, <2>3, NotFinalIsOpen DEF Parents
  <2>5. QED
    BY <2>2, <2>3, <2>4 DEF DecideOnSubmit, PendingCount
<1>4. ASSUME NEW t \in B PROVE upd(t) = rs[t]
  <2> HIDE DEF dec
  <2>1. rs[t].status = "blocked" /\ rs[t] \in Record
    BY <1>2
  <2>2. QED
    BY <1>3, <2>1 DEF Record
<1>5. rs = [t \in DOMAIN rs |-> rs[t]]
  BY DEF IsStore
<1>6. r1 = rs /\ {t \in B : r1[t].status = "canceled"} = {}
  <2> HIDE DEF upd
  <2>1. r1 = [t \in DOMAIN rs |-> rs[t]]
    BY <1>4
  <2>2. r1 = rs
    BY <1>5, <2>1
  <2> HIDE DEF r1
  <2>3. QED
    BY <2>2
<1> HIDE DEF r1, B
<1>7. Repair(rs) = Propagate(rs, {})
  BY <1>1, <1>6
<1>8. ASSUME NEW c \in DOMAIN rs PROVE Settle(rs[c], 0, FALSE) = rs[c]
  <2>1. /\ rs[c] \in Record
        /\ (rs[c].cancelRequested \/ (FALSE /\ rs[c].status = "running")) = rs[c].cancelRequested
        /\ (IF rs[c].pendingParents > 0 THEN rs[c].pendingParents - 0 ELSE 0) = rs[c].pendingParents
    BY <1>2 DEF Record
  <2>2. Settle(rs[c], 0, FALSE) = [rs[c] EXCEPT !.pendingParents = rs[c].pendingParents,
                                                !.status = rs[c].status,
                                                !.cancelRequested = rs[c].cancelRequested]
    <3>1. Settle(rs[c], 0, FALSE) =
            [rs[c] EXCEPT !.pendingParents = IF rs[c].pendingParents > 0
                                             THEN rs[c].pendingParents - 0 ELSE 0,
                          !.status = rs[c].status,
                          !.cancelRequested = @ \/ (FALSE /\ rs[c].status = "running")]
      BY <1>2 DEF Settle
    <3>2. QED
      BY <2>1, <3>1, Zenon
  <2>3. QED
    BY <2>1, <2>2 DEF Record
<1>9. Propagate(rs, {}) = rs
  <2>1. Cascade(rs, {}) = {}
    BY CascadeOfNone
  <2> DEFINE new(c) == Parents(rs[c]) \cap ({} \cup Cascade(rs, {}))
             good(c) == {p \in new(c) :
                           Satisfied(IF p \in Cascade(rs, {}) THEN "canceled" ELSE rs[p].status,
                                     rs[c].policy)}
             val(c) == IF c \in Cascade(rs, {}) THEN [ClearLease(rs[c]) EXCEPT !.status = "canceled"]
                       ELSE IF IsFinal(rs[c].status) THEN rs[c]
                       ELSE Settle(rs[c], Cardinality(good(c)), new(c) # good(c))
  <2>2. ASSUME NEW c \in DOMAIN rs PROVE val(c) = rs[c]
    <3>1. new(c) = {} /\ good(c) = {}
      BY <2>1
    <3>2. Cardinality(good(c)) = 0 /\ (new(c) # good(c)) = FALSE
      BY <3>1, FS_EmptySet
    <3>3. QED
      BY <1>8, <2>1, <3>2, Zenon
  <2>3. Propagate(rs, {}) = [c \in DOMAIN rs |-> val(c)]
    BY Zenon DEF Propagate
  <2> HIDE DEF val
  <2>4. QED
    BY <1>5, <2>2, <2>3
<1>10. QED
  BY <1>7, <1>9

-------------------------------------------------------------------------------
(* The invariant and the actions.                                          *)

DepInv == TypeOK /\ PendingParentsExact /\ DepsSatisfied

\* The three invariants together say that the store is typed and the graph settled.
LEMMA DepInvSettled ==
  /\ PendingParentsExact /\ DepsSatisfied <=> Settled(recs)
  BY DEF PendingParentsExact, DepsSatisfied, Settled, WaitsRightly, RunsRightly

\* Writing one record without touching its dependencies.
LEMMA OneWrite ==
  ASSUME NEW rs, IsStore(rs), NEW id \in DOMAIN rs, NEW r \in Record,
         r.dependsOn = rs[id].dependsOn
  PROVE  IsStore([rs EXCEPT ![id] = r]) /\ DOMAIN [rs EXCEPT ![id] = r] = DOMAIN rs
<1>1. ASSUME NEW t \in DOMAIN rs PROVE Parents([rs EXCEPT ![id] = r][t]) = Parents(rs[t])
  BY DEF Parents
<1>2. [rs EXCEPT ![id] = r] \in [DOMAIN rs -> Record]
  BY DEF IsStore
<1>3. QED
  BY <1>1, <1>2 DEF IsStore

\* Ack, Fail, FinishCanceled and Cancel: one task goes final and its children
\* are settled with it.
LEMMA GoFinalStep ==
  ASSUME IsStore(recs), Settled(recs), NEW id \in DOMAIN recs, NEW r \in Record,
         ~IsFinal(recs[id].status), IsFinal(r.status),
         r.status # "canceled" => recs[id].status \in Live,
         r.dependsOn = recs[id].dependsOn, r.policy = recs[id].policy,
         r.pendingParents = recs[id].pendingParents,
         GoFinal(id, r)
  PROVE  IsStore(recs') /\ Settled(recs') /\ DOMAIN recs' = DOMAIN recs
<1> DEFINE rs1 == [recs EXCEPT ![id] = r]
<1>1. IsStore(rs1) /\ DOMAIN rs1 = DOMAIN recs
  BY OneWrite
<1>2. Writes(recs, rs1, {id})
  BY <1>1 DEF Writes, IsFinal, ParentBroke
<1>3. recs' = Propagate(rs1, {id})
  BY DEF GoFinal
<1>4. DOMAIN recs' = DOMAIN recs
  BY <1>1, <1>3, PropagateType DEF IsStore
<1> HIDE DEF rs1
<1>5. QED
  BY <1>1, <1>2, <1>3, <1>4, PropagateSettles

\* Dequeue, a retry, Requeue, Heartbeat and Cancel of a running task: one live
\* task stays live.
LEMMA LiveStep ==
  ASSUME IsStore(recs), Settled(recs), NEW id \in DOMAIN recs, NEW r \in Record,
         recs[id].status \in Live, r.status \in Live,
         r.dependsOn = recs[id].dependsOn, r.policy = recs[id].policy,
         r.pendingParents = recs[id].pendingParents,
         recs' = [recs EXCEPT ![id] = r]
  PROVE  IsStore(recs') /\ Settled(recs') /\ DOMAIN recs' = DOMAIN recs
<1> DEFINE rs1 == [recs EXCEPT ![id] = r]
<1>1. IsStore(rs1) /\ DOMAIN rs1 = DOMAIN recs
  BY OneWrite
<1>2. Writes(recs, rs1, {})
  BY <1>1 DEF Writes
<1> HIDE DEF rs1
<1>3. Settled(rs1)
  BY <1>1, <1>2, LiveWriteSettled
<1>4. QED
  BY <1>1, <1>3 DEF rs1

\* Enqueue and Replay: a new record whose status and counter agree with its
\* parents joins a settled graph.
LEMMA PutStep ==
  ASSUME IsStore(recs), Settled(recs), NEW id \in Tasks, id \notin DOMAIN recs,
         NEW r \in Record, Parents(r) \subseteq DOMAIN recs,
         r.status = "blocked" =>
           LET open == {p \in Parents(r) : ~IsFinal(recs[p].status)}
           IN  /\ r.pendingParents = Cardinality(open)
               /\ open # {}
               /\ r.policy = "fail_fast" => \A p \in Parents(r) : ~ParentBroke(recs[p].status),
         r.status \notin {"blocked", "canceled"} =>
           \A p \in Parents(r) : /\ IsFinal(recs[p].status)
                                 /\ r.policy = "fail_fast" => recs[p].status = "completed",
         recs' = Put(id, r)
  PROVE  IsStore(recs') /\ Settled(recs') /\ DOMAIN recs' = DOMAIN recs \cup {id}
<1>1. /\ DOMAIN recs' = DOMAIN recs \cup {id}
      /\ recs'[id] = r
      /\ \A t \in DOMAIN recs : recs'[t] = recs[t]
  BY DEF Put
<1>2. DOMAIN recs \subseteq Tasks /\ \A t \in DOMAIN recs : recs[t] \in Record
  BY DEF IsStore
<1>3. recs' \in [DOMAIN recs \cup {id} -> Record]
  BY <1>1, <1>2 DEF Put
<1>4. \A t \in DOMAIN recs : Parents(recs[t]) \subseteq DOMAIN recs
  BY DEF IsStore
<1>5. IsStore(recs')
  BY <1>1, <1>2, <1>3, <1>4 DEF IsStore
<1>6. ASSUME NEW t \in DOMAIN recs PROVE OpenParents(recs', t) = OpenParents(recs, t)
  BY <1>1, <1>4 DEF OpenParents
<1>7. OpenParents(recs', id) = {p \in Parents(r) : ~IsFinal(recs[p].status)}
  BY <1>1 DEF OpenParents
<1>8. ASSUME NEW t \in DOMAIN recs' PROVE WaitsRightly(recs', t) /\ RunsRightly(recs', t)
  <2>1. CASE t \in DOMAIN recs
    BY <1>1, <1>4, <1>6, <2>1 DEF Settled, WaitsRightly, RunsRightly
  <2>2. CASE t = id
    BY <1>1, <1>7, <2>2 DEF WaitsRightly, RunsRightly
  <2>3. QED
    BY <1>1, <2>1, <2>2
<1>9. QED
  BY <1>1, <1>5, <1>8 DEF Settled

\* What DecideOnSubmit decides, in terms of the set of parents.
LEMMA DecideOnSubmitMeaning ==
  ASSUME NEW rs, NEW deps \in Seq(Tasks), NEW policy \in Policies
  PROVE  LET dec == DecideOnSubmit(ParentStates(rs, deps), policy)
             open == {p \in Range(deps) : ~IsFinal(rs[p].status)}
             broken == \E p \in Range(deps) : ParentBroke(rs[p].status)
         IN  /\ dec.status \in {"blocked", "pending", "canceled"}
             /\ dec.pendingParents \in Nat
             /\ dec.status = "blocked" =>
                  /\ dec.pendingParents = Cardinality(open)
                  /\ open # {}
                  /\ policy = "fail_fast" => ~broken
             /\ dec.status = "pending" => open = {} /\ (policy = "fail_fast" => ~broken)
<1> DEFINE open == {p \in Range(deps) : ~IsFinal(rs[p].status)}
           broken == \E p \in Range(deps) : ParentBroke(rs[p].status)
           dec == DecideOnSubmit(ParentStates(rs, deps), policy)
<1>1. NotFinal(ParentStates(rs, deps)) = open
      /\ ((\E i \in DOMAIN ParentStates(rs, deps) :
             ParentBroke(ParentStates(rs, deps)[i].status)) <=> broken)
  BY NotFinalIsOpen
<1>2. Cardinality(open) \in Nat
  <2>1. open \subseteq Tasks
    BY DEF Range
  <2>2. QED
    BY <2>1, FS_Subset, FS_CardinalityType, ConstantsAssumption
<1> HIDE DEF open, broken
<1>3. dec = IF policy = "fail_fast" /\ broken THEN [status |-> "canceled", pendingParents |-> 0]
            ELSE IF open # {} THEN [status |-> "blocked", pendingParents |-> Cardinality(open)]
            ELSE [status |-> "pending", pendingParents |-> 0]
  BY <1>1 DEF DecideOnSubmit, PendingCount
<1> HIDE DEF dec
<1>4. /\ dec.status \in {"blocked", "pending", "canceled"}
      /\ dec.pendingParents \in Nat
      /\ dec.status = "blocked" =>
           /\ dec.pendingParents = Cardinality(open)
           /\ open # {}
           /\ policy = "fail_fast" => ~broken
      /\ dec.status = "pending" => open = {} /\ (policy = "fail_fast" => ~broken)
  BY <1>2, <1>3
<1>5. QED
  BY <1>4 DEF dec, open, broken

\* Linking a known id into the chain of a key.
LEMMA LinkType ==
  ASSUME NEW S, NEW T, S \subseteq T, chains \in [Keys -> Seq(S)],
         NEW key \in Keys \cup {NoKey}, NEW id \in T
  PROVE  Link(key, id) \in [Keys -> Seq(T)]
<1>1. \A k \in Keys : chains[k] \in Seq(T)
  OBVIOUS
<1>2. \A k \in Keys : Append(chains[k], id) \in Seq(T)
  BY <1>1
<1>3. CASE key = NoKey
  BY <1>1, <1>3 DEF Link
<1>4. CASE key # NoKey
  <2>1. Link(key, id) = [chains EXCEPT ![key] = Append(chains[key], id)]
    BY <1>4 DEF Link
  <2>2. key \in Keys
    BY <1>4
  <2>3. QED
    BY <1>1, <1>2, <2>1, <2>2
<1>5. QED
  BY <1>3, <1>4

\* What a submitter asks for is well formed.
LEMMA SubmissionsTyped ==
  ASSUME NEW s \in Submissions
  PROVE  s.deps \in Seq(Tasks) /\ s.policy \in Policies /\ s.key \in Keys \cup {NoKey}
BY ConstantsAssumption

\* Enqueue: the decision on the parents' states fits the settled graph.
LEMMA EnqueueStep ==
  ASSUME TypeOK, Settled(recs),
         NEW id \in Tasks, NEW deps \in Seq(Tasks), NEW policy \in Policies,
         NEW key \in Keys \cup {NoKey}, NEW queue \in Queues,
         NEW maxRetry \in MaxRetries, NEW delay \in Delays,
         Enqueue(id, deps, policy, key, queue, maxRetry, delay)
  PROVE  TypeOK' /\ Settled(recs')
<1> DEFINE dec == DecideOnSubmit(ParentStates(recs, deps), policy)
           r == NewRecord(dec, deps, policy, key, NoID, queue, maxRetry, now + delay)
<1>1. /\ id \notin DOMAIN recs
      /\ Range(deps) \subseteq DOMAIN recs
      /\ recs' = Put(id, r)
      /\ chains' = Link(key, id)
      /\ UNCHANGED <<replayed, now, lastToken, closed>>
  BY DEF Enqueue, IsFreshID
<1>2. deps \in Seq(Tasks) /\ maxRetry \in Nat /\ now + delay \in Nat
  BY ConstantsAssumption DEF TypeOK
<1>3. /\ dec.status \in {"blocked", "pending", "canceled"}
      /\ dec.pendingParents \in Nat
      /\ dec.status = "blocked" =>
           /\ dec.pendingParents = Cardinality({p \in Range(deps) : ~IsFinal(recs[p].status)})
           /\ {p \in Range(deps) : ~IsFinal(recs[p].status)} # {}
           /\ policy = "fail_fast" => ~\E p \in Range(deps) : ParentBroke(recs[p].status)
      /\ dec.status = "pending" =>
           /\ {p \in Range(deps) : ~IsFinal(recs[p].status)} = {}
           /\ policy = "fail_fast" => ~\E p \in Range(deps) : ParentBroke(recs[p].status)
  BY <1>2, DecideOnSubmitMeaning
<1> HIDE DEF dec
<1>4. /\ r \in Record
      /\ r.status = dec.status /\ r.pendingParents = dec.pendingParents
      /\ r.dependsOn = deps /\ r.policy = policy
  BY <1>2, <1>3 DEF NewRecord, Record, NoToken, Statuses
<1>5. Parents(r) = Range(deps)
  BY <1>4 DEF Parents
<1> HIDE DEF r
<1>6. IsStore(recs') /\ Settled(recs') /\ DOMAIN recs' = DOMAIN recs \cup {id}
  <2>1. r.status = "blocked" =>
          /\ r.pendingParents = Cardinality({p \in Parents(r) : ~IsFinal(recs[p].status)})
          /\ {p \in Parents(r) : ~IsFinal(recs[p].status)} # {}
          /\ r.policy = "fail_fast" => \A p \in Parents(r) : ~ParentBroke(recs[p].status)
    BY <1>3, <1>4, <1>5
  <2>2. r.status \notin {"blocked", "canceled"} =>
          \A p \in Parents(r) : /\ IsFinal(recs[p].status)
                                /\ r.policy = "fail_fast" => recs[p].status = "completed"
    BY <1>3, <1>4, <1>5 DEF IsFinal, ParentBroke
  <2>3. QED
    BY <1>1, <1>4, <1>5, <2>1, <2>2, PutStep DEF TypeOK
<1>7. chains' \in [Keys -> Seq(DOMAIN recs')]
  BY <1>1, <1>6, LinkType DEF TypeOK
<1>8. QED
  BY <1>1, <1>6, <1>7 DEF TypeOK

\* Replay: the new execution has no parents.
LEMMA ReplayStep ==
  ASSUME TypeOK, Settled(recs), NEW id \in Tasks, NEW target, NEW allowCompleted,
         ReplayTarget(id, target, allowCompleted)
  PROVE  TypeOK' /\ Settled(recs')
<1> DEFINE dec == [status |-> "pending", pendingParents |-> 0]
           r == NewRecord(dec, <<>>, recs[target].policy, recs[target].key, target,
                          recs[target].queue, recs[target].maxRetry, now)
<1>1. /\ id \notin DOMAIN recs /\ target \in DOMAIN recs
      /\ recs' = Put(id, r)
      /\ chains' = Link(recs[target].key, id)
      /\ replayed' = replayed \cup {target}
      /\ UNCHANGED <<now, lastToken, closed>>
  BY DEF ReplayTarget, IsFreshID
<1>2. recs[target] \in Record /\ target \in Tasks
  BY <1>1 DEF TypeOK, IsStore
<1>3. /\ r \in Record
      /\ r.status = "pending" /\ r.dependsOn = <<>>
  <2>1. dec.status \in Statuses /\ dec.pendingParents \in Nat /\ <<>> \in Seq(Tasks)
    BY DEF Statuses
  <2>2. /\ recs[target].policy \in Policies /\ recs[target].key \in Keys \cup {NoKey}
        /\ recs[target].queue \in Queues /\ recs[target].maxRetry \in Nat /\ now \in Nat
    BY <1>2 DEF Record, TypeOK
  <2>3. QED
    BY <1>2, <2>1, <2>2 DEF NewRecord, Record, NoToken
<1>4. Parents(r) = {}
  BY <1>3 DEF Parents, Range
<1> HIDE DEF r
<1>5. IsStore(recs') /\ Settled(recs') /\ DOMAIN recs' = DOMAIN recs \cup {id}
  BY <1>1, <1>3, <1>4, PutStep DEF TypeOK
<1>6. chains' \in [Keys -> Seq(DOMAIN recs')]
  <2>1. recs[target].key \in Keys \cup {NoKey}
    BY <1>2 DEF Record
  <2>2. QED
    BY <1>1, <1>5, <2>1, LinkType DEF TypeOK
<1>7. QED
  BY <1>1, <1>5, <1>6 DEF TypeOK

\* When the store keeps its domain and only the store, the clock and the token
\* counter move, the rest of TypeOK is untouched.
LEMMA FrameType ==
  ASSUME TypeOK, IsStore(recs'), DOMAIN recs' = DOMAIN recs,
         UNCHANGED <<chains, replayed, closed>>, now' \in Nat, lastToken' \in Nat
  PROVE  TypeOK'
  BY DEF TypeOK

\* The deadline of a lease taken or renewed now.
LEMMA LeaseEnds ==
  ASSUME TypeOK, NEW r \in Record
  PROVE  now + LeaseTTL[r.queue] \in Nat
<1>1. r.queue \in Queues
  BY DEF Record
<1>2. LeaseTTL[r.queue] \in Nat
  BY <1>1, ConstantsAssumption
<1>3. QED
  BY <1>2 DEF TypeOK

\* Dequeue: a queued task becomes running, no dependency is touched.
LEMMA DequeueStep ==
  ASSUME TypeOK, Settled(recs), NEW Q, Dequeue(Q)
  PROVE  TypeOK' /\ Settled(recs')
<1>1. PICK t \in Ready(Q) : recs' = [recs EXCEPT ![t] = Claimed(recs[t])]
  BY DEF Dequeue
<1>2. t \in DOMAIN recs /\ recs[t].status \in Live
  BY <1>1 DEF Ready, Queued, Live
<1>3. recs[t] \in Record
  BY <1>2 DEF TypeOK, IsStore
<1> DEFINE r == Claimed(recs[t])
           token == lastToken + 1
           until == now + LeaseTTL[recs[t].queue]
<1>4. /\ r \in Record /\ r.status \in Live
      /\ r.dependsOn = recs[t].dependsOn /\ r.policy = recs[t].policy
      /\ r.pendingParents = recs[t].pendingParents
  <2>1. token \in Nat
    BY DEF TypeOK
  <2>2. until \in Nat
    BY <1>3, LeaseEnds
  <2>3. r = [recs[t] EXCEPT !.status = "running", !.leaseToken = token, !.leaseUntil = until]
    BY DEF Claimed
  <2> HIDE DEF r, token, until
  <2>4. QED
    BY <1>3, <2>1, <2>2, <2>3 DEF Record, Statuses, Live
<1> HIDE DEF r
<1>5. IsStore(recs') /\ Settled(recs') /\ DOMAIN recs' = DOMAIN recs
  BY <1>1, <1>2, <1>4, LiveStep DEF TypeOK, r
<1>6. QED
  BY <1>5, FrameType DEF Dequeue, TypeOK

\* Ack and FinishCanceled.
LEMMA EndStep ==
  ASSUME TypeOK, Settled(recs), NEW id, NEW token, HoldsLease(id, token),
         NEW s \in {"completed", "failed", "canceled"},
         NEW r0 \in Record,
         r0.dependsOn = recs[id].dependsOn, r0.policy = recs[id].policy,
         r0.pendingParents = recs[id].pendingParents,
         GoFinal(id, Finished(r0, s)),
         UNCHANGED <<chains, replayed, now, lastToken, closed>>
  PROVE  TypeOK' /\ Settled(recs')
<1> DEFINE r == Finished(r0, s)
<1>1. id \in DOMAIN recs /\ recs[id].status = "running"
  BY DEF HoldsLease
<1>2. r \in Record
  BY StatusWritesType DEF Statuses
<1>3. /\ r.status = s /\ r.dependsOn = r0.dependsOn /\ r.policy = r0.policy
      /\ r.pendingParents = r0.pendingParents
  BY DEF Finished, ClearLease, Record
<1> HIDE DEF r
<1>4. IsStore(recs') /\ Settled(recs') /\ DOMAIN recs' = DOMAIN recs
  BY <1>1, <1>2, <1>3, GoFinalStep DEF TypeOK, IsFinal, Live, r
<1>5. QED
  BY <1>4, FrameType DEF TypeOK

\* The other writes of a lease holder, and the flag Cancel sets.
LEMMA StayStep ==
  ASSUME TypeOK, Settled(recs), NEW id \in DOMAIN recs, recs[id].status \in Live,
         NEW r \in Record, r.status \in Live,
         r.dependsOn = recs[id].dependsOn, r.policy = recs[id].policy,
         r.pendingParents = recs[id].pendingParents,
         recs' = [recs EXCEPT ![id] = r],
         UNCHANGED <<chains, replayed, now, lastToken, closed>>
  PROVE  TypeOK' /\ Settled(recs')
  BY LiveStep, FrameType DEF TypeOK

\* Fail: the task retries, or ends and its children are settled.
LEMMA FailStep ==
  ASSUME TypeOK, Settled(recs), NEW id, NEW token, NEW kind \in FailKinds, NEW delay \in Delays,
         Fail(id, token, kind, delay)
  PROVE  TypeOK' /\ Settled(recs')
<1> DEFINE r == Counted(recs[id], kind)
           q == [ClearLease(r) EXCEPT !.status = "retrying", !.runAt = now + delay]
<1>1. HoldsLease(id, token) /\ UNCHANGED <<chains, replayed, now, lastToken, closed>>
  BY DEF Fail
<1>2. id \in DOMAIN recs /\ recs[id].status = "running" /\ recs[id] \in Record
  BY <1>1 DEF HoldsLease, TypeOK, IsStore
<1>3. /\ r \in Record /\ r.dependsOn = recs[id].dependsOn /\ r.policy = recs[id].policy
      /\ r.pendingParents = recs[id].pendingParents
  <2> DEFINE a == IF kind = "business" THEN recs[id].attempts + 1 ELSE recs[id].attempts
             c == IF kind = "throttled" THEN recs[id].throttled + 1 ELSE recs[id].throttled
  <2>1. a \in Nat /\ c \in Nat
    BY <1>2 DEF Record
  <2>2. r = [recs[id] EXCEPT !.attempts = a, !.throttled = c]
    BY <1>2 DEF Counted
  <2> HIDE DEF a, c, r
  <2>3. QED
    BY <1>2, <2>1, <2>2 DEF Record
<1>4. now + delay \in Nat
  BY ConstantsAssumption DEF TypeOK
<1> HIDE DEF r
<1>5. CASE Exhausted(r, kind)
  <2>1. GoFinal(id, Finished(r, "failed"))
    BY <1>5 DEF Fail, r
  <2>2. QED
    BY <1>1, <1>3, <2>1, EndStep
<1>6. CASE ~Exhausted(r, kind)
  <2>1. recs' = [recs EXCEPT ![id] = q]
    BY <1>6 DEF Fail, r
  <2>2. /\ q \in Record /\ q.status = "retrying" /\ q.dependsOn = r.dependsOn
        /\ q.policy = r.policy /\ q.pendingParents = r.pendingParents
    BY <1>3, <1>4 DEF ClearLease, Record, Statuses, NoToken
  <2> HIDE DEF q
  <2>3. QED
    BY <1>1, <1>2, <1>3, <2>1, <2>2, StayStep DEF Live
<1>7. QED
  BY <1>5, <1>6

\* Requeue: a running task goes back to its queue.
LEMMA RequeueStep ==
  ASSUME TypeOK, Settled(recs), NEW id, NEW token, Requeue(id, token)
  PROVE  TypeOK' /\ Settled(recs')
<1> DEFINE r == Returned(recs[id])
<1>1. /\ id \in DOMAIN recs /\ recs[id].status = "running" /\ recs[id] \in Record
      /\ recs' = [recs EXCEPT ![id] = r]
      /\ UNCHANGED <<chains, replayed, now, lastToken, closed>>
  BY DEF Requeue, HoldsLease, TypeOK, IsStore
<1>2. /\ r \in Record /\ r.status = "pending" /\ r.dependsOn = recs[id].dependsOn
      /\ r.policy = recs[id].policy /\ r.pendingParents = recs[id].pendingParents
  BY <1>1 DEF Returned, ClearLease, Record, Statuses, NoToken
<1> HIDE DEF r
<1>3. QED
  BY <1>1, <1>2, StayStep DEF Live

\* Heartbeat: only the deadline of the lease moves.
LEMMA HeartbeatStep ==
  ASSUME TypeOK, Settled(recs), NEW id, NEW token, Heartbeat(id, token)
  PROVE  TypeOK' /\ Settled(recs')
<1> DEFINE until == now + LeaseTTL[recs[id].queue]
           r == [recs[id] EXCEPT !.leaseUntil = until]
<1>1. /\ id \in DOMAIN recs /\ recs[id].status = "running" /\ recs[id] \in Record
      /\ UNCHANGED <<chains, replayed, now, lastToken, closed>>
  BY DEF Heartbeat, HoldsLease, TypeOK, IsStore
<1>2. recs' = [recs EXCEPT ![id] = r]
  BY <1>1 DEF Heartbeat
<1>3. until \in Nat
  BY <1>1, LeaseEnds
<1> HIDE DEF until
<1>4. /\ r \in Record /\ r.status = "running" /\ r.dependsOn = recs[id].dependsOn
      /\ r.policy = recs[id].policy /\ r.pendingParents = recs[id].pendingParents
  BY <1>1, <1>3 DEF Record
<1> HIDE DEF r
<1>5. QED
  BY <1>1, <1>2, <1>4, StayStep DEF Live

\* Cancel: a running task is flagged, any other live one ends.
LEMMA CancelStep ==
  ASSUME TypeOK, Settled(recs), NEW id, Cancel(id)
  PROVE  TypeOK' /\ Settled(recs')
<1>1. /\ id \in DOMAIN recs /\ recs[id] \in Record /\ ~IsFinal(recs[id].status)
      /\ UNCHANGED <<chains, replayed, now, lastToken, closed>>
  BY DEF Cancel, TypeOK, IsStore
<1>2. CASE recs[id].status = "running"
  <2> DEFINE r == [recs[id] EXCEPT !.cancelRequested = TRUE]
  <2>1. recs' = [recs EXCEPT ![id] = r]
    BY <1>1, <1>2 DEF Cancel
  <2>2. /\ r \in Record /\ r.status = "running" /\ r.dependsOn = recs[id].dependsOn
        /\ r.policy = recs[id].policy /\ r.pendingParents = recs[id].pendingParents
    BY <1>1, <1>2 DEF Record
  <2> HIDE DEF r
  <2>3. QED
    BY <1>1, <1>2, <2>1, <2>2, StayStep DEF Live
<1>3. CASE recs[id].status # "running"
  <2> DEFINE r == [ClearLease(recs[id]) EXCEPT !.status = "canceled"]
  <2>1. GoFinal(id, r)
    BY <1>3 DEF Cancel
  <2>2. /\ r \in Record /\ r.status = "canceled" /\ r.dependsOn = recs[id].dependsOn
        /\ r.policy = recs[id].policy /\ r.pendingParents = recs[id].pendingParents
    BY <1>1 DEF ClearLease, Record, Statuses, NoToken
  <2> HIDE DEF r
  <2>3. IsStore(recs') /\ Settled(recs') /\ DOMAIN recs' = DOMAIN recs
    BY <1>1, <2>1, <2>2, GoFinalStep DEF TypeOK, IsFinal
  <2>4. QED
    BY <1>1, <2>3, FrameType DEF TypeOK
<1>4. QED
  BY <1>2, <1>3

\* One expired record, taken back.
LEMMA ReapedFields ==
  ASSUME NEW r \in Record
  PROVE  LET s == Reaped(r)
         IN  /\ s \in Record
             /\ s.dependsOn = r.dependsOn /\ s.policy = r.policy /\ s.queue = r.queue
             /\ s.pendingParents = r.pendingParents
             /\ s.status \in {"canceled", "failed", "pending"}
<1> DEFINE st == IF r.leaseLost + 1 >= LeaseLostMax THEN "failed" ELSE "pending"
           lost == Finished(r, st).leaseLost + 1
<1>1. CASE r.cancelRequested
  <2>1. Reaped(r) = Finished(r, "canceled")
    BY <1>1 DEF Reaped
  <2>2. /\ Finished(r, "canceled") \in Record /\ Finished(r, "canceled").status = "canceled"
        /\ Finished(r, "canceled").dependsOn = r.dependsOn
        /\ Finished(r, "canceled").policy = r.policy
        /\ Finished(r, "canceled").queue = r.queue
        /\ Finished(r, "canceled").pendingParents = r.pendingParents
    BY DEF Finished, ClearLease, Record, Statuses, NoToken
  <2>3. QED
    BY <2>1, <2>2
<1>2. CASE ~r.cancelRequested
  <2>1. Reaped(r) = [Finished(r, st) EXCEPT !.leaseLost = lost]
    BY <1>2 DEF Reaped
  <2>2. st \in {"failed", "pending"}
    OBVIOUS
  <2> HIDE DEF st
  <2>3. /\ Finished(r, st) \in Record /\ Finished(r, st).status = st
        /\ Finished(r, st).dependsOn = r.dependsOn /\ Finished(r, st).policy = r.policy
        /\ Finished(r, st).queue = r.queue
        /\ Finished(r, st).pendingParents = r.pendingParents
    BY <2>2 DEF Finished, ClearLease, Record, Statuses, NoToken
  <2>4. lost \in Nat
    BY <2>3, SMTT(60) DEF Record
  <2> HIDE DEF lost
  <2> DEFINE f == Finished(r, st)
             g == [f EXCEPT !.leaseLost = lost]
  <2>5. f \in Record
    BY <2>3
  <2>6. /\ g \in Record /\ g.dependsOn = f.dependsOn /\ g.policy = f.policy
        /\ g.queue = f.queue /\ g.pendingParents = f.pendingParents /\ g.status = f.status
    <3> HIDE DEF f
    <3>1. QED
      BY <2>4, <2>5 DEF Record
  <2>7. QED
    BY <2>1, <2>2, <2>3, <2>6
<1>3. QED
  BY <1>1, <1>2

\* The records after the leases of the tasks of X were taken back.
TakenBack(X) == [t \in DOMAIN recs |-> IF t \in X THEN Reaped(recs[t]) ELSE recs[t]]

\* A reaper writes its tasks at once and those that end are propagated together.
LEMMA TakenBackWrites ==
  ASSUME TypeOK, NEW X, X \subseteq {t \in DOMAIN recs : recs[t].status = "running"}
  PROVE  LET r1 == TakenBack(X)
         IN  /\ IsStore(r1) /\ Writes(recs, r1, {t \in X : IsFinal(r1[t].status)})
             /\ \A t \in DOMAIN recs :
                  IF t \in X THEN /\ r1[t].status \in {"canceled", "failed", "pending"}
                                  /\ r1[t].queue = recs[t].queue
                             ELSE r1[t] = recs[t]
<1> DEFINE r1 == TakenBack(X)
           R == {t \in X : IsFinal(r1[t].status)}
<1>1. r1 = [t \in DOMAIN recs |-> IF t \in X THEN Reaped(recs[t]) ELSE recs[t]]
  BY DEF TakenBack
<1>2. ASSUME NEW t \in DOMAIN recs
      PROVE  /\ recs[t] \in Record /\ r1[t] \in Record
             /\ r1[t].dependsOn = recs[t].dependsOn /\ r1[t].policy = recs[t].policy
             /\ r1[t].pendingParents = recs[t].pendingParents
             /\ r1[t].queue = recs[t].queue
             /\ t \in X => /\ recs[t].status = "running"
                           /\ r1[t].status \in {"canceled", "failed", "pending"}
             /\ t \notin X => r1[t] = recs[t]
  <2>1. recs[t] \in Record
    BY DEF TypeOK, IsStore
  <2>2. CASE t \in X
    BY <1>1, <2>1, <2>2, ReapedFields
  <2>3. CASE t \notin X
    BY <1>1, <2>1, <2>3
  <2>4. QED
    BY <2>2, <2>3
<1>3. r1 \in [DOMAIN recs -> Record] /\ DOMAIN r1 = DOMAIN recs
  <2>1. \A t \in DOMAIN recs : r1[t] \in Record
    BY <1>2
  <2>2. QED
    BY <1>1, <2>1
<1>4. R \subseteq DOMAIN recs /\ R \subseteq X /\ \A t \in X : t \in R <=> IsFinal(r1[t].status)
  OBVIOUS
<1> HIDE DEF r1, R
<1>5. IsStore(r1)
  <2>1. \A t \in DOMAIN recs : Parents(r1[t]) = Parents(recs[t])
    BY <1>2 DEF Parents
  <2>2. QED
    BY <1>3, <2>1 DEF IsStore, TypeOK
<1>6. Writes(recs, r1, R)
  <2>1. \A t \in DOMAIN recs \ R : \/ r1[t].status = recs[t].status
                                   \/ r1[t].status \in Live /\ recs[t].status \in Live
    BY <1>2, <1>4 DEF Live, IsFinal
  <2>2. \A t \in R : ParentBroke(r1[t].status)
    BY <1>2, <1>4 DEF ParentBroke, IsFinal
  <2>3. \A t \in R : /\ ~IsFinal(recs[t].status) /\ IsFinal(r1[t].status)
                     /\ r1[t].status # "canceled" => recs[t].status \in Live
    BY <1>2, <1>4 DEF IsFinal, Live
  <2>4. QED
    BY <1>2, <1>3, <1>4, <2>1, <2>2, <2>3 DEF Writes
<1>7. QED
  BY <1>2, <1>5, <1>6 DEF r1, R

\* ReapExpired, first pass: the tasks whose lease is overdue.
LEMMA ReapWrites ==
  ASSUME TypeOK
  PROVE  LET E == {t \in DOMAIN recs : IsExpired(recs[t])}
             r1 == TakenBack(E)
             R == {t \in E : IsFinal(r1[t].status)}
         IN  /\ ReapLeases(recs) = Propagate(r1, R)
             /\ E \subseteq {t \in DOMAIN recs : recs[t].status = "running"}
             /\ IsStore(r1) /\ Writes(recs, r1, R)
<1> DEFINE E == {t \in DOMAIN recs : IsExpired(recs[t])}
           r1 == TakenBack(E)
           R == {t \in E : IsFinal(r1[t].status)}
<1>1. ReapLeases(recs) = Propagate(r1, R)
  BY Zenon DEF ReapLeases, TakenBack
<1>2. E \subseteq {t \in DOMAIN recs : recs[t].status = "running"}
  BY DEF IsExpired
<1> HIDE DEF E
<1>3. IsStore(r1) /\ Writes(recs, r1, R)
  BY <1>2, TakenBackWrites
<1>4. QED
  BY <1>1, <1>2, <1>3 DEF E

\* So the first pass leaves the graph settled.
LEMMA ReapLeasesSettles ==
  ASSUME TypeOK, Settled(recs)
  PROVE  /\ IsStore(ReapLeases(recs)) /\ Settled(ReapLeases(recs))
         /\ DOMAIN ReapLeases(recs) = DOMAIN recs
<1>1. PICK r1, R : ReapLeases(recs) = Propagate(r1, R) /\ IsStore(r1) /\ Writes(recs, r1, R)
  BY ReapWrites
<1>2. DOMAIN Propagate(r1, R) = DOMAIN recs
  BY <1>1, PropagateType DEF IsStore, Writes
<1>3. QED
  BY <1>1, <1>2, PropagateSettles DEF TypeOK

\* ReapExpired: the repair pass changes nothing after it.
LEMMA ReapStep ==
  ASSUME TypeOK, Settled(recs), ReapExpired
  PROVE  TypeOK' /\ Settled(recs') /\ recs' = ReapLeases(recs)
<1>1. recs' = ReapLeases(recs)
  BY ReapLeasesSettles, RepairOfSettled DEF ReapExpired
<1>2. IsStore(recs') /\ Settled(recs') /\ DOMAIN recs' = DOMAIN recs
  BY <1>1, ReapLeasesSettles
<1>3. QED
  BY <1>1, <1>2, FrameType DEF ReapExpired, TypeOK

\* Every step of the broker keeps the graph settled.
LEMMA NextStep ==
  ASSUME TypeOK, Settled(recs), [Next]_vars
  PROVE  TypeOK' /\ Settled(recs')
<1>1. CASE Submit
  <2>1. PICK id \in Tasks, s \in Submissions, queue \in Queues, maxRetry \in MaxRetries, delay \in Delays :
          Enqueue(id, s.deps, s.policy, s.key, queue, maxRetry, delay)
    BY <1>1 DEF Submit
  <2>2. s.deps \in Seq(Tasks) /\ s.policy \in Policies /\ s.key \in Keys \cup {NoKey}
    BY SubmissionsTyped
  <2>3. QED
    BY <2>1, <2>2, EnqueueStep
<1>2. ASSUME NEW Q, Dequeue(Q) PROVE TypeOK' /\ Settled(recs')
  BY <1>2, DequeueStep
<1>3. CASE Report
  <2>1. PICK id \in Tasks, token \in 1..lastToken :
          \/ Ack(id, token)
          \/ \E kind \in FailKinds, delay \in Delays : Fail(id, token, kind, delay)
          \/ FinishCanceled(id, token)
          \/ Requeue(id, token)
          \/ Heartbeat(id, token)
    BY <1>3 DEF Report
  <2>2. CASE Ack(id, token)
    <3>1. HoldsLease(id, token) /\ recs[id] \in Record
      BY <2>2 DEF Ack, HoldsLease, TypeOK, IsStore
    <3>2. QED
      BY <2>2, <3>1, EndStep DEF Ack
  <2>3. CASE \E kind \in FailKinds, delay \in Delays : Fail(id, token, kind, delay)
    BY <2>3, FailStep
  <2>4. CASE FinishCanceled(id, token)
    <3>1. HoldsLease(id, token) /\ recs[id] \in Record
      BY <2>4 DEF FinishCanceled, HoldsLease, TypeOK, IsStore
    <3>2. QED
      BY <2>4, <3>1, EndStep DEF FinishCanceled
  <2>5. CASE Requeue(id, token)
    BY <2>5, RequeueStep
  <2>6. CASE Heartbeat(id, token)
    BY <2>6, HeartbeatStep
  <2>7. QED
    BY <2>1, <2>2, <2>3, <2>4, <2>5, <2>6
<1>4. ASSUME NEW id \in Tasks, Cancel(id) PROVE TypeOK' /\ Settled(recs')
  BY <1>4, CancelStep
<1>5. CASE Replay
  BY <1>5, ReplayStep DEF Replay, ReplayByID, ReplayByKey
<1>6. CASE ReapExpired
  BY <1>6, ReapStep
<1>7. CASE Close
  BY <1>7 DEF Close, TypeOK
<1>8. CASE Tick
  <2>1. /\ now' \in Nat /\ UNCHANGED <<recs, chains, replayed, lastToken, closed>>
    BY <1>8 DEF Tick, TypeOK
  <2>2. QED
    BY <2>1, FrameType DEF TypeOK
<1>9. CASE UNCHANGED vars
  BY <1>9 DEF vars, TypeOK
<1>10. QED
  BY <1>1, <1>2, <1>3, <1>4, <1>5, <1>6, <1>7, <1>8, <1>9 DEF Next

\* In every reachable state, for every number of tasks, keys and queues: the
\* store is well typed, no wake-up is lost (the counter of a blocked task is
\* exact) and no task runs before its parents allow it.
THEOREM DependencySafety == Spec => [](TypeOK /\ PendingParentsExact /\ DepsSatisfied)
<1>1. Init => DepInv
  <2>1. SUFFICES ASSUME Init PROVE DepInv
    OBVIOUS
  <2>2. DOMAIN recs = {} /\ recs \in [{} -> Record]
    BY <2>1 DEF Init
  <2>3. IsStore(recs)
    BY <2>2 DEF IsStore
  <2>4. chains \in [Keys -> Seq(DOMAIN recs)]
    BY <2>1 DEF Init
  <2>5. TypeOK
    BY <2>1, <2>2, <2>3, <2>4 DEF Init, TypeOK, NoToken
  <2>6. QED
    BY <2>2, <2>5 DEF DepInv, PendingParentsExact, DepsSatisfied
<1>2. DepInv /\ [Next]_vars => DepInv'
  <2>1. SUFFICES ASSUME DepInv, [Next]_vars PROVE DepInv'
    OBVIOUS
  <2>2. TypeOK' /\ Settled(recs')
    BY <2>1, NextStep, DepInvSettled DEF DepInv
  <2>3. QED
    BY <2>2 DEF DepInv, PendingParentsExact, DepsSatisfied, Settled, WaitsRightly, RunsRightly
<1>3. QED
  BY <1>1, <1>2, PTL DEF Spec, DepInv

\* No task is queued or run before its parents allow it: the code checks the
\* parents when a task is submitted and when a parent ends, and never again
\* when the task is claimed.
THEOREM NoTaskRunsEarly == Spec => []DepsSatisfied
  BY DependencySafety, PTL

\* The defensive pass of ReapExpired never finds anything to repair.
THEOREM RepairNeverNeeded == Spec => []RepairIsNoOp
<1>1. TypeOK /\ PendingParentsExact /\ DepsSatisfied => RepairIsNoOp
  BY DepInvSettled, RepairOfSettled DEF RepairIsNoOp, TypeOK
<1>2. QED
  BY <1>1, DependencySafety, PTL

-------------------------------------------------------------------------------
(* What the steps do.  Each has one of three shapes (lemma StepShape): it  *)
(* moves existing records, it claims one record, or it adds one; leases,   *)
(* retry budgets, identity chains and legal transitions follow from what   *)
(* each shape does to a record.  And each is a step of the abstract        *)
(* lifecycle: counters, decrements and cascades together give every        *)
(* waiting task, in the very step in which a parent ends, the status its   *)
(* parents dictate.                                                        *)

\* What no operation ever changes in a record.
SameIdentity(r, s) ==
  s.key = r.key /\ s.replayOf = r.replayOf /\ s.maxRetry = r.maxRetry

SameCounters(r, s) ==
  s.attempts = r.attempts /\ s.leaseLost = r.leaseLost /\ s.throttled = r.throttled

\* What propagation may make of record r: the cascade cancels a record that
\* does not run, and any other that is not final is settled, woken or flagged.
PropagateMoves(r, s) ==
  \/ s = r
  \/ /\ ~IsFinal(r.status) /\ SameIdentity(r, s) /\ SameCounters(r, s)
     /\ \/ /\ r.status # "running" /\ s.status = "canceled"
           /\ s.leaseToken = NoToken /\ s.cancelRequested = r.cancelRequested
        \/ /\ s.status = r.status \/ (r.status = "blocked" /\ s.status = "pending")
           /\ s.leaseToken = r.leaseToken
           /\ r.cancelRequested => s.cancelRequested
           /\ s.cancelRequested => r.cancelRequested \/ r.status = "running"

\* Settle touches the counter of parents, the status of a blocked record and
\* the flag of a running one, nothing else.
LEMMA SettleMoves ==
  ASSUME NEW r \in Record, NEW n \in Nat, NEW b \in BOOLEAN, ~IsFinal(r.status)
  PROVE  PropagateMoves(r, Settle(r, n, b))
<1> DEFINE left == IF r.pendingParents > n THEN r.pendingParents - n ELSE 0
           st == IF n > 0 /\ left = 0 /\ r.status = "blocked" THEN "pending" ELSE r.status
           flag == r.cancelRequested \/ (b /\ r.status = "running")
           s == [r EXCEPT !.pendingParents = left, !.status = st, !.cancelRequested = flag]
<1>1. Settle(r, n, b) = s
  BY Zenon DEF Settle
<1>2. st = r.status \/ (r.status = "blocked" /\ st = "pending")
  OBVIOUS
<1>3. (r.cancelRequested => flag) /\ (flag => r.cancelRequested \/ r.status = "running")
  BY Zenon
<1> HIDE DEF left, st, flag
<1>4. /\ s.status = st /\ s.cancelRequested = flag /\ s.leaseToken = r.leaseToken
      /\ SameIdentity(r, s) /\ SameCounters(r, s)
  BY DEF Record, SameIdentity, SameCounters
<1> HIDE DEF s
<1>5. PropagateMoves(r, s)
  BY <1>2, <1>3, <1>4, Zenon DEF PropagateMoves
<1>6. QED
  BY <1>1, <1>5

\* The same for a whole propagation, whatever was written final before it.
LEMMA PropagateMovesAll ==
  ASSUME NEW rs, NEW R, NEW t \in DOMAIN rs, \A c \in DOMAIN rs : rs[c] \in Record
  PROVE  PropagateMoves(rs[t], Propagate(rs, R)[t])
<1> DEFINE K == Cascade(rs, R)
           new(c) == Parents(rs[c]) \cap (R \cup K)
           good(c) == {p \in new(c) :
                         Satisfied(IF p \in K THEN "canceled" ELSE rs[p].status, rs[c].policy)}
           cancel(c) == [ClearLease(rs[c]) EXCEPT !.status = "canceled"]
           settle(c) == Settle(rs[c], Cardinality(good(c)), new(c) # good(c))
           u == Propagate(rs, R)[t]
<1>1. u = IF t \in K THEN cancel(t) ELSE IF IsFinal(rs[t].status) THEN rs[t] ELSE settle(t)
  BY Zenon DEF Propagate
<1>2. CASE t \in K
  <2>1. Cancelable(rs[t])
    BY <1>2, CascadeProperties
  <2>2. ~IsFinal(rs[t].status) /\ rs[t].status # "running"
    BY <2>1 DEF Cancelable, CanTransition, legalTransitions, IsFinal, Statuses, Record
  <2>3. /\ cancel(t).status = "canceled" /\ cancel(t).leaseToken = NoToken
        /\ cancel(t).cancelRequested = rs[t].cancelRequested
        /\ SameIdentity(rs[t], cancel(t)) /\ SameCounters(rs[t], cancel(t))
    BY DEF ClearLease, Record, SameIdentity, SameCounters
  <2>4. PropagateMoves(rs[t], cancel(t))
    <3> HIDE DEF cancel
    <3>1. QED
      BY <2>2, <2>3, Zenon DEF PropagateMoves
  <2>5. QED
    BY <1>1, <1>2, <2>4
<1>3. CASE t \notin K /\ IsFinal(rs[t].status)
  BY <1>1, <1>3 DEF PropagateMoves
<1>4. CASE t \notin K /\ ~IsFinal(rs[t].status)
  <2>1. Cardinality(good(t)) \in Nat
    BY ParentsFinite, FS_Subset, FS_CardinalityType
  <2>2. (new(t) # good(t)) \in BOOLEAN
    OBVIOUS
  <2>3. PropagateMoves(rs[t], settle(t))
    BY <1>4, <2>1, <2>2, SettleMoves
  <2>4. u = settle(t)
    BY <1>1, <1>4
  <2>5. QED
    BY <2>3, <2>4
<1>5. QED
  BY <1>2, <1>3, <1>4

-------------------------------------------------------------------------------
(* The shapes of a step.                                                   *)

\* What a step that claims nothing may make of an existing record.
Moves(r, s) ==
  \/ PropagateMoves(r, s)
  \/ /\ r.status = "running" /\ SameIdentity(r, s)
     /\ \/ /\ IsFinal(s.status)                    \* ended by its holder or the reaper
           /\ s.leaseToken = NoToken /\ ~s.cancelRequested
        \/ /\ s.status = "retrying"                 \* Fail within the budget
           /\ s.leaseToken = NoToken /\ s.cancelRequested = r.cancelRequested
           /\ s.leaseLost = r.leaseLost
           /\ s.attempts = r.attempts \/ s.attempts <= s.maxRetry
           /\ s.throttled = r.throttled \/ s.throttled < ThrottledMax
        \/ /\ s.status = "pending"                  \* Requeue
           /\ s.leaseToken = NoToken /\ ~s.cancelRequested
           /\ SameCounters(r, s)
        \/ /\ s.status = "pending"                  \* ReapExpired within the budget
           /\ s.leaseToken = NoToken /\ ~s.cancelRequested
           /\ ~r.cancelRequested
           /\ s.attempts = r.attempts /\ s.throttled = r.throttled
           /\ s.leaseLost < LeaseLostMax
        \/ /\ s.status = "running"                  \* Heartbeat, Cancel
           /\ s.leaseToken = r.leaseToken
           /\ r.cancelRequested => s.cancelRequested
           /\ SameCounters(r, s)

AllMove == DOMAIN recs' = DOMAIN recs /\ \A t \in DOMAIN recs : Moves(recs[t], recs'[t])

\* A task goes final as r and its children are settled.
LEMMA GoFinalMoves ==
  ASSUME IsStore(recs), NEW id \in DOMAIN recs, NEW r \in Record, IsFinal(r.status),
         Moves(recs[id], r), GoFinal(id, r)
  PROVE  AllMove
<1> DEFINE rs1 == [recs EXCEPT ![id] = r]
<1>1. DOMAIN rs1 = DOMAIN recs /\ \A t \in DOMAIN rs1 : rs1[t] \in Record
  BY DEF IsStore
<1>2. recs' = Propagate(rs1, {id})
  BY DEF GoFinal
<1>3. rs1[id] = r /\ \A t \in DOMAIN recs \ {id} : rs1[t] = recs[t]
  OBVIOUS
<1> HIDE DEF rs1
<1>4. DOMAIN recs' = DOMAIN recs
  BY <1>1, <1>2, PropagateType
<1>5. \A t \in DOMAIN recs : PropagateMoves(rs1[t], recs'[t])
  BY <1>1, <1>2, PropagateMovesAll
<1>6. Moves(recs[id], recs'[id])
  <2>1. recs'[id] = r
    BY <1>3, <1>5 DEF PropagateMoves
  <2>2. QED
    BY <2>1
<1>7. \A t \in DOMAIN recs \ {id} : Moves(recs[t], recs'[t])
  BY <1>3, <1>5 DEF Moves
<1>8. QED
  BY <1>4, <1>6, <1>7 DEF AllMove

\* One record is written and the others stay.
LEMMA WriteMoves ==
  ASSUME NEW id \in DOMAIN recs, NEW r, Moves(recs[id], r), recs' = [recs EXCEPT ![id] = r]
  PROVE  AllMove
<1>1. DOMAIN recs' = DOMAIN recs /\ recs'[id] = r /\ \A t \in DOMAIN recs \ {id} : recs'[t] = recs[t]
  OBVIOUS
<1>2. \A t \in DOMAIN recs \ {id} : Moves(recs[t], recs'[t])
  BY <1>1 DEF Moves, PropagateMoves
<1>3. QED
  BY <1>1, <1>2 DEF AllMove

\* Leaving running for a final status is a move.
LEMMA FinishedMoves ==
  ASSUME NEW r \in Record, NEW r0 \in Record, r.status = "running", SameIdentity(r, r0),
         NEW s \in {"completed", "failed", "canceled"}
  PROVE  Moves(r, Finished(r0, s)) /\ Finished(r0, s) \in Record /\ IsFinal(Finished(r0, s).status)
<1> DEFINE f == Finished(r0, s)
<1>1. /\ f.status = s /\ f.leaseToken = NoToken /\ f.cancelRequested = FALSE
      /\ SameIdentity(r0, f)
  BY DEF Finished, ClearLease, Record, SameIdentity
<1>2. f \in Record
  BY StatusWritesType DEF Statuses
<1> HIDE DEF f
<1>3. IsFinal(f.status)
  BY <1>1 DEF IsFinal
<1>4. SameIdentity(r, f)
  BY <1>1 DEF SameIdentity
<1>5. Moves(r, f)
  BY <1>1, <1>3, <1>4, Zenon DEF Moves
<1>6. QED
  BY <1>2, <1>3, <1>5 DEF f

\* Fail: the counter that moved is within its budget or the task ends.
LEMMA FailMoves ==
  ASSUME TypeOK, NEW id, NEW token, NEW kind \in FailKinds, NEW delay \in Delays,
         Fail(id, token, kind, delay)
  PROVE  AllMove
<1> DEFINE r == Counted(recs[id], kind)
           q == [ClearLease(r) EXCEPT !.status = "retrying", !.runAt = now + delay]
<1>1. IsStore(recs) /\ id \in DOMAIN recs /\ recs[id].status = "running" /\ recs[id] \in Record
  BY DEF Fail, HoldsLease, TypeOK, IsStore
<1> DEFINE a == IF kind = "business" THEN recs[id].attempts + 1 ELSE recs[id].attempts
           c == IF kind = "throttled" THEN recs[id].throttled + 1 ELSE recs[id].throttled
<1>2. a \in Nat /\ c \in Nat
  BY <1>1 DEF Record
<1>3. r = [recs[id] EXCEPT !.attempts = a, !.throttled = c]
  BY <1>1 DEF Counted
<1>4. /\ kind # "business" => a = recs[id].attempts
      /\ kind # "throttled" => c = recs[id].throttled
  OBVIOUS
<1> HIDE DEF a, c, r
<1>5. /\ r \in Record /\ SameIdentity(recs[id], r)
      /\ r.attempts = a /\ r.throttled = c /\ r.leaseLost = recs[id].leaseLost
      /\ r.cancelRequested = recs[id].cancelRequested
  BY <1>1, <1>2, <1>3 DEF Record, SameIdentity
<1>6. CASE Exhausted(r, kind)
  <2>1. GoFinal(id, Finished(r, "failed"))
    BY <1>6 DEF Fail, r
  <2>2. QED
    BY <1>1, <1>5, <2>1, FinishedMoves, GoFinalMoves
<1>7. CASE ~Exhausted(r, kind)
  <2>1. recs' = [recs EXCEPT ![id] = q]
    BY <1>7 DEF Fail, r
  <2>2. /\ q.status = "retrying" /\ q.leaseToken = NoToken
        /\ q.cancelRequested = recs[id].cancelRequested
        /\ q.leaseLost = recs[id].leaseLost /\ q.attempts = a /\ q.throttled = c
        /\ SameIdentity(r, q)
    BY <1>5 DEF ClearLease, Record, SameIdentity
  <2>3. SameIdentity(recs[id], q) /\ q.maxRetry = r.maxRetry
    BY <1>5, <2>2 DEF SameIdentity
  <2>4. /\ a = recs[id].attempts \/ a <= q.maxRetry
        /\ c = recs[id].throttled \/ c < ThrottledMax
    <3>1. /\ kind = "business" => ~(a > r.maxRetry)
          /\ kind = "throttled" => ~(c >= ThrottledMax)
      BY <1>5, <1>7 DEF Exhausted
    <3>2. r.maxRetry \in Nat /\ ThrottledMax \in Nat
      BY <1>5, ConstantsAssumption DEF Record
    <3>3. QED
      BY <1>2, <1>4, <2>3, <3>1, <3>2
  <2> HIDE DEF q
  <2>5. Moves(recs[id], q)
    BY <1>1, <2>2, <2>3, <2>4, Zenon DEF Moves
  <2>6. QED
    BY <1>1, <2>1, <2>5, WriteMoves
<1>8. QED
  BY <1>6, <1>7

\* Requeue gives the task back, lease and flag cleared, counters as they were.
LEMMA RequeueMoves ==
  ASSUME TypeOK, NEW id, NEW token, Requeue(id, token)
  PROVE  AllMove
<1> DEFINE r == Returned(recs[id])
<1>1. /\ id \in DOMAIN recs /\ recs[id].status = "running" /\ recs[id] \in Record
      /\ recs' = [recs EXCEPT ![id] = r]
  BY DEF Requeue, HoldsLease, TypeOK, IsStore
<1>2. /\ r.status = "pending" /\ r.leaseToken = NoToken /\ r.cancelRequested = FALSE
      /\ SameIdentity(recs[id], r) /\ SameCounters(recs[id], r)
  BY <1>1 DEF Returned, ClearLease, Record, SameIdentity, SameCounters
<1> HIDE DEF r
<1>3. Moves(recs[id], r)
  BY <1>1, <1>2, Zenon DEF Moves
<1>4. QED
  BY <1>1, <1>3, WriteMoves

\* Heartbeat moves the deadline only.
LEMMA HeartbeatMoves ==
  ASSUME TypeOK, NEW id, NEW token, Heartbeat(id, token)
  PROVE  AllMove
<1> DEFINE until == now + LeaseTTL[recs[id].queue]
           r == [recs[id] EXCEPT !.leaseUntil = until]
<1>1. id \in DOMAIN recs /\ recs[id].status = "running" /\ recs[id] \in Record
  BY DEF Heartbeat, HoldsLease, TypeOK, IsStore
<1>2. recs' = [recs EXCEPT ![id] = r]
  BY <1>1 DEF Heartbeat
<1> HIDE DEF until
<1>3. /\ r.status = "running" /\ r.leaseToken = recs[id].leaseToken
      /\ r.cancelRequested = recs[id].cancelRequested
      /\ SameIdentity(recs[id], r) /\ SameCounters(recs[id], r)
  BY <1>1 DEF Record, SameIdentity, SameCounters
<1> HIDE DEF r
<1>4. Moves(recs[id], r)
  BY <1>1, <1>3, Zenon DEF Moves
<1>5. QED
  BY <1>1, <1>2, <1>4, WriteMoves

\* Cancel flags a running task and ends any other that is not final.
LEMMA CancelMoves ==
  ASSUME TypeOK, NEW id, Cancel(id)
  PROVE  AllMove
<1>1. IsStore(recs) /\ id \in DOMAIN recs /\ recs[id] \in Record /\ ~IsFinal(recs[id].status)
  BY DEF Cancel, TypeOK, IsStore
<1>2. CASE recs[id].status = "running"
  <2> DEFINE r == [recs[id] EXCEPT !.cancelRequested = TRUE]
  <2>1. recs' = [recs EXCEPT ![id] = r]
    BY <1>1, <1>2 DEF Cancel
  <2>2. /\ r.status = "running" /\ r.leaseToken = recs[id].leaseToken
        /\ r.cancelRequested = TRUE
        /\ SameIdentity(recs[id], r) /\ SameCounters(recs[id], r)
    BY <1>1, <1>2 DEF Record, SameIdentity, SameCounters
  <2> HIDE DEF r
  <2>3. Moves(recs[id], r)
    BY <1>2, <2>2, Zenon DEF Moves
  <2>4. QED
    BY <1>1, <2>1, <2>3, WriteMoves
<1>3. CASE recs[id].status # "running"
  <2> DEFINE r == [ClearLease(recs[id]) EXCEPT !.status = "canceled"]
  <2>1. GoFinal(id, r)
    BY <1>3 DEF Cancel
  <2>2. /\ r.status = "canceled" /\ r.leaseToken = NoToken
        /\ r.cancelRequested = recs[id].cancelRequested
        /\ SameIdentity(recs[id], r) /\ SameCounters(recs[id], r)
    BY <1>1 DEF ClearLease, Record, SameIdentity, SameCounters
  <2>3. r \in Record
    BY <1>1, StatusWritesType DEF Statuses
  <2> HIDE DEF r
  <2>4. Moves(recs[id], r)
    BY <1>1, <1>3, <2>2, Zenon DEF Moves, PropagateMoves
  <2>5. IsFinal(r.status)
    BY <2>2 DEF IsFinal
  <2>6. QED
    BY <1>1, <2>1, <2>3, <2>4, <2>5, GoFinalMoves
<1>4. QED
  BY <1>2, <1>3

\* What the reaper makes of one overdue record.
LEMMA ReapedMoves ==
  ASSUME NEW r \in Record, r.status = "running"
  PROVE  /\ Moves(r, Reaped(r)) /\ SameIdentity(r, Reaped(r))
         /\ Reaped(r).status \in {"canceled", "failed", "pending"}
         /\ Reaped(r).leaseToken = NoToken /\ ~Reaped(r).cancelRequested
<1>1. CASE r.cancelRequested
  <2>1. Reaped(r) = Finished(r, "canceled")
    BY <1>1 DEF Reaped
  <2> DEFINE f == Finished(r, "canceled")
  <2>2. SameIdentity(r, r)
    BY DEF SameIdentity
  <2>3. Moves(r, f)
    BY <2>2, FinishedMoves
  <2>4. /\ f.status = "canceled" /\ f.leaseToken = NoToken /\ f.cancelRequested = FALSE
        /\ SameIdentity(r, f)
    BY DEF Finished, ClearLease, Record, SameIdentity
  <2> HIDE DEF f
  <2>5. Reaped(r) = f
    BY <2>1 DEF f
  <2>6. QED
    BY <2>3, <2>4, <2>5
<1>2. CASE ~r.cancelRequested
  <2> DEFINE last == r.leaseLost + 1 >= LeaseLostMax
             st == IF last THEN "failed" ELSE "pending"
             f == Finished(r, st)
             lost == f.leaseLost + 1
             g == [f EXCEPT !.leaseLost = lost]
  <2>1. Reaped(r) = g
    BY <1>2 DEF Reaped
  <2>2. st \in {"failed", "pending"} /\ (st = "pending" => ~last)
    OBVIOUS
  <2> HIDE DEF st
  <2>3. /\ f \in Record /\ f.status = st /\ f.leaseToken = NoToken /\ f.cancelRequested = FALSE
        /\ SameIdentity(r, f) /\ SameCounters(r, f)
    BY <2>2 DEF Finished, ClearLease, Record, SameIdentity, SameCounters, Statuses, NoToken
  <2>4. lost = r.leaseLost + 1
    BY <2>3 DEF SameCounters
  <2>5. st = "pending" => lost < LeaseLostMax
    BY <2>2, <2>4, ConstantsAssumption DEF Record
  <2> HIDE DEF f, lost, last
  <2>6. /\ g.status = st /\ g.leaseToken = NoToken /\ g.cancelRequested = FALSE
        /\ SameIdentity(r, g) /\ g.leaseLost = lost
        /\ g.attempts = r.attempts /\ g.throttled = r.throttled
    BY <2>3 DEF Record, SameIdentity, SameCounters
  <2> HIDE DEF g
  <2>7. CASE st = "failed"
    <3>1. IsFinal(g.status)
      BY <2>6, <2>7 DEF IsFinal
    <3>2. Moves(r, g)
      BY <2>6, <3>1, Zenon DEF Moves
    <3>3. QED
      BY <2>1, <2>6, <2>7, <3>2
  <2>8. CASE st = "pending"
    <3>1. Moves(r, g)
      BY <1>2, <2>5, <2>6, <2>8, Zenon DEF Moves
    <3>2. QED
      BY <2>1, <2>6, <2>8, <3>1
  <2>9. QED
    BY <2>2, <2>7, <2>8
<1>3. QED
  BY <1>1, <1>2

\* ReapExpired: the overdue records are taken back, the others only see their
\* consequences.
LEMMA ReapMoves ==
  ASSUME TypeOK, Settled(recs), ReapExpired
  PROVE  AllMove
<1> DEFINE E == {t \in DOMAIN recs : IsExpired(recs[t])}
           r1 == [t \in DOMAIN recs |-> IF t \in E THEN Reaped(recs[t]) ELSE recs[t]]
           R == {t \in E : IsFinal(r1[t].status)}
<1>1. recs' = Propagate(r1, R)
  <2>1. ReapLeases(recs) = Propagate(r1, R)
    BY Zenon DEF ReapLeases
  <2>2. QED
    BY <2>1, ReapStep
<1>2. ASSUME NEW t \in DOMAIN recs
      PROVE  /\ recs[t] \in Record /\ r1[t] \in Record
             /\ t \notin E => r1[t] = recs[t]
             /\ t \in E => /\ recs[t].status = "running" /\ Moves(recs[t], r1[t])
                           /\ SameIdentity(recs[t], r1[t])
                           /\ r1[t].status \in {"canceled", "failed", "pending"}
                           /\ r1[t].leaseToken = NoToken /\ ~r1[t].cancelRequested
  <2>1. recs[t] \in Record
    BY DEF TypeOK, IsStore
  <2>2. CASE t \in E
    BY <2>1, <2>2, ReapedFields, ReapedMoves DEF IsExpired
  <2>3. CASE t \notin E
    BY <2>1, <2>3
  <2>4. QED
    BY <2>2, <2>3
<1>3. DOMAIN r1 = DOMAIN recs
  OBVIOUS
<1> HIDE DEF r1, E, R
<1>4. DOMAIN recs' = DOMAIN recs
  BY <1>1, <1>2, <1>3, PropagateType
<1>5. ASSUME NEW t \in DOMAIN recs PROVE PropagateMoves(r1[t], recs'[t])
  BY <1>1, <1>2, <1>3, PropagateMovesAll
<1>6. ASSUME NEW t \in DOMAIN recs PROVE Moves(recs[t], recs'[t])
  <2>1. CASE t \notin E
    BY <1>2, <1>5, <2>1 DEF Moves
  <2>2. CASE t \in E
    <3>1. CASE recs'[t] = r1[t]
      BY <1>2, <2>2, <3>1
    <3>2. CASE recs'[t] # r1[t]
      <4>1. /\ r1[t].status = "pending"
            /\ SameIdentity(r1[t], recs'[t]) /\ SameCounters(r1[t], recs'[t])
            /\ recs'[t].status \in {"canceled", "pending"}
            /\ recs'[t].leaseToken = NoToken /\ ~recs'[t].cancelRequested
        BY <1>2, <1>5, <2>2, <3>2, Zenon DEF PropagateMoves, IsFinal
      <4>2. SameIdentity(recs[t], recs'[t])
        BY <1>2, <2>2, <4>1 DEF SameIdentity
      <4>3. CASE recs'[t].status = "canceled"
        <5>1. IsFinal(recs'[t].status)
          BY <4>3 DEF IsFinal
        <5>2. QED
          BY <1>2, <2>2, <4>1, <4>2, <5>1, Zenon DEF Moves
      <4>4. CASE recs'[t].status = "pending"
        <5>1. \/ SameCounters(recs[t], r1[t])
              \/ /\ ~recs[t].cancelRequested
                 /\ r1[t].attempts = recs[t].attempts /\ r1[t].throttled = recs[t].throttled
                 /\ r1[t].leaseLost < LeaseLostMax
          BY <1>2, <2>2, <4>1 DEF Moves, PropagateMoves, IsFinal
        <5>2. \/ SameCounters(recs[t], recs'[t])
              \/ /\ ~recs[t].cancelRequested
                 /\ recs'[t].attempts = recs[t].attempts /\ recs'[t].throttled = recs[t].throttled
                 /\ recs'[t].leaseLost < LeaseLostMax
          BY <4>1, <5>1 DEF SameCounters
        <5>3. QED
          BY <1>2, <2>2, <4>1, <4>2, <4>4, <5>2, Zenon DEF Moves
      <4>5. QED
        BY <4>1, <4>3, <4>4
    <3>3. QED
      BY <3>1, <3>2
  <2>3. QED
    BY <2>1, <2>2
<1>7. QED
  BY <1>4, <1>6 DEF AllMove

\* A step that moves existing records and leaves the rest alone.
MoveStep == AllMove /\ UNCHANGED <<chains, replayed, lastToken>>

\* A step that hands a queued record to a worker.
ClaimStep ==
  /\ \E t \in DOMAIN recs : /\ Queued(recs[t].status)
                            /\ recs' = [recs EXCEPT ![t] = Claimed(recs[t])]
  /\ lastToken' = lastToken + 1
  /\ UNCHANGED <<chains, replayed>>

\* A step that adds a record: a first execution, or the replay of a final one.
AddStep ==
  \E id \in Tasks \ DOMAIN recs, r \in Record :
    /\ recs' = Put(id, r)
    /\ chains' = Link(r.key, id)
    /\ UNCHANGED lastToken
    /\ r.status \in {"blocked", "pending", "canceled"}
    /\ r.leaseToken = NoToken /\ r.cancelRequested = FALSE
    /\ r.attempts = 0 /\ r.leaseLost = 0 /\ r.throttled = 0
    /\ \/ r.replayOf = NoID /\ KeyIsFree(r.key) /\ replayed' = replayed
       \/ /\ r.replayOf \in DOMAIN recs \ replayed
          /\ IsFinal(recs[r.replayOf].status)
          /\ r.key = recs[r.replayOf].key
          /\ replayed' = replayed \cup {r.replayOf}

\* Enqueue adds a first execution of its key.
LEMMA EnqueueShape ==
  ASSUME TypeOK,
         NEW id \in Tasks, NEW deps \in Seq(Tasks), NEW policy \in Policies,
         NEW key \in Keys \cup {NoKey}, NEW queue \in Queues,
         NEW maxRetry \in MaxRetries, NEW delay \in Delays,
         Enqueue(id, deps, policy, key, queue, maxRetry, delay)
  PROVE  AddStep
<1> DEFINE dec == DecideOnSubmit(ParentStates(recs, deps), policy)
           r == NewRecord(dec, deps, policy, key, NoID, queue, maxRetry, now + delay)
<1>1. /\ id \notin DOMAIN recs /\ KeyIsFree(key)
      /\ recs' = Put(id, r)
      /\ chains' = Link(key, id)
      /\ UNCHANGED <<replayed, lastToken>>
  BY DEF Enqueue, IsFreshID
<1>2. deps \in Seq(Tasks) /\ maxRetry \in Nat /\ now + delay \in Nat
  BY ConstantsAssumption DEF TypeOK
<1>3. dec.status \in {"blocked", "pending", "canceled"} /\ dec.pendingParents \in Nat
  BY <1>2, DecideOnSubmitMeaning
<1> HIDE DEF dec
<1>4. /\ r \in Record /\ r.status = dec.status /\ r.key = key /\ r.replayOf = NoID
      /\ r.leaseToken = NoToken /\ r.cancelRequested = FALSE
      /\ r.attempts = 0 /\ r.leaseLost = 0 /\ r.throttled = 0
  BY <1>2, <1>3 DEF NewRecord, Record, NoToken, NoID, Statuses
<1> HIDE DEF r
<1>5. QED
  BY <1>1, <1>3, <1>4 DEF AddStep

\* Replay adds the successor of a final execution that has none.
LEMMA ReplayShape ==
  ASSUME TypeOK, NEW id \in Tasks, NEW target, NEW allowCompleted,
         ReplayTarget(id, target, allowCompleted)
  PROVE  AddStep
<1> DEFINE dec == [status |-> "pending", pendingParents |-> 0]
           r == NewRecord(dec, <<>>, recs[target].policy, recs[target].key, target,
                          recs[target].queue, recs[target].maxRetry, now)
<1>1. /\ id \notin DOMAIN recs /\ target \in DOMAIN recs /\ target \notin replayed
      /\ IsFinal(recs[target].status)
      /\ recs' = Put(id, r)
      /\ chains' = Link(recs[target].key, id)
      /\ replayed' = replayed \cup {target}
      /\ UNCHANGED lastToken
  BY DEF ReplayTarget, IsFreshID, Replayable
<1>2. recs[target] \in Record /\ target \in Tasks
  BY <1>1 DEF TypeOK, IsStore
<1>3. /\ r \in Record /\ r.status = "pending" /\ r.key = recs[target].key /\ r.replayOf = target
      /\ r.leaseToken = NoToken /\ r.cancelRequested = FALSE
      /\ r.attempts = 0 /\ r.leaseLost = 0 /\ r.throttled = 0
  <2>1. dec.status \in Statuses /\ dec.pendingParents \in Nat /\ <<>> \in Seq(Tasks)
        /\ dec.status = "pending"
    BY DEF Statuses
  <2>2. /\ recs[target].policy \in Policies /\ recs[target].key \in Keys \cup {NoKey}
        /\ recs[target].queue \in Queues /\ recs[target].maxRetry \in Nat /\ now \in Nat
    BY <1>2 DEF Record, TypeOK
  <2> HIDE DEF dec
  <2>3. QED
    BY <1>2, <2>1, <2>2 DEF NewRecord, Record, NoToken
<1> HIDE DEF r
<1>4. QED
  BY <1>1, <1>3 DEF AddStep

\* Every step of the broker has one of the three shapes.
LEMMA StepShape ==
  ASSUME TypeOK, Settled(recs), [Next]_vars
  PROVE  MoveStep \/ ClaimStep \/ AddStep
<1>1. CASE Submit
  <2>1. PICK id \in Tasks, s \in Submissions, queue \in Queues, maxRetry \in MaxRetries, delay \in Delays :
          Enqueue(id, s.deps, s.policy, s.key, queue, maxRetry, delay)
    BY <1>1 DEF Submit
  <2>2. s.deps \in Seq(Tasks) /\ s.policy \in Policies /\ s.key \in Keys \cup {NoKey}
    BY SubmissionsTyped
  <2>3. QED
    BY <2>1, <2>2, EnqueueShape
<1>2. ASSUME NEW Q, Dequeue(Q) PROVE ClaimStep
  BY <1>2 DEF Dequeue, Ready, ClaimStep
<1>3. CASE Report
  <2>1. PICK id \in Tasks, token \in 1..lastToken :
          \/ Ack(id, token)
          \/ \E kind \in FailKinds, delay \in Delays : Fail(id, token, kind, delay)
          \/ FinishCanceled(id, token)
          \/ Requeue(id, token)
          \/ Heartbeat(id, token)
    BY <1>3 DEF Report
  <2>2. UNCHANGED <<chains, replayed, lastToken>>
    BY <2>1 DEF Ack, Fail, FinishCanceled, Requeue, Heartbeat
  <2>3. ASSUME NEW s \in {"completed", "canceled"}, HoldsLease(id, token),
               GoFinal(id, Finished(recs[id], s))
        PROVE  AllMove
    <3>1. IsStore(recs) /\ id \in DOMAIN recs /\ recs[id] \in Record /\ recs[id].status = "running"
      BY <2>3 DEF HoldsLease, TypeOK, IsStore
    <3>2. SameIdentity(recs[id], recs[id])
      BY DEF SameIdentity
    <3>3. QED
      BY <2>3, <3>1, <3>2, FinishedMoves, GoFinalMoves
  <2>4. AllMove
    BY <2>1, <2>3, FailMoves, RequeueMoves, HeartbeatMoves DEF Ack, FinishCanceled
  <2>5. QED
    BY <2>2, <2>4 DEF MoveStep
<1>4. ASSUME NEW id \in Tasks, Cancel(id) PROVE MoveStep
  BY <1>4, CancelMoves DEF MoveStep, Cancel
<1>5. CASE Replay
  BY <1>5, ReplayShape DEF Replay, ReplayByID, ReplayByKey
<1>6. CASE ReapExpired
  BY <1>6, ReapMoves DEF MoveStep, ReapExpired
<1>7. CASE Close \/ Tick \/ UNCHANGED vars
  BY <1>7 DEF Close, Tick, vars, MoveStep, AllMove, Moves, PropagateMoves
<1>8. QED
  BY <1>1, <1>2, <1>3, <1>4, <1>5, <1>6, <1>7 DEF Next

-------------------------------------------------------------------------------
(* Leases and budgets.                                                     *)

\* LeaseConsistent is inductive on its own: a move never raises a token, a
\* claim takes one that nobody has.
LEMMA LeaseStep ==
  ASSUME TypeOK, LeaseConsistent, MoveStep \/ ClaimStep \/ AddStep
  PROVE  LeaseConsistent'
<1> DEFINE Own(r, last) == /\ (r.leaseToken # NoToken) <=> (r.status = "running")
                           /\ r.leaseToken <= last
                           /\ r.cancelRequested => r.status \in {"running", "retrying", "canceled"}
<1>1. ASSUME NEW t \in DOMAIN recs PROVE recs[t] \in Record /\ Own(recs[t], lastToken)
  BY DEF TypeOK, IsStore, LeaseConsistent
<1>2. lastToken \in Nat
  BY DEF TypeOK
<1>3. CASE MoveStep
  <2>1. ASSUME NEW t \in DOMAIN recs
        PROVE  /\ Own(recs'[t], lastToken)
               /\ recs'[t].leaseToken \in {NoToken, recs[t].leaseToken}
    <3>1. Moves(recs[t], recs'[t])
      BY <1>3 DEF MoveStep, AllMove
    <3>2. CASE recs'[t] = recs[t]
      BY <1>1, <3>2
    <3>3. CASE recs'[t] # recs[t]
      <4>1. /\ (recs'[t].leaseToken # NoToken) <=> (recs'[t].status = "running")
            /\ recs'[t].leaseToken \in {NoToken, recs[t].leaseToken}
            /\ recs'[t].cancelRequested => recs'[t].status \in {"running", "retrying", "canceled"}
        BY <1>1, <3>1, <3>3 DEF Moves, PropagateMoves, IsFinal
      <4>2. recs'[t].leaseToken <= lastToken
        BY <1>1, <1>2, <4>1 DEF NoToken
      <4>3. QED
        BY <4>1, <4>2
    <3>4. QED
      BY <3>2, <3>3
  <2>2. DOMAIN recs' = DOMAIN recs /\ lastToken' = lastToken
    BY <1>3 DEF MoveStep, AllMove
  <2>3. \A t \in DOMAIN recs : \A u \in DOMAIN recs \ {t} :
          recs[t].leaseToken # NoToken => recs[t].leaseToken # recs[u].leaseToken
    BY DEF LeaseConsistent
  <2>4. \A t \in DOMAIN recs : \A u \in DOMAIN recs \ {t} :
          recs'[t].leaseToken # NoToken => recs'[t].leaseToken # recs'[u].leaseToken
    BY <2>1, <2>3
  <2>5. QED
    BY <2>1, <2>2, <2>4 DEF LeaseConsistent
<1>4. CASE ClaimStep
  <2>1. PICK t \in DOMAIN recs : Queued(recs[t].status)
                                 /\ recs' = [recs EXCEPT ![t] = Claimed(recs[t])]
    BY <1>4 DEF ClaimStep
  <2> DEFINE r == Claimed(recs[t])
  <2>2. DOMAIN recs' = DOMAIN recs /\ recs'[t] = r /\ \A u \in DOMAIN recs \ {t} : recs'[u] = recs[u]
    BY <2>1
  <2>3. /\ r.status = "running" /\ r.leaseToken = lastToken + 1
        /\ r.cancelRequested = recs[t].cancelRequested
    BY <1>1 DEF Claimed, Record
  <2> HIDE DEF r
  <2>4. lastToken' = lastToken + 1
    BY <1>4 DEF ClaimStep
  <2>5. ASSUME NEW u \in DOMAIN recs PROVE Own(recs'[u], lastToken')
    <3>1. recs[u].leaseToken \in Nat
      BY <1>1 DEF Record
    <3>2. QED
      BY <1>1, <1>2, <2>2, <2>3, <2>4, <3>1 DEF NoToken
  <2>6. ASSUME NEW u \in DOMAIN recs \ {t} PROVE recs'[u].leaseToken # recs'[t].leaseToken
    <3>1. recs[u].leaseToken \in Nat /\ recs[u].leaseToken <= lastToken /\ lastToken \in Nat
      BY <1>1, <1>2 DEF Record
    <3>2. recs'[u].leaseToken = recs[u].leaseToken /\ recs'[t].leaseToken = lastToken + 1
      BY <2>2, <2>3
    <3>3. QED
      BY <3>1, <3>2
  <2>7. \A u \in DOMAIN recs : \A v \in DOMAIN recs \ {u} :
          recs'[u].leaseToken # NoToken => recs'[u].leaseToken # recs'[v].leaseToken
    BY <2>2, <2>6 DEF LeaseConsistent
  <2>8. QED
    BY <2>2, <2>5, <2>7 DEF LeaseConsistent
<1>5. CASE AddStep
  <2>1. PICK id \in Tasks \ DOMAIN recs, r \in Record :
          /\ recs' = Put(id, r) /\ UNCHANGED lastToken
          /\ r.status \in {"blocked", "pending", "canceled"}
          /\ r.leaseToken = NoToken /\ r.cancelRequested = FALSE
    BY <1>5 DEF AddStep
  <2>2. /\ DOMAIN recs' = DOMAIN recs \cup {id} /\ recs'[id] = r
        /\ \A u \in DOMAIN recs : recs'[u] = recs[u]
    BY <2>1 DEF Put
  <2>3. ASSUME NEW u \in DOMAIN recs' PROVE Own(recs'[u], lastToken')
    BY <1>1, <1>2, <2>1, <2>2 DEF NoToken
  <2>4. \A u \in DOMAIN recs' : \A v \in DOMAIN recs' \ {u} :
          recs'[u].leaseToken # NoToken => recs'[u].leaseToken # recs'[v].leaseToken
    BY <2>1, <2>2 DEF LeaseConsistent
  <2>5. QED
    BY <2>3, <2>4 DEF LeaseConsistent
<1>6. QED
  BY <1>3, <1>4, <1>5

\* BudgetRespected is inductive on its own.
LEMMA BudgetStep ==
  ASSUME TypeOK, BudgetRespected, MoveStep \/ ClaimStep \/ AddStep
  PROVE  BudgetRespected'
<1> DEFINE Own(r) == ~IsFinal(r.status) => /\ r.attempts <= r.maxRetry
                                           /\ r.throttled < ThrottledMax
                                           /\ r.leaseLost < LeaseLostMax
<1>1. ASSUME NEW t \in DOMAIN recs PROVE recs[t] \in Record /\ Own(recs[t])
  BY DEF TypeOK, IsStore, BudgetRespected
<1>2. CASE MoveStep
  <2>1. ASSUME NEW t \in DOMAIN recs PROVE Own(recs'[t])
    <3>1. Moves(recs[t], recs'[t])
      BY <1>2 DEF MoveStep, AllMove
    <3>2. QED
      BY <1>1, <3>1 DEF Moves, PropagateMoves, IsFinal, SameIdentity, SameCounters
  <2>2. QED
    BY <1>2, <2>1 DEF MoveStep, AllMove, BudgetRespected
<1>3. CASE ClaimStep
  <2>1. PICK t \in DOMAIN recs : Queued(recs[t].status)
                                 /\ recs' = [recs EXCEPT ![t] = Claimed(recs[t])]
    BY <1>3 DEF ClaimStep
  <2> DEFINE r == Claimed(recs[t])
  <2>2. DOMAIN recs' = DOMAIN recs /\ recs'[t] = r /\ \A u \in DOMAIN recs \ {t} : recs'[u] = recs[u]
    BY <2>1
  <2>3. r.maxRetry = recs[t].maxRetry /\ SameCounters(recs[t], r)
    BY <1>1 DEF Claimed, Record, SameCounters
  <2>4. ~IsFinal(recs[t].status)
    BY <2>1 DEF Queued, IsFinal
  <2> HIDE DEF r
  <2>5. Own(r)
    BY <1>1, <2>3, <2>4 DEF SameCounters
  <2>6. QED
    BY <1>1, <2>2, <2>5 DEF BudgetRespected
<1>4. CASE AddStep
  <2>1. PICK id \in Tasks \ DOMAIN recs, r \in Record :
          /\ recs' = Put(id, r)
          /\ r.attempts = 0 /\ r.leaseLost = 0 /\ r.throttled = 0
    BY <1>4 DEF AddStep
  <2>2. /\ DOMAIN recs' = DOMAIN recs \cup {id} /\ recs'[id] = r
        /\ \A u \in DOMAIN recs : recs'[u] = recs[u]
    BY <2>1 DEF Put
  <2>3. Own(r)
    BY <2>1, ConstantsAssumption DEF Record
  <2>4. QED
    BY <1>1, <2>2, <2>3 DEF BudgetRespected
<1>5. QED
  BY <1>2, <1>3, <1>4

\* One holder per task, for any number of tasks and claims: exactly the running
\* tasks carry a token, no two share one, and no cancellation flag of an earlier
\* run is left on a task that waits.
THEOREM LeasesConsistent == Spec => []LeaseConsistent
<1>1. Init => LeaseConsistent
  BY DEF Init, LeaseConsistent
<1>2. TypeOK /\ PendingParentsExact /\ DepsSatisfied /\ LeaseConsistent /\ [Next]_vars
      => LeaseConsistent'
  BY DepInvSettled, StepShape, LeaseStep
<1>3. QED
  BY <1>1, <1>2, DependencySafety, PTL DEF Spec

\* No task that may still run has used up one of its three budgets, whatever
\* mix of failures, throttling and lost leases it went through.
THEOREM BudgetsRespected == Spec => []BudgetRespected
<1>1. Init => BudgetRespected
  BY DEF Init, BudgetRespected
<1>2. TypeOK /\ PendingParentsExact /\ DepsSatisfied /\ BudgetRespected /\ [Next]_vars
      => BudgetRespected'
  BY DepInvSettled, StepShape, BudgetStep
<1>3. QED
  BY <1>1, <1>2, DependencySafety, PTL DEF Spec

-------------------------------------------------------------------------------
(* What a step may never do.                                               *)

\* The status table, entry by entry.
LEMMA TransitionTable ==
  /\ CanTransition("blocked", "pending") /\ CanTransition("blocked", "canceled")
  /\ CanTransition("pending", "running") /\ CanTransition("pending", "canceled")
  /\ CanTransition("retrying", "running") /\ CanTransition("retrying", "canceled")
  /\ \A s \in {"completed", "failed", "retrying", "canceled", "pending"} :
       CanTransition("running", s)
  BY DEF CanTransition, legalTransitions, Statuses

\* A move is a legal transition and never touches a final record.
LEMMA MovesLegal ==
  ASSUME NEW r \in Record, NEW s, Moves(r, s)
  PROVE  /\ s.status = r.status \/ CanTransition(r.status, s.status)
         /\ IsFinal(r.status) => s = r
<1>1. r.status \in Statuses
  BY DEF Record
<1>2. IsFinal(r.status) => s = r
  BY DEF Moves, PropagateMoves, IsFinal
<1>3. CASE PropagateMoves(r, s)
  <2>1. CASE s = r
    BY <2>1
  <2>2. CASE s.status = r.status \/ (r.status = "blocked" /\ s.status = "pending")
    BY <1>2, <2>2, TransitionTable
  <2>3. CASE ~IsFinal(r.status) /\ r.status # "running" /\ s.status = "canceled"
    <3>1. r.status \in {"blocked", "pending", "retrying"}
      BY <1>1, <2>3 DEF IsFinal, Statuses
    <3>2. QED
      BY <1>2, <2>3, <3>1, TransitionTable
  <2>4. QED
    BY <1>2, <1>3, <2>1, <2>2, <2>3 DEF PropagateMoves
<1>4. CASE ~PropagateMoves(r, s)
  <2>1. r.status = "running"
        /\ s.status \in {"completed", "failed", "retrying", "canceled", "pending", "running"}
    BY <1>4 DEF Moves, IsFinal
  <2>2. QED
    BY <1>2, <2>1, TransitionTable
<1>5. QED
  BY <1>3, <1>4

\* setStatus never has to refuse: every write any operation makes is in the
\* table, a final record never changes again and no record disappears.
THEOREM OnlyLegalTransitions == Spec => LegalTransitions
<1> DEFINE Legal == \A t \in DOMAIN recs :
                      /\ t \in DOMAIN recs'
                      /\ recs'[t].status = recs[t].status \/ CanTransition(recs[t].status, recs'[t].status)
                      /\ IsFinal(recs[t].status) => recs'[t] = recs[t]
<1>1. TypeOK /\ PendingParentsExact /\ DepsSatisfied /\ [Next]_vars => [Legal]_recs
  <2>1. SUFFICES ASSUME TypeOK, PendingParentsExact, DepsSatisfied, [Next]_vars PROVE Legal
    OBVIOUS
  <2>2. \A t \in DOMAIN recs : recs[t] \in Record
    BY <2>1 DEF TypeOK, IsStore
  <2>3. CASE MoveStep
    BY <2>2, <2>3, MovesLegal DEF MoveStep, AllMove
  <2>4. CASE ClaimStep
    <3>1. PICK t \in DOMAIN recs : Queued(recs[t].status)
                                   /\ recs' = [recs EXCEPT ![t] = Claimed(recs[t])]
      BY <2>4 DEF ClaimStep
    <3>2. DOMAIN recs' = DOMAIN recs /\ recs'[t] = Claimed(recs[t])
          /\ \A u \in DOMAIN recs \ {t} : recs'[u] = recs[u]
      BY <3>1
    <3>3. Claimed(recs[t]).status = "running"
      BY <2>2 DEF Claimed, Record
    <3>4. CanTransition(recs[t].status, "running") /\ ~IsFinal(recs[t].status)
      BY <3>1, TransitionTable DEF Queued, IsFinal
    <3>5. QED
      BY <3>2, <3>3, <3>4
  <2>5. CASE AddStep
    <3>1. PICK id \in Tasks \ DOMAIN recs, r \in Record : recs' = Put(id, r)
      BY <2>5 DEF AddStep
    <3>2. \A u \in DOMAIN recs : u \in DOMAIN recs' /\ recs'[u] = recs[u]
      BY <3>1 DEF Put
    <3>3. QED
      BY <3>2
  <2>6. QED
    BY <2>1, <2>3, <2>4, <2>5, DepInvSettled, StepShape
<1>2. QED
  BY <1>1, DependencySafety, PTL DEF Spec, LegalTransitions

\* A cancellation asked for is carried out or kept, never forgotten: only the
\* holder itself, by Requeue, may clear the flag of a task that does not end.
THEOREM CancellationSurvives == Spec => CancelSurvives
<1> DEFINE Kept(r, s) == r.cancelRequested /\ ~s.cancelRequested =>
                           \/ IsFinal(s.status)
                           \/ s.status = "pending" /\ s.leaseLost = r.leaseLost
           Survives == \A t \in DOMAIN recs :
                         recs[t].cancelRequested /\ ~recs'[t].cancelRequested =>
                           \/ IsFinal(recs'[t].status)
                           \/ /\ recs'[t].status = "pending"
                              /\ recs'[t].leaseLost = recs[t].leaseLost
<1>1. TypeOK /\ PendingParentsExact /\ DepsSatisfied /\ [Next]_vars => [Survives]_recs
  <2>1. SUFFICES ASSUME TypeOK, PendingParentsExact, DepsSatisfied, [Next]_vars,
                        NEW t \in DOMAIN recs
                 PROVE  Kept(recs[t], recs'[t])
    OBVIOUS
  <2>2. recs[t] \in Record
    BY <2>1 DEF TypeOK, IsStore
  <2>3. CASE MoveStep
    <3>1. Moves(recs[t], recs'[t])
      BY <2>3 DEF MoveStep, AllMove
    <3>2. QED
      BY <3>1, Zenon DEF Moves, PropagateMoves, SameCounters
  <2>4. CASE ClaimStep
    <3>1. PICK u \in DOMAIN recs : recs' = [recs EXCEPT ![u] = Claimed(recs[u])]
      BY <2>4 DEF ClaimStep
    <3>2. Claimed(recs[t]).cancelRequested = recs[t].cancelRequested
      BY <2>2 DEF Claimed, Record
    <3>3. recs'[t] = recs[t] \/ recs'[t] = Claimed(recs[t])
      BY <3>1
    <3>4. QED
      BY <3>2, <3>3, Zenon
  <2>5. CASE AddStep
    <3>1. PICK id \in Tasks \ DOMAIN recs, r \in Record : recs' = Put(id, r)
      BY <2>5 DEF AddStep
    <3>2. recs'[t] = recs[t]
      BY <3>1 DEF Put
    <3>3. QED
      BY <3>2
  <2>6. QED
    BY <2>1, <2>3, <2>4, <2>5, DepInvSettled, StepShape
<1>2. QED
  BY <1>1, DependencySafety, PTL DEF Spec, CancelSurvives

-------------------------------------------------------------------------------
(* Identity.                                                               *)

\* The executions that have a successor are the ones the replayed set names;
\* it is what keeps a history from forking.
ReplaysRecorded ==
  \A t \in DOMAIN recs : recs[t].replayOf # NoID => recs[t].replayOf \in replayed

ChainInv == ChainsLinear /\ ReplaysRecorded

\* The elements of a sequence after Append.
LEMMA AppendElements ==
  ASSUME NEW S, NEW s \in Seq(S), NEW x
  PROVE  /\ Range(Append(s, x)) = Range(s) \cup {x}
         /\ Len(Append(s, x)) = Len(s) + 1 /\ Len(s) \in Nat
         /\ DOMAIN Append(s, x) = 1..(Len(s) + 1) /\ DOMAIN s = 1..Len(s)
         /\ \A i \in DOMAIN s : Append(s, x)[i] = s[i]
         /\ Append(s, x)[Len(s) + 1] = x
<1>1. /\ Len(Append(s, x)) = Len(s) + 1 /\ Len(s) \in Nat
      /\ DOMAIN Append(s, x) = 1..(Len(s) + 1) /\ DOMAIN s = 1..Len(s)
      /\ \A i \in DOMAIN s : Append(s, x)[i] = s[i]
      /\ Append(s, x)[Len(s) + 1] = x
  OBVIOUS
<1> DEFINE a == Append(s, x)
<1> HIDE DEF a
<1>2. Range(a) = Range(s) \cup {x}
  <2>1. DOMAIN a = DOMAIN s \cup {Len(s) + 1}
    BY <1>1 DEF a
  <2>2. (\A i \in DOMAIN s : a[i] = s[i]) /\ a[Len(s) + 1] = x
    BY <1>1 DEF a
  <2>3. QED
    BY <2>1, <2>2 DEF Range
<1>3. QED
  BY <1>1, <1>2 DEF a

\* Records that keep their identity and their finality keep the chains linear.
LEMMA ChainsKept ==
  ASSUME TypeOK, ChainInv, DOMAIN recs' = DOMAIN recs, UNCHANGED <<chains, replayed>>,
         \A t \in DOMAIN recs : /\ SameIdentity(recs[t], recs'[t])
                                /\ IsFinal(recs[t].status) => IsFinal(recs'[t].status)
  PROVE  ChainInv'
<1>1. \A t \in DOMAIN recs : recs'[t].key = recs[t].key /\ recs'[t].replayOf = recs[t].replayOf
  BY DEF SameIdentity
<1>2. \A k \in Keys : \A i \in DOMAIN chains[k] : chains[k][i] \in DOMAIN recs
  BY DEF TypeOK
<1>3. \A k \in Keys : Range(chains[k]) = {t \in DOMAIN recs : recs[t].key = k}
  BY DEF ChainInv, ChainsLinear
<1>4. \A k \in Keys : Range(chains[k]) = {t \in DOMAIN recs' : recs'[t].key = k}
  BY <1>1, <1>3
<1>5. \A k \in Keys : \A i \in DOMAIN chains[k] :
        /\ recs'[chains[k][i]].replayOf = IF i = 1 THEN NoID ELSE chains[k][i-1]
        /\ i < Len(chains[k]) => IsFinal(recs'[chains[k][i]].status)
  BY <1>1, <1>2 DEF ChainInv, ChainsLinear
<1>6. \A t, u \in DOMAIN recs' :
        t # u /\ recs'[t].replayOf # NoID => recs'[t].replayOf # recs'[u].replayOf
  BY <1>1 DEF ChainInv, ChainsLinear
<1>7. ReplaysRecorded'
  BY <1>1 DEF ChainInv, ReplaysRecorded
<1>8. QED
  BY <1>4, <1>5, <1>6, <1>7 DEF ChainInv, ChainsLinear

\* A replay target that has a key is the newest execution of its chain.
LEMMA TargetIsNewest ==
  ASSUME TypeOK, ChainInv, NEW target \in DOMAIN recs \ replayed, recs[target].key \in Keys
  PROVE  LET c == chains[recs[target].key]
         IN  Len(c) # 0 /\ target = c[Len(c)]
<1> DEFINE c == chains[recs[target].key]
<1>1. c \in Seq(DOMAIN recs)
  BY DEF TypeOK
<1>2. PICK i \in DOMAIN c : target = c[i]
  <2>1. Range(c) = {t \in DOMAIN recs : recs[t].key = recs[target].key}
    BY DEF ChainInv, ChainsLinear
  <2> HIDE DEF c
  <2>2. QED
    BY <2>1 DEF Range
<1> HIDE DEF c
<1>3. i \in 1..Len(c) /\ Len(c) \in Nat
  BY <1>1, <1>2
<1>4. CASE i = Len(c)
  BY <1>2, <1>3, <1>4 DEF c
<1>5. CASE i # Len(c)
  <2>1. i + 1 \in DOMAIN c /\ i + 1 # 1 /\ (i + 1) - 1 = i
    BY <1>1, <1>3, <1>5
  <2>2. recs[c[i + 1]].replayOf = c[i]
    <3>1. recs[c[i + 1]].replayOf = IF i + 1 = 1 THEN NoID ELSE c[(i + 1) - 1]
      BY <2>1 DEF ChainInv, ChainsLinear, c
    <3>2. QED
      BY <2>1, <3>1
  <2>3. target # NoID /\ c[i + 1] \in DOMAIN recs
    BY <1>1, <2>1, ConstantsAssumption DEF NoID, TypeOK, IsStore
  <2>4. target \in replayed
    BY <1>2, <2>2, <2>3 DEF ChainInv, ReplaysRecorded
  <2>5. QED
    BY <2>4
<1>6. QED
  BY <1>4, <1>5

\* A new record joins the end of the chain of its key.
LEMMA ChainsGrow ==
  ASSUME TypeOK, ChainInv, AddStep
  PROVE  ChainInv'
<1>1. PICK id \in Tasks \ DOMAIN recs, r \in Record :
        /\ recs' = Put(id, r)
        /\ chains' = Link(r.key, id)
        /\ \/ r.replayOf = NoID /\ KeyIsFree(r.key) /\ replayed' = replayed
           \/ /\ r.replayOf \in DOMAIN recs \ replayed
              /\ IsFinal(recs[r.replayOf].status)
              /\ r.key = recs[r.replayOf].key
              /\ replayed' = replayed \cup {r.replayOf}
  BY DEF AddStep
<1>2. /\ DOMAIN recs' = DOMAIN recs \cup {id} /\ recs'[id] = r
      /\ \A u \in DOMAIN recs : recs'[u] = recs[u]
  BY <1>1 DEF Put
<1>3. r.key \in Keys \cup {NoKey} /\ NoKey \notin Keys
  BY ConstantsAssumption DEF Record
<1>4. \A k \in Keys : chains[k] \in Seq(DOMAIN recs)
  BY DEF TypeOK
<1>5. DOMAIN recs \subseteq Tasks /\ NoID \notin DOMAIN recs
  BY ConstantsAssumption DEF TypeOK, IsStore, NoID
<1>6. ASSUME NEW k \in Keys
      PROVE  chains'[k] = IF k = r.key THEN Append(chains[k], id) ELSE chains[k]
  BY <1>1, <1>3 DEF Link, TypeOK
<1>7. ASSUME NEW k \in Keys, k # r.key
      PROVE  /\ Range(chains'[k]) = {t \in DOMAIN recs' : recs'[t].key = k}
             /\ \A i \in DOMAIN chains'[k] :
                  /\ recs'[chains'[k][i]].replayOf = IF i = 1 THEN NoID ELSE chains'[k][i-1]
                  /\ i < Len(chains'[k]) => IsFinal(recs'[chains'[k][i]].status)
  <2>1. chains'[k] = chains[k]
    BY <1>6, <1>7
  <2>2. \A i \in DOMAIN chains[k] : chains[k][i] \in DOMAIN recs
    BY <1>4
  <2>3. Range(chains[k]) = {t \in DOMAIN recs : recs[t].key = k}
    BY DEF ChainInv, ChainsLinear
  <2>4. Range(chains[k]) = {t \in DOMAIN recs' : recs'[t].key = k}
    BY <1>2, <1>7, <2>3
  <2>5. QED
    BY <1>2, <2>1, <2>2, <2>4 DEF ChainInv, ChainsLinear
<1>8. ASSUME NEW k \in Keys, k = r.key
      PROVE  /\ Range(chains'[k]) = {t \in DOMAIN recs' : recs'[t].key = k}
             /\ \A i \in DOMAIN chains'[k] :
                  /\ recs'[chains'[k][i]].replayOf = IF i = 1 THEN NoID ELSE chains'[k][i-1]
                  /\ i < Len(chains'[k]) => IsFinal(recs'[chains'[k][i]].status)
  <2> DEFINE c == chains[k]
             d == Append(c, id)
             n == Len(c)
  <2>1. chains'[k] = d
    BY <1>6, <1>8
  <2>2. c \in Seq(DOMAIN recs)
    BY <1>4
  <2>3. /\ Range(d) = Range(c) \cup {id} /\ Len(d) = n + 1 /\ n \in Nat
        /\ DOMAIN d = 1..(n + 1) /\ DOMAIN c = 1..n
        /\ \A i \in DOMAIN c : d[i] = c[i]
        /\ d[n + 1] = id
    BY <2>2, AppendElements
  <2>4. Range(c) = {t \in DOMAIN recs : recs[t].key = k}
    BY DEF ChainInv, ChainsLinear
  <2>5. \A i \in DOMAIN c : /\ c[i] \in DOMAIN recs
                            /\ recs[c[i]].replayOf = IF i = 1 THEN NoID ELSE c[i-1]
                            /\ i < n => IsFinal(recs[c[i]].status)
    BY <2>2 DEF ChainInv, ChainsLinear
  <2>6. /\ n = 0 => r.replayOf = NoID
        /\ n # 0 => r.replayOf = c[n] /\ IsFinal(recs[c[n]].status)
    <3>1. CASE r.replayOf = NoID
      <4>1. c = <<>>
        BY <1>1, <1>3, <1>5, <1>8, <3>1 DEF KeyIsFree
      <4>2. QED
        BY <3>1, <4>1
    <3>2. CASE r.replayOf # NoID
      <4>1. /\ r.replayOf \in DOMAIN recs \ replayed /\ IsFinal(recs[r.replayOf].status)
            /\ recs[r.replayOf].key = k
        BY <1>1, <1>8, <3>2
      <4>2. n # 0 /\ r.replayOf = c[n]
        BY <4>1, TargetIsNewest
      <4>3. QED
        BY <4>1, <4>2
    <3>3. QED
      BY <3>1, <3>2
  <2> HIDE DEF c, d, n
  <2>7. Range(d) = {t \in DOMAIN recs' : recs'[t].key = k}
    BY <1>2, <1>8, <2>3, <2>4
  <2>8. ASSUME NEW i \in DOMAIN d
        PROVE  /\ recs'[d[i]].replayOf = IF i = 1 THEN NoID ELSE d[i-1]
               /\ i < Len(d) => IsFinal(recs'[d[i]].status)
    <3>1. CASE i \in DOMAIN c
      <4>1. d[i] = c[i] /\ recs'[c[i]] = recs[c[i]] /\ (i # 1 => d[i-1] = c[i-1])
        BY <1>2, <2>3, <2>5, <3>1
      <4>2. i < Len(d) => i < n \/ i = n
        BY <2>3, <3>1
      <4>3. IsFinal(recs[c[i]].status)
        BY <2>3, <2>5, <2>6, <3>1, <4>2
      <4>4. QED
        BY <2>5, <3>1, <4>1, <4>3
    <3>2. CASE i = n + 1
      BY <1>2, <2>3, <2>6, <3>2
    <3>3. QED
      BY <2>3, <3>1, <3>2
  <2>9. QED
    BY <2>1, <2>7, <2>8
<1>9. \A t, u \in DOMAIN recs' :
        t # u /\ recs'[t].replayOf # NoID => recs'[t].replayOf # recs'[u].replayOf
  <2>1. \A t \in DOMAIN recs : recs[t].replayOf # NoID => recs[t].replayOf # r.replayOf
    BY <1>1 DEF ChainInv, ReplaysRecorded
  <2>2. \A t, u \in DOMAIN recs :
          t # u /\ recs[t].replayOf # NoID => recs[t].replayOf # recs[u].replayOf
    BY DEF ChainInv, ChainsLinear
  <2>3. QED
    BY <1>2, <2>1, <2>2
<1>10. ReplaysRecorded'
  BY <1>1, <1>2 DEF ChainInv, ReplaysRecorded
<1>11. ChainsLinear'
  BY <1>7, <1>8, <1>9 DEF ChainsLinear
<1>12. QED
  BY <1>10, <1>11 DEF ChainInv

\* Identity: a key has one linear history, each execution the replay of the one
\* before it and only the newest not final, for any interleaving of Enqueue and
\* the two kinds of Replay.
THEOREM HistoriesLinear == Spec => []ChainsLinear
<1>1. Init => ChainInv
  <2>1. SUFFICES ASSUME Init PROVE ChainInv
    OBVIOUS
  <2>2. DOMAIN recs = {} /\ \A k \in Keys : chains[k] = <<>>
    BY <2>1 DEF Init
  <2>3. \A k \in Keys : DOMAIN chains[k] = {} /\ Range(chains[k]) = {}
    BY <2>2 DEF Range
  <2>4. QED
    BY <2>2, <2>3 DEF ChainInv, ChainsLinear, ReplaysRecorded
<1>2. TypeOK /\ PendingParentsExact /\ DepsSatisfied /\ ChainInv /\ [Next]_vars => ChainInv'
  <2>1. SUFFICES ASSUME TypeOK, PendingParentsExact, DepsSatisfied, ChainInv, [Next]_vars
                 PROVE  ChainInv'
    OBVIOUS
  <2>2. CASE MoveStep
    <3>1. ASSUME NEW t \in DOMAIN recs
          PROVE  /\ SameIdentity(recs[t], recs'[t])
                 /\ IsFinal(recs[t].status) => IsFinal(recs'[t].status)
      <4>1. Moves(recs[t], recs'[t])
        BY <2>2 DEF MoveStep, AllMove
      <4>2. SameIdentity(recs[t], recs[t])
        BY DEF SameIdentity
      <4>3. recs'[t] = recs[t] \/ (~IsFinal(recs[t].status) /\ SameIdentity(recs[t], recs'[t]))
        BY <4>1 DEF Moves, PropagateMoves, IsFinal
      <4>4. QED
        BY <4>2, <4>3
    <3>2. QED
      BY <2>1, <2>2, <3>1, ChainsKept DEF MoveStep, AllMove
  <2>3. CASE ClaimStep
    <3>1. PICK t \in DOMAIN recs : Queued(recs[t].status)
                                   /\ recs' = [recs EXCEPT ![t] = Claimed(recs[t])]
      BY <2>3 DEF ClaimStep
    <3>2. DOMAIN recs' = DOMAIN recs /\ recs'[t] = Claimed(recs[t])
          /\ \A u \in DOMAIN recs \ {t} : recs'[u] = recs[u]
      BY <3>1
    <3>3. SameIdentity(recs[t], Claimed(recs[t]))
      BY <2>1 DEF Claimed, Record, SameIdentity, TypeOK, IsStore
    <3>4. ~IsFinal(recs[t].status)
      BY <3>1 DEF Queued, IsFinal
    <3>5. \A u \in DOMAIN recs : /\ SameIdentity(recs[u], recs'[u])
                                 /\ IsFinal(recs[u].status) => IsFinal(recs'[u].status)
      <4>1. SameIdentity(recs[t], recs'[t]) /\ (IsFinal(recs[t].status) => IsFinal(recs'[t].status))
        BY <3>2, <3>3, <3>4
      <4>2. \A u \in DOMAIN recs \ {t} : /\ SameIdentity(recs[u], recs'[u])
                                         /\ IsFinal(recs[u].status) => IsFinal(recs'[u].status)
        BY <3>2 DEF SameIdentity
      <4>3. QED
        BY <4>1, <4>2
    <3>6. QED
      BY <2>1, <2>3, <3>2, <3>5, ChainsKept DEF ClaimStep
  <2>4. CASE AddStep
    BY <2>1, <2>4, ChainsGrow
  <2>5. QED
    BY <2>1, <2>2, <2>3, <2>4, DepInvSettled, StepShape
<1>3. QED
  BY <1>1, <1>2, DependencySafety, PTL DEF Spec, ChainInv

-------------------------------------------------------------------------------
(* Why propagation changes a status.                                       *)

\* Nothing is canceled without a cause: every member of the cascade has a
\* parent that broke or that the cascade canceled (Cascade is the least set).
LEMMA CascadeCaused ==
  ASSUME NEW rs, NEW R, NEW c \in Cascade(rs, R)
  PROVE  Parents(rs[c]) \cap (Broken(rs, R) \cup Cascade(rs, R)) # {}
<1> DEFINE B == Broken(rs, R)
           K == Cascade(rs, R)
           S == K \ {c}
<1>1. SUFFICES ASSUME Parents(rs[c]) \cap (B \cup K) = {} PROVE FALSE
  OBVIOUS
<1>2. K \subseteq DOMAIN rs /\ CascadeClosed(rs, B, K)
  BY CascadeProperties
<1>3. CascadeClosed(rs, B, S)
  <2>1. SUFFICES ASSUME NEW d \in DOMAIN rs, Cancelable(rs[d]), Parents(rs[d]) \cap (B \cup S) # {}
                 PROVE  d \in S
    BY DEF CascadeClosed
  <2>2. Parents(rs[d]) \cap (B \cup K) # {}
    BY <2>1
  <2>3. d \in K
    BY <1>2, <2>1, <2>2 DEF CascadeClosed
  <2>4. QED
    BY <1>1, <2>2, <2>3
<1>4. c \in S
  BY <1>2, <1>3 DEF Cascade
<1>5. QED
  BY <1>4

\* Task t went from rs0 to rs2, rs1 being the records before propagation: it was
\* written, or it waited and was woken, or it waited and a parent broke it.
Explained(rs0, rs1, rs2, t) ==
  /\ rs2[t].dependsOn = rs0[t].dependsOn
  /\ rs2[t].policy = rs0[t].policy
  /\ \/ rs2[t].status = rs1[t].status
     \/ /\ rs0[t].status = "blocked" /\ rs1[t].status = "blocked"
        /\ rs2[t].status = "pending"
     \/ /\ rs0[t].status = "blocked" /\ rs1[t].status = "blocked"
        /\ rs2[t].status = "canceled" /\ rs0[t].policy = "fail_fast"
        /\ \E p \in Parents(rs0[t]) : ParentBroke(rs2[p].status)

\* In a settled graph propagation changes only blocked tasks: it wakes one, or
\* cancels one because a parent broke.
LEMMA PropagateExplained ==
  ASSUME NEW rs0, NEW rs1, NEW R, NEW t \in DOMAIN rs0,
         IsStore(rs0), IsStore(rs1), Settled(rs0), Writes(rs0, rs1, R)
  PROVE  Explained(rs0, rs1, Propagate(rs1, R), t)
<1> DEFINE K == Cascade(rs1, R)
           rs2 == Propagate(rs1, R)
           D == DOMAIN rs0
<1>1. /\ DOMAIN rs1 = D /\ R \subseteq D
      /\ \A c \in D : rs0[c] \in Record /\ rs1[c] \in Record
  BY DEF IsStore, Writes
<1>2. K \subseteq D /\ \A c \in K : Cancelable(rs1[c])
  BY <1>1, CascadeProperties
<1>3. ASSUME NEW c \in D
      PROVE  /\ rs2[c].dependsOn = rs1[c].dependsOn
             /\ rs2[c].policy = rs1[c].policy
             /\ c \in K => rs2[c].status = "canceled"
             /\ c \notin K /\ IsFinal(rs1[c].status) => rs2[c].status = rs1[c].status
             /\ c \notin K => \/ rs2[c].status = rs1[c].status
                              \/ rs1[c].status = "blocked" /\ rs2[c].status = "pending"
  <2> DEFINE new == Parents(rs1[c]) \cap (R \cup K)
             good == {p \in new : Satisfied(IF p \in K THEN "canceled" ELSE rs1[p].status,
                                            rs1[c].policy)}
             n == Cardinality(good)
             left == IF rs1[c].pendingParents > n THEN rs1[c].pendingParents - n ELSE 0
  <2>1. c \in DOMAIN rs1 /\ \A d \in DOMAIN rs1 : rs1[d] \in Record
    BY <1>1
  <2>2. /\ IsFiniteSet(good) /\ n \in Nat
        /\ rs2[c].dependsOn = rs1[c].dependsOn
        /\ rs2[c].policy = rs1[c].policy
        /\ c \in K => rs2[c].status = "canceled"
        /\ c \notin K /\ IsFinal(rs1[c].status) => rs2[c].status = rs1[c].status
        /\ c \notin K /\ ~IsFinal(rs1[c].status) =>
             /\ rs2[c].pendingParents = left
             /\ rs2[c].status = IF n > 0 /\ left = 0 /\ rs1[c].status = "blocked"
                                THEN "pending" ELSE rs1[c].status
    BY <2>1, PropagateFields, ZenonT(60)
  <2> HIDE DEF K, n, left, rs2
  <2>3. QED
    BY <2>2
<1> HIDE DEF K, rs2
<1>4. ASSUME NEW c \in K
      PROVE  /\ rs1[c].policy = "fail_fast" /\ ~IsFinal(rs1[c].status) /\ c \notin R
             /\ ~IsFinal(rs0[c].status)
  <2>1. rs1[c].policy = "fail_fast" /\ ~IsFinal(rs1[c].status)
    BY <1>1, <1>2 DEF Cancelable, CanTransition, legalTransitions, IsFinal, Statuses, Record
  <2>2. QED
    BY <1>1, <1>2, <2>1 DEF Writes, IsFinal, Live
<1>5. /\ rs2[t].dependsOn = rs0[t].dependsOn /\ rs2[t].policy = rs0[t].policy
      /\ Parents(rs1[t]) = Parents(rs0[t])
  BY <1>1, <1>3 DEF Writes, Parents
<1>6. CASE t \in K
  <2>1. PICK p \in Parents(rs1[t]) : p \in Broken(rs1, R) \cup K
    BY <1>6, CascadeCaused DEF K
  <2>2. p \in D /\ ParentBroke(rs2[p].status) /\ ~IsFinal(rs0[p].status)
    <3>1. CASE p \in K
      BY <1>2, <1>3, <1>4, <3>1 DEF ParentBroke
    <3>2. CASE p \notin K
      <4>1. p \in R /\ ParentBroke(rs1[p].status)
        BY <2>1, <3>2 DEF Broken
      <4>2. rs2[p].status = rs1[p].status
        BY <1>1, <1>3, <3>2, <4>1 DEF ParentBroke, IsFinal
      <4>3. QED
        BY <1>1, <4>1, <4>2 DEF Writes
    <3>3. QED
      BY <3>1, <3>2
  <2>3. rs0[t].status = "blocked"
    <3>1. rs0[t].status \in {"blocked", "canceled"}
      BY <1>5, <2>1, <2>2 DEF Settled, RunsRightly
    <3>2. QED
      BY <1>4, <1>6, <3>1 DEF IsFinal
  <2>4. rs1[t].status = "blocked" /\ rs0[t].policy = "fail_fast"
    BY <1>4, <1>6, <2>3 DEF Writes, Live
  <2>5. QED
    BY <1>3, <1>5, <1>6, <2>1, <2>2, <2>3, <2>4 DEF Explained, rs2
<1>7. CASE t \notin K
  <2>1. rs1[t].status = "blocked" => rs0[t].status = "blocked"
    BY <1>1 DEF Writes, Live, IsFinal
  <2>2. QED
    BY <1>3, <1>5, <1>7, <2>1 DEF Explained, rs2
<1>8. QED
  BY <1>6, <1>7

-------------------------------------------------------------------------------
(* The mapping, and the abstract actions in terms of the records.          *)

\* The vocabulary the abstract specification shares with the broker.
LEMMA SameVocabulary ==
  /\ \A s : Lifecycle!IsFinal(s) <=> IsFinal(s)
  /\ \A s : Lifecycle!ParentBroke(s) <=> ParentBroke(s)
  /\ \A s1, s2 : Lifecycle!CanTransition(s1, s2) <=> CanTransition(s1, s2)
  /\ Lifecycle!Policies = Policies
  BY DEF Lifecycle!IsFinal, IsFinal, Lifecycle!ParentBroke, ParentBroke,
         Lifecycle!CanTransition, CanTransition, Lifecycle!legalTransitions, legalTransitions,
         Lifecycle!Statuses, Statuses, Lifecycle!Policies, Policies

\* The status the parents of t dictate, read from the records.
VerdictOf(P, pol, rs) ==
  IF pol = "fail_fast" /\ \E p \in P : ParentBroke(rs[p].status) THEN "canceled"
  ELSE IF \E p \in P : ~IsFinal(rs[p].status) THEN "blocked"
  ELSE "pending"

\* The abstract verdict is the verdict on the records.
LEMMA VerdictMapped ==
  ASSUME NEW rs, NEW P, P \subseteq DOMAIN rs, NEW pol
  PROVE  Lifecycle!Verdict(P, pol, [t \in DOMAIN rs |-> rs[t].status]) = VerdictOf(P, pol, rs)
<1> DEFINE st == [t \in DOMAIN rs |-> rs[t].status]
<1>1. \A p \in P : st[p] = rs[p].status
  OBVIOUS
<1> HIDE DEF st
<1>2. Lifecycle!Verdict(P, pol, st) = VerdictOf(P, pol, rs)
  BY <1>1, SameVocabulary DEF Lifecycle!Verdict, VerdictOf
<1>3. QED
  BY <1>2 DEF st

\* In a settled graph every waiting task has the status its parents dictate.
LEMMA SettledVerdict ==
  ASSUME NEW rs, IsStore(rs), Settled(rs), NEW t \in DOMAIN rs,
         \/ rs[t].status \in {"blocked", "pending"}
         \/ /\ rs[t].status = "canceled" /\ rs[t].policy = "fail_fast"
            /\ \E p \in Parents(rs[t]) : ParentBroke(rs[p].status)
  PROVE  rs[t].status = VerdictOf(Parents(rs[t]), rs[t].policy, rs)
<1>1. CASE rs[t].status = "blocked"
  BY <1>1 DEF Settled, WaitsRightly, OpenParents, VerdictOf
<1>2. CASE rs[t].status = "pending"
  BY <1>2 DEF Settled, RunsRightly, VerdictOf, ParentBroke, IsFinal
<1>3. CASE rs[t].status = "canceled"
  BY <1>3 DEF VerdictOf
<1>4. QED
  BY <1>1, <1>2, <1>3

\* A step that moves the tasks of X by themselves, and any other only as a
\* consequence, is an abstract Move.
LEMMA MoveMapped ==
  ASSUME TypeOK, TypeOK', Settled(recs'), DOMAIN recs' = DOMAIN recs,
         NEW X, X \subseteq DOMAIN recs,
         \A t \in DOMAIN recs : /\ recs'[t].dependsOn = recs[t].dependsOn
                                /\ recs'[t].policy = recs[t].policy,
         \A t \in X : /\ CanTransition(recs[t].status, recs'[t].status)
                      /\ recs[t].status = "blocked" => recs'[t].status = "canceled",
         \A t \in DOMAIN recs \ X :
           \/ recs'[t].status = recs[t].status
           \/ recs[t].status = "blocked" /\ recs'[t].status = "pending"
           \/ /\ recs[t].status = "blocked" /\ recs'[t].status = "canceled"
              /\ recs[t].policy = "fail_fast"
              /\ \E p \in Parents(recs[t]) : ParentBroke(recs'[p].status)
  PROVE  Lifecycle!Move(X)
<1> DEFINE D == DOMAIN recs
           st(rs) == [t \in DOMAIN rs |-> rs[t].status]
           pa(rs) == [t \in DOMAIN rs |-> Parents(rs[t])]
           po(rs) == [t \in DOMAIN rs |-> rs[t].policy]
<1>1. \A t \in D : Parents(recs'[t]) = Parents(recs[t]) /\ Parents(recs[t]) \subseteq D
  BY DEF Parents, TypeOK, IsStore
<1>2. pa(recs') = pa(recs) /\ po(recs') = po(recs)
  BY <1>1
<1>3. ASSUME NEW t \in D \ X
      PROVE  recs'[t].status = IF recs[t].status = "blocked"
                               THEN Lifecycle!Verdict(Parents(recs[t]), recs[t].policy, st(recs'))
                               ELSE recs[t].status
  <2>1. CASE recs[t].status # "blocked"
    BY <2>1
  <2>2. CASE recs[t].status = "blocked"
    <3>1. recs'[t].status = VerdictOf(Parents(recs'[t]), recs'[t].policy, recs')
      BY <1>1, <2>2, SettledVerdict DEF TypeOK
    <3>2. Lifecycle!Verdict(Parents(recs[t]), recs[t].policy, st(recs'))
            = VerdictOf(Parents(recs[t]), recs[t].policy, recs')
      BY <1>1, VerdictMapped
    <3>3. QED
      BY <1>1, <2>2, <3>1, <3>2
  <2>3. QED
    BY <2>1, <2>2
<1>4. DOMAIN st(recs) = D /\ DOMAIN st(recs') = D
      /\ \A t \in D : /\ st(recs)[t] = recs[t].status /\ st(recs')[t] = recs'[t].status
                      /\ pa(recs)[t] = Parents(recs[t]) /\ po(recs)[t] = recs[t].policy
  OBVIOUS
<1> HIDE DEF st, pa, po
<1>5. \A t \in D \ X :
        st(recs')[t] = IF st(recs)[t] = "blocked"
                       THEN Lifecycle!Verdict(pa(recs)[t], po(recs)[t], st(recs'))
                       ELSE st(recs)[t]
  BY <1>3, <1>4
<1>6. \A t \in X : /\ Lifecycle!CanTransition(st(recs)[t], st(recs')[t])
                   /\ st(recs)[t] = "blocked" => st(recs')[t] = "canceled"
  BY <1>4, SameVocabulary
<1>7. QED
  BY <1>2, <1>4, <1>5, <1>6, Zenon DEF Lifecycle!Move, Lifecycle!Consequences, st, pa, po

-------------------------------------------------------------------------------
(* The operations.                                                         *)

\* A Move of one task, or of none, is a step of the lifecycle.
LEMMA MoveIsNext ==
  /\ \A t \in DOMAIN recs : Lifecycle!Move({t}) => Lifecycle!Next
  /\ Lifecycle!Move({}) => Lifecycle!Next
<1>1. DOMAIN [t \in DOMAIN recs |-> recs[t].status] = DOMAIN recs
  OBVIOUS
<1>2. Lifecycle!Move({}) => Lifecycle!Expire({})
  BY DEF Lifecycle!Expire
<1>3. QED
  BY <1>1, <1>2 DEF Lifecycle!Next

\* Ack, FinishCanceled, Cancel and the last Fail: one task ends and the tasks
\* that wait for it follow in the same step.
LEMMA GoFinalMapped ==
  ASSUME TypeOK, Settled(recs), TypeOK', Settled(recs'),
         NEW id \in DOMAIN recs, NEW r \in Record,
         ~IsFinal(recs[id].status), IsFinal(r.status),
         CanTransition(recs[id].status, r.status),
         r.status # "canceled" => recs[id].status \in Live,
         r.dependsOn = recs[id].dependsOn, r.policy = recs[id].policy,
         r.pendingParents = recs[id].pendingParents,
         GoFinal(id, r)
  PROVE  Lifecycle!Next
<1> DEFINE rs1 == [recs EXCEPT ![id] = r]
<1>1. IsStore(recs)
  BY DEF TypeOK
<1>2. IsStore(rs1) /\ DOMAIN rs1 = DOMAIN recs
  BY <1>1, OneWrite
<1>3. Writes(recs, rs1, {id})
  BY <1>2 DEF Writes, IsFinal, ParentBroke
<1>4. recs' = Propagate(rs1, {id})
  BY DEF GoFinal
<1>5. rs1[id].status = r.status /\ \A t \in DOMAIN recs \ {id} : rs1[t] = recs[t]
  OBVIOUS
<1> HIDE DEF rs1
<1>6. DOMAIN recs' = DOMAIN recs
  BY <1>2, <1>4, PropagateType DEF IsStore
<1>7. \A t \in DOMAIN recs : Explained(recs, rs1, recs', t)
  BY <1>1, <1>2, <1>3, <1>4, PropagateExplained
<1>8. recs'[id].status = r.status
  BY <1>5, <1>7 DEF Explained, IsFinal
<1>9. \A t \in DOMAIN recs \ {id} :
        \/ recs'[t].status = recs[t].status
        \/ recs[t].status = "blocked" /\ recs'[t].status = "pending"
        \/ /\ recs[t].status = "blocked" /\ recs'[t].status = "canceled"
           /\ recs[t].policy = "fail_fast"
           /\ \E p \in Parents(recs[t]) : ParentBroke(recs'[p].status)
  BY <1>5, <1>7 DEF Explained
<1>10. recs[id].status = "blocked" => recs'[id].status = "canceled"
  BY <1>8 DEF Live
<1>11. \A t \in DOMAIN recs : /\ recs'[t].dependsOn = recs[t].dependsOn
                              /\ recs'[t].policy = recs[t].policy
  BY <1>7 DEF Explained
<1>12. Lifecycle!Move({id})
  BY <1>6, <1>8, <1>9, <1>10, <1>11, MoveMapped
<1>13. QED
  BY <1>12, MoveIsNext

\* Dequeue, a retry, Requeue, Heartbeat and the flag of Cancel: one task is
\* written and no other is affected.
LEMMA WriteMapped ==
  ASSUME TypeOK, TypeOK', Settled(recs'), NEW id \in DOMAIN recs, NEW r \in Record,
         r.dependsOn = recs[id].dependsOn, r.policy = recs[id].policy,
         \/ r.status = recs[id].status
         \/ CanTransition(recs[id].status, r.status) /\ recs[id].status \in Live,
         recs' = [recs EXCEPT ![id] = r]
  PROVE  Lifecycle!Next
<1>1. /\ DOMAIN recs' = DOMAIN recs /\ recs'[id] = r
      /\ \A t \in DOMAIN recs \ {id} : recs'[t] = recs[t]
  OBVIOUS
<1>2. \A t \in DOMAIN recs : /\ recs'[t].dependsOn = recs[t].dependsOn
                             /\ recs'[t].policy = recs[t].policy
  BY <1>1
<1>3. CASE r.status = recs[id].status
  <2>1. \A t \in DOMAIN recs : recs'[t].status = recs[t].status
    BY <1>1, <1>3
  <2>2. Lifecycle!Move({})
    BY <1>1, <1>2, <2>1, MoveMapped
  <2>3. QED
    BY <2>2, MoveIsNext
<1>4. CASE CanTransition(recs[id].status, r.status) /\ recs[id].status \in Live
  <2>1. recs[id].status # "blocked"
    BY <1>4 DEF Live
  <2>2. Lifecycle!Move({id})
    BY <1>1, <1>2, <1>4, <2>1, MoveMapped
  <2>3. QED
    BY <2>2, MoveIsNext
<1>5. QED
  BY <1>3, <1>4

\* Enqueue and Replay create a task with the status its parents dictate.
LEMMA PutMapped ==
  ASSUME TypeOK, Settled(recs), NEW id \in Tasks \ DOMAIN recs, NEW r \in Record,
         Parents(r) \subseteq DOMAIN recs,
         r.status = VerdictOf(Parents(r), r.policy, recs),
         recs' = Put(id, r)
  PROVE  Lifecycle!Next
<1> DEFINE st(rs) == [t \in DOMAIN rs |-> rs[t].status]
           pa(rs) == [t \in DOMAIN rs |-> Parents(rs[t])]
           po(rs) == [t \in DOMAIN rs |-> rs[t].policy]
           D == DOMAIN recs
<1>1. /\ DOMAIN recs' = D \cup {id} /\ recs'[id] = r
      /\ \A t \in D : recs'[t] = recs[t]
  BY DEF Put
<1>2. /\ DOMAIN st(recs) = D /\ DOMAIN st(recs') = D \cup {id}
      /\ DOMAIN pa(recs') = D \cup {id} /\ DOMAIN po(recs') = D \cup {id}
      /\ \A t \in D : /\ st(recs)[t] = recs[t].status
                      /\ pa(recs)[t] = Parents(recs[t]) /\ po(recs)[t] = recs[t].policy
      /\ \A t \in D \cup {id} : /\ st(recs')[t] = recs'[t].status
                                /\ pa(recs')[t] = Parents(recs'[t]) /\ po(recs')[t] = recs'[t].policy
  BY <1>1
<1>3. Lifecycle!Verdict(Parents(r), r.policy, st(recs)) = r.status
  BY VerdictMapped
<1> HIDE DEF st, pa, po
<1>4. /\ st(recs')[id] = Lifecycle!Verdict(pa(recs')[id], po(recs')[id], st(recs))
      /\ pa(recs')[id] \subseteq D
      /\ po(recs')[id] \in Lifecycle!Policies
  <2>1. r.policy \in Policies
    BY DEF Record
  <2>2. QED
    BY <1>1, <1>2, <1>3, <2>1, SameVocabulary
<1>5. \A t \in D : /\ st(recs')[t] = st(recs)[t]
                   /\ pa(recs')[t] = pa(recs)[t]
                   /\ po(recs')[t] = po(recs)[t]
  BY <1>1, <1>2
<1>6. Lifecycle!Create(id)
  BY <1>2, <1>4, <1>5, Zenon DEF Lifecycle!Create, st, pa, po
<1>7. QED
  BY <1>6, Zenon DEF Lifecycle!Next

\* A reaper moves the tasks of E together: none of them to completed.
LEMMA TakenBackMapped ==
  ASSUME TypeOK, Settled(recs), TypeOK', Settled(recs'),
         NEW E, E \subseteq {t \in DOMAIN recs : recs[t].status = "running"},
         recs' = Propagate(TakenBack(E), {t \in E : IsFinal(TakenBack(E)[t].status)})
  PROVE  Lifecycle!Next
<1>1. PICK r1, R : r1 = TakenBack(E) /\ R = {t \in E : IsFinal(TakenBack(E)[t].status)}
  OBVIOUS
<1>2. /\ IsStore(r1) /\ Writes(recs, r1, R)
      /\ \A t \in DOMAIN recs :
           IF t \in E THEN r1[t].status \in {"canceled", "failed", "pending"}
                      ELSE r1[t] = recs[t]
  BY <1>1, TakenBackWrites
<1>3. recs' = Propagate(r1, R)
  BY <1>1
<1>4. DOMAIN recs' = DOMAIN recs
  BY <1>2, <1>3, PropagateType DEF IsStore, Writes
<1>5. \A t \in DOMAIN recs : Explained(recs, r1, recs', t)
  BY <1>2, <1>3, PropagateExplained DEF TypeOK
<1>6. \A t \in DOMAIN recs : /\ recs'[t].dependsOn = recs[t].dependsOn
                             /\ recs'[t].policy = recs[t].policy
  BY <1>5 DEF Explained
<1>7. \A t \in E : recs[t].status = "running" /\ recs'[t].status \in {"canceled", "failed", "pending"}
  BY <1>2, <1>5 DEF Explained
<1>8. \A t \in DOMAIN recs \ E :
        \/ recs'[t].status = recs[t].status
        \/ recs[t].status = "blocked" /\ recs'[t].status = "pending"
        \/ /\ recs[t].status = "blocked" /\ recs'[t].status = "canceled"
           /\ recs[t].policy = "fail_fast"
           /\ \E p \in Parents(recs[t]) : ParentBroke(recs'[p].status)
  BY <1>2, <1>5 DEF Explained
<1>9. E \subseteq DOMAIN recs
  OBVIOUS
<1>10. \A t \in E : /\ CanTransition(recs[t].status, recs'[t].status)
                    /\ recs[t].status = "blocked" => recs'[t].status = "canceled"
  BY <1>7, TransitionTable
<1>11. Lifecycle!Move(E)
  BY <1>4, <1>6, <1>8, <1>9, <1>10, MoveMapped
<1>12. Lifecycle!Expire(E)
  <2> DEFINE st(rs) == [t \in DOMAIN rs |-> rs[t].status]
  <2>1. \A t \in E : st(recs)[t] = recs[t].status /\ st(recs')[t] = recs'[t].status
    BY <1>4, <1>9
  <2> HIDE DEF st
  <2>2. \A t \in E : st(recs)[t] = "running" /\ st(recs')[t] \in {"pending", "failed", "canceled"}
    BY <1>7, <2>1
  <2>3. QED
    BY <1>11, <2>2, Zenon DEF Lifecycle!Expire, st
<1>13. E \in SUBSET DOMAIN [t \in DOMAIN recs |-> recs[t].status]
  BY <1>9
<1>14. QED
  BY <1>12, <1>13 DEF Lifecycle!Next

\* ReapExpired moves the overdue tasks.
LEMMA ReapMapped ==
  ASSUME TypeOK, Settled(recs), TypeOK', Settled(recs'), ReapExpired
  PROVE  Lifecycle!Next
<1>1. recs' = ReapLeases(recs)
  BY ReapStep
<1>2. QED
  BY <1>1, ReapWrites, TakenBackMapped

\* Enqueue: DecideOnSubmit is the verdict of the parents.
LEMMA EnqueueMapped ==
  ASSUME TypeOK, Settled(recs),
         NEW id \in Tasks, NEW deps \in Seq(Tasks), NEW policy \in Policies,
         NEW key \in Keys \cup {NoKey}, NEW queue \in Queues,
         NEW maxRetry \in MaxRetries, NEW delay \in Delays,
         Enqueue(id, deps, policy, key, queue, maxRetry, delay)
  PROVE  Lifecycle!Next
<1> DEFINE dec == DecideOnSubmit(ParentStates(recs, deps), policy)
           r == NewRecord(dec, deps, policy, key, NoID, queue, maxRetry, now + delay)
<1>1. /\ id \in Tasks \ DOMAIN recs /\ Range(deps) \subseteq DOMAIN recs
      /\ recs' = Put(id, r)
  BY DEF Enqueue, IsFreshID
<1>2. deps \in Seq(Tasks) /\ maxRetry \in Nat /\ now + delay \in Nat
  BY ConstantsAssumption DEF TypeOK
<1>3. /\ dec.status = VerdictOf(Range(deps), policy, recs)
      /\ dec.status \in {"blocked", "pending", "canceled"} /\ dec.pendingParents \in Nat
  <2> DEFINE P == ParentStates(recs, deps)
  <2>1. /\ NotFinal(P) = {p \in Range(deps) : ~IsFinal(recs[p].status)}
        /\ (\E i \in DOMAIN P : ParentBroke(P[i].status))
           <=> (\E p \in Range(deps) : ParentBroke(recs[p].status))
    BY <1>2, NotFinalIsOpen
  <2>2. dec.status \in {"blocked", "pending", "canceled"} /\ dec.pendingParents \in Nat
    BY <1>2, DecideOnSubmitMeaning
  <2>3. dec = DecideOnSubmit(P, policy)
    OBVIOUS
  <2> HIDE DEF P, dec
  <2>4. dec.status = VerdictOf(Range(deps), policy, recs)
    BY <2>1, <2>3 DEF DecideOnSubmit, VerdictOf
  <2>5. QED
    BY <2>2, <2>4
<1> HIDE DEF dec
<1>4. r \in Record /\ r.status = dec.status /\ r.dependsOn = deps /\ r.policy = policy
  BY <1>2, <1>3 DEF NewRecord, Record, NoToken, NoID, Statuses
<1>5. Parents(r) = Range(deps)
  BY <1>4 DEF Parents
<1> HIDE DEF r
<1>6. QED
  BY <1>1, <1>3, <1>4, <1>5, PutMapped

\* Replay: no parents, so the new execution is due at once.
LEMMA ReplayMapped ==
  ASSUME TypeOK, Settled(recs), NEW id \in Tasks, NEW target, NEW allowCompleted,
         ReplayTarget(id, target, allowCompleted)
  PROVE  Lifecycle!Next
<1> DEFINE dec == [status |-> "pending", pendingParents |-> 0]
           r == NewRecord(dec, <<>>, recs[target].policy, recs[target].key, target,
                          recs[target].queue, recs[target].maxRetry, now)
<1>1. id \in Tasks \ DOMAIN recs /\ target \in DOMAIN recs /\ recs' = Put(id, r)
  BY DEF ReplayTarget, IsFreshID
<1>2. recs[target] \in Record /\ target \in Tasks
  BY <1>1 DEF TypeOK, IsStore
<1>3. r \in Record /\ r.status = "pending" /\ r.dependsOn = <<>>
  <2>1. dec.status = "pending" /\ dec.status \in Statuses /\ dec.pendingParents \in Nat
        /\ <<>> \in Seq(Tasks)
    BY DEF Statuses
  <2>2. /\ recs[target].policy \in Policies /\ recs[target].key \in Keys \cup {NoKey}
        /\ recs[target].queue \in Queues /\ recs[target].maxRetry \in Nat /\ now \in Nat
    BY <1>2 DEF Record, TypeOK
  <2> HIDE DEF dec
  <2>3. QED
    BY <1>2, <2>1, <2>2 DEF NewRecord, Record, NoToken
<1>4. Parents(r) = {}
  BY <1>3 DEF Parents, Range
<1> HIDE DEF r
<1>5. r.status = VerdictOf(Parents(r), r.policy, recs)
  BY <1>3, <1>4 DEF VerdictOf
<1>6. QED
  BY <1>1, <1>3, <1>4, <1>5, PutMapped

\* A holder ends its task: Ack, FinishCanceled and the last Fail.
LEMMA EndMapped ==
  ASSUME TypeOK, Settled(recs), TypeOK', Settled(recs'), NEW id, NEW token,
         HoldsLease(id, token), NEW s \in {"completed", "failed", "canceled"},
         NEW r0 \in Record,
         r0.dependsOn = recs[id].dependsOn, r0.policy = recs[id].policy,
         r0.pendingParents = recs[id].pendingParents,
         GoFinal(id, Finished(r0, s))
  PROVE  Lifecycle!Next
<1> DEFINE r == Finished(r0, s)
<1>1. id \in DOMAIN recs /\ recs[id].status = "running"
  BY DEF HoldsLease
<1>2. r \in Record
  BY StatusWritesType DEF Statuses
<1>3. /\ r.status = s /\ r.dependsOn = r0.dependsOn /\ r.policy = r0.policy
      /\ r.pendingParents = r0.pendingParents
  BY DEF Finished, ClearLease, Record
<1>4. GoFinal(id, r)
  OBVIOUS
<1> HIDE DEF r
<1>5. /\ ~IsFinal(recs[id].status) /\ IsFinal(r.status)
      /\ CanTransition(recs[id].status, r.status) /\ recs[id].status \in Live
  BY <1>1, <1>3, TransitionTable DEF IsFinal, Live
<1>6. QED
  BY <1>1, <1>2, <1>3, <1>4, <1>5, GoFinalMapped

\* Fail: one more attempt, or the end.
LEMMA FailMapped ==
  ASSUME TypeOK, Settled(recs), TypeOK', Settled(recs'),
         NEW id, NEW token, NEW kind \in FailKinds, NEW delay \in Delays,
         Fail(id, token, kind, delay)
  PROVE  Lifecycle!Next
<1> DEFINE r == Counted(recs[id], kind)
           q == [ClearLease(r) EXCEPT !.status = "retrying", !.runAt = now + delay]
<1>1. /\ HoldsLease(id, token) /\ id \in DOMAIN recs /\ recs[id].status = "running"
      /\ recs[id] \in Record
  BY DEF Fail, HoldsLease, TypeOK, IsStore
<1>2. /\ r \in Record /\ r.dependsOn = recs[id].dependsOn /\ r.policy = recs[id].policy
      /\ r.pendingParents = recs[id].pendingParents
  <2> DEFINE a == IF kind = "business" THEN recs[id].attempts + 1 ELSE recs[id].attempts
             c == IF kind = "throttled" THEN recs[id].throttled + 1 ELSE recs[id].throttled
  <2>1. a \in Nat /\ c \in Nat
    BY <1>1 DEF Record
  <2>2. r = [recs[id] EXCEPT !.attempts = a, !.throttled = c]
    BY <1>1 DEF Counted
  <2> HIDE DEF a, c, r
  <2>3. QED
    BY <1>1, <2>1, <2>2 DEF Record
<1>3. now + delay \in Nat
  BY ConstantsAssumption DEF TypeOK
<1> HIDE DEF r
<1>4. CASE Exhausted(r, kind)
  <2>1. GoFinal(id, Finished(r, "failed"))
    BY <1>4 DEF Fail, r
  <2>2. QED
    BY <1>1, <1>2, <2>1, EndMapped
<1>5. CASE ~Exhausted(r, kind)
  <2>1. recs' = [recs EXCEPT ![id] = q]
    BY <1>5 DEF Fail, r
  <2>2. /\ q \in Record /\ q.status = "retrying"
        /\ q.dependsOn = r.dependsOn /\ q.policy = r.policy
    BY <1>2, <1>3 DEF ClearLease, Record, Statuses, NoToken
  <2> HIDE DEF q
  <2>3. CanTransition(recs[id].status, q.status) /\ recs[id].status \in Live
    BY <1>1, <2>2, TransitionTable DEF Live
  <2>4. QED
    BY <1>1, <1>2, <2>1, <2>2, <2>3, WriteMapped
<1>6. QED
  BY <1>4, <1>5

\* Dequeue, Requeue and Heartbeat write one live record.
LEMMA LiveMapped ==
  ASSUME TypeOK, TypeOK', Settled(recs')
  PROVE  /\ \A Q : Dequeue(Q) => Lifecycle!Next
         /\ \A id, token : Requeue(id, token) \/ Heartbeat(id, token) => Lifecycle!Next
<1>1. ASSUME NEW Q, Dequeue(Q) PROVE Lifecycle!Next
  <2>1. PICK t \in Ready(Q) : recs' = [recs EXCEPT ![t] = Claimed(recs[t])]
    BY <1>1 DEF Dequeue
  <2>2. t \in DOMAIN recs /\ Queued(recs[t].status) /\ recs[t] \in Record
    BY <2>1 DEF Ready, TypeOK, IsStore
  <2> DEFINE r == Claimed(recs[t])
  <2>3. r.dependsOn = recs[t].dependsOn /\ r.policy = recs[t].policy /\ r.status = "running"
    BY <2>2 DEF Claimed, Record
  <2>4. r = recs'[t]
    BY <2>1, <2>2
  <2>5. r \in Record
    BY <2>1, <2>2, <2>4 DEF TypeOK, IsStore
  <2> HIDE DEF r
  <2>6. CanTransition(recs[t].status, r.status) /\ recs[t].status \in Live
    BY <2>2, <2>3, TransitionTable DEF Queued, Live
  <2>7. recs' = [recs EXCEPT ![t] = r]
    BY <2>1 DEF r
  <2>8. QED
    BY <2>2, <2>3, <2>5, <2>6, <2>7, WriteMapped
<1>2. ASSUME NEW id, NEW token, Requeue(id, token) PROVE Lifecycle!Next
  <2> DEFINE r == Returned(recs[id])
  <2>1. /\ id \in DOMAIN recs /\ recs[id].status = "running" /\ recs[id] \in Record
        /\ recs' = [recs EXCEPT ![id] = r]
    BY <1>2 DEF Requeue, HoldsLease, TypeOK, IsStore
  <2>2. /\ r \in Record /\ r.status = "pending"
        /\ r.dependsOn = recs[id].dependsOn /\ r.policy = recs[id].policy
    BY <2>1 DEF Returned, ClearLease, Record, Statuses, NoToken
  <2> HIDE DEF r
  <2>3. CanTransition(recs[id].status, r.status) /\ recs[id].status \in Live
    BY <2>1, <2>2, TransitionTable DEF Live
  <2>4. QED
    BY <2>1, <2>2, <2>3, WriteMapped
<1>3. ASSUME NEW id, NEW token, Heartbeat(id, token) PROVE Lifecycle!Next
  <2> DEFINE until == now + LeaseTTL[recs[id].queue]
             r == [recs[id] EXCEPT !.leaseUntil = until]
  <2>1. id \in DOMAIN recs /\ recs[id] \in Record
    BY <1>3 DEF Heartbeat, HoldsLease, TypeOK, IsStore
  <2>2. recs' = [recs EXCEPT ![id] = r]
    BY <1>3, <2>1 DEF Heartbeat
  <2>3. until \in Nat
    BY <2>1, LeaseEnds
  <2> HIDE DEF until
  <2>4. /\ r \in Record /\ r.status = recs[id].status
        /\ r.dependsOn = recs[id].dependsOn /\ r.policy = recs[id].policy
    BY <2>1, <2>3 DEF Record
  <2> HIDE DEF r
  <2>5. QED
    BY <2>1, <2>2, <2>4, WriteMapped
<1>4. QED
  BY <1>1, <1>2, <1>3

\* Cancel: a running task is only flagged, any other ends.
LEMMA CancelMapped ==
  ASSUME TypeOK, Settled(recs), TypeOK', Settled(recs'), NEW id, Cancel(id)
  PROVE  Lifecycle!Next
<1>1. id \in DOMAIN recs /\ recs[id] \in Record /\ ~IsFinal(recs[id].status)
  BY DEF Cancel, TypeOK, IsStore
<1>2. CASE recs[id].status = "running"
  <2> DEFINE r == [recs[id] EXCEPT !.cancelRequested = TRUE]
  <2>1. recs' = [recs EXCEPT ![id] = r]
    BY <1>1, <1>2 DEF Cancel
  <2>2. /\ r \in Record /\ r.status = recs[id].status
        /\ r.dependsOn = recs[id].dependsOn /\ r.policy = recs[id].policy
    BY <1>1 DEF Record
  <2> HIDE DEF r
  <2>3. QED
    BY <1>1, <2>1, <2>2, WriteMapped
<1>3. CASE recs[id].status # "running"
  <2> DEFINE r == [ClearLease(recs[id]) EXCEPT !.status = "canceled"]
  <2>1. GoFinal(id, r)
    BY <1>3 DEF Cancel
  <2>2. /\ r \in Record /\ r.status = "canceled" /\ r.dependsOn = recs[id].dependsOn
        /\ r.policy = recs[id].policy /\ r.pendingParents = recs[id].pendingParents
    BY <1>1 DEF ClearLease, Record, Statuses, NoToken
  <2> HIDE DEF r
  <2>3. recs[id].status \in {"blocked", "pending", "retrying"}
    BY <1>1, <1>3 DEF Record, Statuses, IsFinal
  <2>4. IsFinal(r.status) /\ CanTransition(recs[id].status, r.status)
    BY <2>2, <2>3, TransitionTable DEF IsFinal
  <2>5. QED
    BY <1>1, <2>1, <2>2, <2>4, GoFinalMapped
<1>4. QED
  BY <1>2, <1>3

\* Every step of the broker is a step of the lifecycle or a stutter.
LEMMA NextMapped ==
  ASSUME TypeOK, Settled(recs), [Next]_vars
  PROVE  [Lifecycle!Next]_(Lifecycle!vars)
<1>1. TypeOK' /\ Settled(recs')
  BY NextStep
<1>2. CASE Submit
  <2>1. PICK id \in Tasks, s \in Submissions, queue \in Queues, maxRetry \in MaxRetries, delay \in Delays :
          Enqueue(id, s.deps, s.policy, s.key, queue, maxRetry, delay)
    BY <1>2 DEF Submit
  <2>2. s.deps \in Seq(Tasks) /\ s.policy \in Policies /\ s.key \in Keys \cup {NoKey}
    BY SubmissionsTyped
  <2>3. QED
    BY <2>1, <2>2, EnqueueMapped
<1>3. CASE \E Q \in SUBSET Queues \ {{}} : Dequeue(Q)
  BY <1>1, <1>3, LiveMapped
<1>4. CASE Report
  <2>1. PICK id \in Tasks, token \in 1..lastToken :
          \/ Ack(id, token)
          \/ \E kind \in FailKinds, delay \in Delays : Fail(id, token, kind, delay)
          \/ FinishCanceled(id, token)
          \/ Requeue(id, token)
          \/ Heartbeat(id, token)
    BY <1>4 DEF Report
  <2>2. CASE Ack(id, token) \/ FinishCanceled(id, token)
    <3>1. HoldsLease(id, token) /\ recs[id] \in Record
      BY <2>2 DEF Ack, FinishCanceled, HoldsLease, TypeOK, IsStore
    <3>2. QED
      BY <1>1, <2>2, <3>1, EndMapped DEF Ack, FinishCanceled
  <2>3. CASE \E kind \in FailKinds, delay \in Delays : Fail(id, token, kind, delay)
    BY <1>1, <2>3, FailMapped
  <2>4. CASE Requeue(id, token) \/ Heartbeat(id, token)
    BY <1>1, <2>4, LiveMapped
  <2>5. QED
    BY <2>1, <2>2, <2>3, <2>4
<1>5. CASE \E id \in Tasks : Cancel(id)
  BY <1>1, <1>5, CancelMapped
<1>6. CASE Replay
  BY <1>6, ReplayMapped DEF Replay, ReplayByID, ReplayByKey
<1>7. CASE ReapExpired
  BY <1>1, <1>7, ReapMapped
<1>8. CASE Close \/ Tick \/ UNCHANGED vars
  <2>1. recs' = recs
    BY <1>8 DEF Close, Tick, vars
  <2>2. QED
    BY <2>1 DEF Lifecycle!vars
<1>9. QED
  BY <1>2, <1>3, <1>4, <1>5, <1>6, <1>7, <1>8 DEF Next

\* The broker implements the abstract lifecycle, for any number of tasks.
THEOREM BrokerImplementsLifecycle == Spec => ImplementsLifecycle
<1>1. Init => Lifecycle!Init
  <2>1. SUFFICES ASSUME Init PROVE Lifecycle!Init
    OBVIOUS
  <2>2. DOMAIN recs = {}
    BY <2>1 DEF Init
  <2>3. QED
    BY <2>2 DEF Lifecycle!Init
<1>2. TypeOK /\ PendingParentsExact /\ DepsSatisfied /\ [Next]_vars
      => [Lifecycle!Next]_(Lifecycle!vars)
  BY DepInvSettled, NextMapped
<1>3. QED
  BY <1>1, <1>2, DependencySafety, PTL DEF Spec, ImplementsLifecycle, Lifecycle!Spec
===============================================================================
