------------------------------ MODULE Propagation ------------------------------
(***************************************************************************)
(* The loops behind MemoryBroker's Propagate, ReapLeases and Repair, step  *)
(* by step: propagateFinal's work queue over the children indexes, and the *)
(* two passes of ReapExpired over a Go map, whose order is arbitrary.  The *)
(* properties compare them, in every reachable state, with the results     *)
(* MemoryBroker states in closed form.  This module uses recursion and is  *)
(* for TLC only.                                                           *)
(***************************************************************************)
EXTENDS MemoryBroker, SequencesExt

\* The children index of p: in the order in which Enqueue registered them.
Children(rs, p) == SetToSortSeq({c \in DOMAIN rs : p \in Parents(rs[c])}, <)

\* Wrong variant of Visit: a child that is canceled does not join the work queue.
VisitShallow(p, s, c) ==
  LET r == s.rs[c]
      d == DecideOnParentFinal(s.rs[p].status, r.status, r.policy, r.pendingParents)
  IN  [s EXCEPT !.rs = [s.rs EXCEPT ![c] =
         [r EXCEPT !.pendingParents = d.pendingParents,
                   !.status = CASE d.action = "wake" -> "pending"
                                [] d.action = "cancel" /\ r.status # "running" -> "canceled"
                                [] OTHER -> @]]]

\* One child of p: s holds the records and the work queue.
Visit(p, s, c) ==
  LET r == s.rs[c]
      d == DecideOnParentFinal(s.rs[p].status, r.status, r.policy, r.pendingParents)
      u == [r EXCEPT !.pendingParents = d.pendingParents]
      set(v) == [s.rs EXCEPT ![c] = v]
  IN  CASE d.action = "wake" /\ CanTransition(r.status, "pending") ->
             [s EXCEPT !.rs = set([u EXCEPT !.status = "pending"])]
        [] d.action = "cancel" /\ r.status = "running" ->
             [s EXCEPT !.rs = set([u EXCEPT !.cancelRequested = TRUE])]
        [] /\ d.action = "cancel" /\ r.status # "running"
           /\ CanTransition(r.status, "canceled") ->
             [rs   |-> set([ClearLease(u) EXCEPT !.status = "canceled"]),
              work |-> Append(s.work, c)]
        [] OTHER -> [s EXCEPT !.rs = set(u)]

\* The work queue is worked off, in order, until it is empty.
RECURSIVE Walk(_, _)
Walk(rs, work) ==
  IF work = <<>> THEN rs
  ELSE LET p == Head(work)
           visit(s, c) == Visit(p, s, c)
           s == FoldLeft(visit, [rs |-> rs, work |-> Tail(work)], Children(rs, p))
       IN  Walk(s.rs, s.work)

propagateFinal(rs, start) == Walk(rs, <<start>>)

-------------------------------------------------------------------------------
(* ReapExpired's two passes, over the records in the order of seq.         *)

\* Wrong variant of ReapOne: a poisonous task is never capped.
ReapOneUncapped(rs, t) ==
  IF ~IsExpired(rs[t]) THEN rs
  ELSE [rs EXCEPT ![t] = [Finished(rs[t], "pending") EXCEPT !.leaseLost = @ + 1]]

ReapOne(rs, t) ==
  IF ~IsExpired(rs[t]) THEN rs
  ELSE LET r1 == [rs EXCEPT ![t] = Reaped(rs[t])]
       IN  IF IsFinal(r1[t].status) THEN propagateFinal(r1, t) ELSE r1

RepairOne(rs, t) ==
  IF rs[t].status # "blocked" \/ ~(Parents(rs[t]) \subseteq DOMAIN rs) THEN rs
  ELSE LET dec == DecideOnSubmit(ParentStates(rs, rs[t].dependsOn), rs[t].policy)
       IN  CASE dec.status = "pending" ->
                  [rs EXCEPT ![t].status = "pending", ![t].pendingParents = 0]
             [] dec.status = "canceled" ->
                  propagateFinal([rs EXCEPT ![t].status = "canceled"], t)
             [] OTHER -> [rs EXCEPT ![t].pendingParents = dec.pendingParents]

ReapPass(rs, seq)   == FoldLeft(ReapOne, rs, seq)
RepairPass(rs, seq) == FoldLeft(RepairOne, rs, seq)

-------------------------------------------------------------------------------
(* Properties.                                                             *)

\* While the broker is open: whatever task ends now and however, the breadth-first
\* walk of propagateFinal leaves the records in the state Propagate describes.
WalkMatchesPropagate ==
  ~closed => \A t \in DOMAIN recs, s \in {"completed", "failed", "canceled"} :
     CanTransition(recs[t].status, s) =>
       LET rs == [recs EXCEPT ![t] = Finished(recs[t], s)]
       IN  propagateFinal(rs, t) = Propagate(rs, {t})

\* While the broker is open the order in which ReapExpired meets the records in
\* the map is immaterial: both passes give the one result that ReapLeases and
\* Repair describe.
ReapOrderImmaterial ==
  ~closed /\ (\E t \in DOMAIN recs : IsExpired(recs[t])) => \A seq \in SetToSeqs(DOMAIN recs) :
     RepairPass(ReapPass(recs, seq), seq) = Repair(ReapLeases(recs))
===============================================================================
