---------------------------- MODULE SqlBrokerProofs ----------------------------
(***************************************************************************)
(* Proved of the SQL broker for any number of tasks, clients and keys.     *)
(* For both isolation levels:                                              *)
(*   RowLocksExclude  (SqlTypeOK)        the discipline of the row locks;  *)
(*   ReplaysLinear    (SqlChainsLinear)  the histories of business keys.   *)
(* At READ COMMITTED:                                                      *)
(*   NoWakeupLost   (SqlPendingExact)         the counters are exact;      *)
(*   SqlImplements  (SqlImplementsLifecycle)  every commit is a step of    *)
(*                                            the lifecycle.               *)
(*                                                                         *)
(* The invariant relates every open transaction to the committed table     *)
(* (ClientOK).  It is stable under the commits of the others because a row *)
(* never loses its identity, never leaves a final status (Kept), and does  *)
(* not change at all while another transaction has it locked.              *)
(*                                                                         *)
(* For the counters a transaction is related to the table in more detail   *)
(* (GraphTx): what Enqueue has read is still so, and a cascade has settled *)
(* every child of what it ended, or has it before it.  A commit ends no    *)
(* parent of a row that somebody else has locked, because the cascade has  *)
(* locked all children of what it ends, and adds no child of such a row,   *)
(* because Enqueue has locked the parents: that is what the locks are for. *)
(***************************************************************************)
EXTENDS SqlBroker, SequenceTheorems, FiniteSetTheorems, WellFoundedInduction, TLAPS

\* Tables of some of the tasks.
Tables == UNION {[S -> Row] : S \in SUBSET Tasks}

Tx == [op : {"none", "Enqueue", "Replay", "Final", "Reap"},
       phase : {"none", "parents", "lock", "check", "insert", "propagate",
                "reap0", "reap1", "repair"},
       id : Tasks \cup {NoID}, policy : Policies, deps : Seq(Tasks),
       key : Keys \cup {NoKey}, target : Tasks \cup {NoID},
       due : SUBSET Tasks, list : SUBSET Tasks,
       read : Seq([id : Tasks, status : Statuses]), work : Seq(Tasks),
       par : Tasks \cup {NoID}, todo : SUBSET Tasks, writes : Tables,
       locked : SUBSET Tasks, seen : BOOLEAN, snap : Tables]

\* Row r may become s: it keeps its key and its place in the chain, and what is
\* final stays final.
Kept(r, s) ==
  /\ s.key = r.key /\ s.replayOf = r.replayOf
  /\ IsFinal(r.status) => IsFinal(s.status)

\* A transaction x against the committed table rs.
ClientOK(x, rs) ==
  /\ x \in Tx
  /\ DOMAIN x.writes \subseteq x.locked /\ x.locked \subseteq DOMAIN rs
  /\ \A t \in DOMAIN x.writes : Kept(rs[t], x.writes[t])
  /\ x.list \subseteq DOMAIN rs /\ x.todo \subseteq DOMAIN rs
  /\ DOMAIN x.snap \subseteq DOMAIN rs /\ x.work \in Seq(DOMAIN rs)
  /\ x.phase = "reap0" => x.list \subseteq x.locked
  /\ x.phase = "reap1" =>
       \A t \in x.list : t \in x.locked /\ Over(x.writes, rs)[t].status = "running"
  /\ x.phase = "parents" => x.target = NoID
  /\ x.phase \in {"lock", "check", "insert"} => x.target \in DOMAIN rs /\ x.key = rs[x.target].key
  /\ x.phase \in {"check", "insert"} => IsFinal(rs[x.target].status)
  /\ x.phase \in {"parents", "lock", "check", "insert"} => x.id # NoID
  /\ x.id \notin DOMAIN rs

TableOK(rs) ==
  /\ DOMAIN rs \subseteq Tasks /\ rs \in [DOMAIN rs -> Row]
  /\ \A t \in DOMAIN rs : rs[t].replayOf \in DOMAIN rs \cup {NoID}

\* The transactions exclude each other.
Apart(f) ==
  \A c, d \in Clients : c # d => /\ f[c].locked \cap f[d].locked = {}
                                 /\ f[c].id # NoID => f[c].id # f[d].id

SqlInv ==
  /\ TableOK(rows) /\ late \subseteq Tasks /\ lastToken \in 0..MaxClaims
  /\ tx \in [Clients -> Tx] /\ \A c \in Clients : ClientOK(tx[c], rows)
  /\ Apart(tx)
  /\ SqlChainsLinear

-------------------------------------------------------------------------------
(* Tables and transactions.                                                *)

\* A queue of tasks that exist: they still do when the table grows.
LEMMA SeqGrows ==
  ASSUME NEW S, NEW T, S \subseteq T, NEW s \in Seq(S)
  PROVE  s \in Seq(T)
<1>1. Len(s) \in Nat /\ \A i \in 1..Len(s) : s[i] \in T
  BY ElementOfSeq
<1>2. s = [i \in 1..Len(s) |-> s[i]]
  BY SeqDef
<1> QED BY <1>1, <1>2, IsASeq

\* An open transaction is not disturbed by commits that leave alone the rows it
\* has locked.
LEMMA ClientStable ==
  ASSUME NEW x, NEW rs, NEW new, ClientOK(x, rs),
         \A t \in DOMAIN rs : /\ t \in DOMAIN new /\ Kept(rs[t], new[t])
                              /\ t \in x.locked => new[t] = rs[t],
         x.id \notin DOMAIN new
  PROVE  ClientOK(x, new)
<1>1. x.work \in Seq(DOMAIN new)
  BY SeqGrows DEF ClientOK
<1>2. \A t \in x.locked : Over(x.writes, new)[t] = Over(x.writes, rs)[t]
  BY DEF ClientOK, Over
<1>3. DOMAIN rs \subseteq DOMAIN new
  OBVIOUS
<1>4. x.phase = "reap1" =>
        \A t \in x.list : t \in x.locked /\ Over(x.writes, new)[t].status = "running"
  BY <1>2 DEF ClientOK
<1>5. x.phase \in {"lock", "check", "insert"} => x.target \in DOMAIN new /\ x.key = new[x.target].key
  BY DEF ClientOK, Kept
<1>6. x.phase \in {"check", "insert"} => IsFinal(new[x.target].status)
  BY DEF ClientOK, Kept
<1>7. \A t \in DOMAIN x.writes : Kept(new[t], x.writes[t])
  BY DEF ClientOK
<1> QED BY <1>1, <1>3, <1>4, <1>5, <1>6, <1>7 DEF ClientOK

\* SqlChainsLinear, of any table.
Linear(rs) ==
  \A t, u \in DOMAIN rs :
    /\ t # u /\ rs[t].replayOf = rs[u].replayOf =>
         rs[t].replayOf = NoID /\ (rs[t].key = NoKey \/ rs[t].key # rs[u].key)
    /\ rs[t].replayOf = u => IsFinal(rs[u].status) /\ rs[t].key = rs[u].key

\* Rows that keep their identity keep the chains.
LEMMA LinearStable ==
  ASSUME NEW rs, NEW new, Linear(rs), DOMAIN new = DOMAIN rs,
         \A t \in DOMAIN rs : Kept(rs[t], new[t])
  PROVE  Linear(new)
BY DEF Linear, Kept

\* Transaction y may be that of client c: the others have other locks and ids.
Alone(y, c) ==
  \A d \in Clients : d # c => /\ y.locked \cap tx[d].locked = {}
                              /\ y.id # NoID => y.id # tx[d].id

\* A step of one transaction: nothing is committed.
LEMMA TxKeeps ==
  ASSUME SqlInv, NEW c \in Clients, NEW y, tx' = [tx EXCEPT ![c] = y],
         ClientOK(y, rows), UNCHANGED <<rows, late, lastToken>>,
         Alone(y, c)
  PROVE  SqlInv'
<1>1. y \in Tx
  BY DEF ClientOK
<1>2. /\ tx' \in [Clients -> Tx] /\ tx'[c] = y
      /\ \A d \in Clients : d # c => tx'[d] = tx[d]
  BY <1>1 DEF SqlInv
<1>3. \A d \in Clients : ClientOK(tx[d], rows)'
  BY <1>2 DEF SqlInv
<1>4. Apart(tx')
  BY <1>2 DEF SqlInv, Apart, Alone
<1>5. SqlChainsLinear'
  BY DEF SqlInv, SqlChainsLinear
<1> QED BY <1>2, <1>3, <1>4, <1>5 DEF SqlInv

\* Another deadline for a lease: a reaper finds it later.
DueLess(x, t) == [x EXCEPT !.due = @ \ {t}]

\* It changes nothing a transaction relies on.
LEMMA DueShrinks ==
  ASSUME NEW x, NEW rs, NEW t, ClientOK(x, rs)
  PROVE  ClientOK(DueLess(x, t), rs) /\ DueLess(x, t).locked = x.locked /\ DueLess(x, t).id = x.id
<1>0. x \in Tx
  BY DEF ClientOK
<1>1. PICK y : y = DueLess(x, t)
  OBVIOUS
<1>2. /\ y \in Tx /\ y.op = x.op /\ y.phase = x.phase /\ y.id = x.id /\ y.key = x.key /\ y.target = x.target
      /\ y.list = x.list /\ y.work = x.work /\ y.todo = x.todo /\ y.writes = x.writes
      /\ y.locked = x.locked /\ y.snap = x.snap
  BY <1>0, <1>1 DEF Tx, DueLess
<1>3. ClientOK(y, rs)
  BY <1>2 DEF ClientOK
<1> QED BY <1>1, <1>2, <1>3

\* A transaction on one row that nobody has locked.
LEMMA RowKeeps ==
  ASSUME SqlInv, NEW t \in DOMAIN rows, NEW r \in Row, Unlocked(t), Kept(rows[t], r),
         rows' = [rows EXCEPT ![t] = r], late' \subseteq Tasks, lastToken' \in 0..MaxClaims,
         tx' = tx \/ tx' = [c \in Clients |-> [tx[c] EXCEPT !.due = @ \ {t}]]
  PROVE  SqlInv'
<1>1. /\ DOMAIN rows' = DOMAIN rows /\ rows'[t] = r
      /\ \A u \in DOMAIN rows : u # t => rows'[u] = rows[u]
      /\ rows' \in [DOMAIN rows -> Row]
  BY DEF SqlInv, TableOK
<1>2. \A u \in DOMAIN rows : Kept(rows[u], rows'[u])
  BY <1>1 DEF Kept
<1>3. TableOK(rows')
  BY <1>1, <1>2 DEF SqlInv, TableOK, Kept
<1>4. \A c \in Clients : /\ ClientOK(tx'[c], rows) /\ tx'[c].locked = tx[c].locked /\ tx'[c].id = tx[c].id
  <2>1. ASSUME NEW c \in Clients
        PROVE  ClientOK(tx'[c], rows) /\ tx'[c].locked = tx[c].locked /\ tx'[c].id = tx[c].id
    <3>1. PICK x, rs : x = tx[c] /\ rs = rows
      OBVIOUS
    <3>2. ClientOK(x, rs)
      BY <3>1 DEF SqlInv
    <3>3. tx'[c] = x \/ tx'[c] = DueLess(x, t)
      BY <3>1 DEF DueLess
    <3>4. ClientOK(DueLess(x, t), rs) /\ DueLess(x, t).locked = x.locked /\ DueLess(x, t).id = x.id
      BY <3>2, DueShrinks
    <3> QED BY <3>1, <3>2, <3>3, <3>4
  <2> QED BY <2>1
<1>5. tx' \in [Clients -> Tx]
  <2>1. \A c \in Clients : tx'[c] \in Tx
    BY <1>4 DEF ClientOK
  <2>2. tx' = [c \in Clients |-> tx'[c]]
    BY DEF SqlInv
  <2> QED BY <2>1, <2>2
<1>6. \A c \in Clients : ClientOK(tx'[c], rows')
  <2>1. ASSUME NEW c \in Clients PROVE ClientOK(tx'[c], rows')
    <3>1. PICK x, rs, new : x = tx'[c] /\ rs = rows /\ new = rows'
      OBVIOUS
    <3>2. ClientOK(x, rs) /\ x.locked = tx[c].locked
      BY <1>4, <3>1
    <3>3. t \notin x.locked
      BY <3>2 DEF Unlocked
    <3>4. \A u \in DOMAIN rs : u \in DOMAIN new /\ Kept(rs[u], new[u]) /\ (u \in x.locked => new[u] = rs[u])
      BY <1>1, <1>2, <3>1, <3>3
    <3>5. x.id \notin DOMAIN new
      BY <1>1, <3>1, <3>2 DEF ClientOK
    <3>6. ClientOK(x, new)
      BY <3>2, <3>4, <3>5, ClientStable
    <3> QED BY <3>1, <3>6
  <2> QED BY <2>1
<1>7. Apart(tx')
  BY <1>4 DEF SqlInv, Apart
<1>8. Linear(rows')
  <2>1. PICK rs, new : rs = rows /\ new = rows'
    OBVIOUS
  <2>2. Linear(rs) /\ DOMAIN new = DOMAIN rs /\ \A u \in DOMAIN rs : Kept(rs[u], new[u])
    BY <1>1, <1>2, <2>1 DEF SqlInv, SqlChainsLinear, Linear
  <2> QED BY <2>1, <2>2, LinearStable
<1>9. SqlChainsLinear'
  BY <1>8 DEF Linear, SqlChainsLinear
<1> QED BY <1>3, <1>5, <1>6, <1>7, <1>9 DEF SqlInv

-------------------------------------------------------------------------------
(* Reads, writes and commits.                                              *)

\* A connection without a transaction relies on nothing.
LEMMA NoTxOK ==
  ASSUME NEW rs, TableOK(rs)
  PROVE  ClientOK(NoTx, rs) /\ NoTx.locked = {} /\ NoTx.id = NoID
<1>1. <<>> \in Tables
  <2>1. <<>> \in [{} -> Row]
    OBVIOUS
  <2> QED BY <2>1 DEF Tables
<1>2. NoTx \in Tx
  BY <1>1 DEF NoTx, Tx, Policies
<1>3. NoID \notin Tasks
  BY SqlAssumption DEF NoID
<1>4. /\ NoTx.phase = "none" /\ NoTx.locked = {} /\ NoTx.id = NoID /\ NoTx.list = {} /\ NoTx.todo = {}
      /\ NoTx.work = <<>> /\ DOMAIN NoTx.writes = {} /\ DOMAIN NoTx.snap = {}
  BY DEF NoTx
<1> HIDE DEF NoTx
<1>5. NoID \notin DOMAIN rs
  BY <1>3 DEF TableOK
<1> QED BY <1>2, <1>4, <1>5 DEF ClientOK

\* The end of a transaction: the others do not notice.
LEMMA CommitKeeps ==
  ASSUME SqlInv, NEW c \in Clients, tx' = [tx EXCEPT ![c] = NoTx],
         UNCHANGED <<late, lastToken>>, TableOK(rows'), Linear(rows'),
         \A t \in DOMAIN rows : t \in DOMAIN rows' /\ Kept(rows[t], rows'[t]),
         \A d \in Clients : d # c => /\ tx[d].id \notin DOMAIN rows'
                                     /\ \A t \in tx[d].locked : rows'[t] = rows[t]
  PROVE  SqlInv'
<1>1. ClientOK(NoTx, rows') /\ NoTx.locked = {} /\ NoTx.id = NoID /\ NoTx \in Tx
  <2>1. PICK new : new = rows'
    OBVIOUS
  <2>2. ClientOK(NoTx, new) /\ NoTx.locked = {} /\ NoTx.id = NoID
    BY <2>1, NoTxOK
  <2> QED BY <2>1, <2>2 DEF ClientOK
<1> HIDE DEF NoTx
<1>2. /\ tx' \in [Clients -> Tx] /\ tx'[c] = NoTx
      /\ \A d \in Clients : d # c => tx'[d] = tx[d]
  BY <1>1 DEF SqlInv
<1>3. \A d \in Clients : ClientOK(tx'[d], rows')
  <2>1. ASSUME NEW d \in Clients, d # c PROVE ClientOK(tx[d], rows')
    <3>1. PICK x, rs, new : x = tx[d] /\ rs = rows /\ new = rows'
      OBVIOUS
    <3>2. ClientOK(x, rs)
      BY <3>1 DEF SqlInv
    <3>3. \A t \in DOMAIN rs : t \in DOMAIN new /\ Kept(rs[t], new[t]) /\ (t \in x.locked => new[t] = rs[t])
      BY <2>1, <3>1
    <3>4. x.id \notin DOMAIN new
      BY <2>1, <3>1
    <3>5. ClientOK(x, new)
      BY <3>2, <3>3, <3>4, ClientStable
    <3> QED BY <3>1, <3>5
  <2> QED BY <1>1, <1>2, <2>1
<1>4. Apart(tx')
  BY <1>1, <1>2 DEF SqlInv, Apart
<1>5. SqlChainsLinear'
  BY DEF Linear, SqlChainsLinear
<1> QED BY <1>2, <1>3, <1>4, <1>5 DEF SqlInv

\* What of a transaction ClientOK looks at, the writes and locks apart.
SameTx(x, y) ==
  /\ y.phase = x.phase /\ y.id = x.id /\ y.key = x.key /\ y.target = x.target
  /\ y.snap = x.snap

\* A plain SELECT: it changes nothing but, under RR, the snapshot.
LEMMA ReadKeeps ==
  ASSUME NEW x, ClientOK(x, rows), TableOK(rows)
  PROVE  /\ ClientOK(AfterRead(x), rows) /\ AfterRead(x) \in Tx
         /\ AfterRead(x).locked = x.locked /\ AfterRead(x).id = x.id
         /\ AfterRead(x).writes = x.writes /\ AfterRead(x).phase = x.phase
         /\ AfterRead(x).work = x.work /\ AfterRead(x).todo = x.todo
         /\ AfterRead(x).list = x.list /\ AfterRead(x).key = x.key /\ AfterRead(x).target = x.target
<1>1. PICK rs : rs = rows
  OBVIOUS
<1>2. x \in Tx /\ ClientOK(x, rs) /\ rs \in Tables
  BY <1>1 DEF ClientOK, TableOK, Tables
<1>3. PICK y : y = [x EXCEPT !.seen = TRUE, !.snap = rs]
  OBVIOUS
<1>4. /\ y \in Tx /\ y.op = x.op /\ y.phase = x.phase /\ y.id = x.id /\ y.key = x.key /\ y.target = x.target
      /\ y.list = x.list /\ y.work = x.work /\ y.todo = x.todo /\ y.writes = x.writes
      /\ y.locked = x.locked /\ y.snap = rs
  BY <1>2, <1>3 DEF Tx
<1>5. ClientOK(y, rs)
  BY <1>2, <1>4 DEF ClientOK
<1>6. AfterRead(x) = x \/ AfterRead(x) = y
  BY <1>1, <1>3 DEF AfterRead
<1> QED BY <1>1, <1>2, <1>4, <1>5, <1>6

\* A row is written: it is locked, typed, and keeps what it must.
LEMMA WriteKeeps ==
  ASSUME NEW x, NEW y, NEW rs, NEW t \in DOMAIN rs, NEW r,
         ClientOK(x, rs), TableOK(rs), y \in Tx, SameTx(x, y), Kept(rs[t], r),
         y.writes = With(x.writes, t, r), y.locked = x.locked \cup {t},
         y.list \subseteq x.list, y.todo \subseteq x.todo, y.work \in Seq(DOMAIN rs),
         y.phase = "reap1" /\ t \in y.list => r.status = "running"
  PROVE  ClientOK(y, rs)
<1>1. DOMAIN y.writes \subseteq y.locked /\ y.locked \subseteq DOMAIN rs
  BY DEF With, ClientOK
<1>2. \A u \in DOMAIN y.writes : Kept(rs[u], y.writes[u])
  BY DEF With, ClientOK
<1>3. \A u \in DOMAIN rs : Over(y.writes, rs)[u] = IF u = t THEN r ELSE Over(x.writes, rs)[u]
  BY DEF With, Over
<1>4. y.phase = "reap1" =>
        \A u \in y.list : u \in y.locked /\ Over(y.writes, rs)[u].status = "running"
  <2>1. SUFFICES ASSUME y.phase = "reap1", NEW u \in y.list
                 PROVE  u \in y.locked /\ Over(y.writes, rs)[u].status = "running"
    OBVIOUS
  <2>2. u \in DOMAIN rs /\ u \in x.locked /\ Over(x.writes, rs)[u].status = "running"
    BY <2>1 DEF ClientOK, SameTx
  <2> QED BY <1>3, <2>1, <2>2
<1> QED BY <1>1, <1>2, <1>4 DEF ClientOK, SameTx

-------------------------------------------------------------------------------
(* The rows the statements write.                                          *)

\* Finish, Requeue, Fail: a task that ran gets another status; the one that
\* may have been final stays so.
LEMMA FinishedRow ==
  ASSUME NEW r \in Row, NEW s \in Statuses
  PROVE  /\ Finished(r, s) \in Row /\ Finished(r, s).status = s
         /\ Finished(r, s).key = r.key /\ Finished(r, s).replayOf = r.replayOf
         /\ [ClearLease(r) EXCEPT !.status = s] \in Row
         /\ [ClearLease(r) EXCEPT !.status = s].status = s
         /\ [ClearLease(r) EXCEPT !.status = s].key = r.key
         /\ [ClearLease(r) EXCEPT !.status = s].replayOf = r.replayOf
BY DEF Finished, ClearLease, Row, NoToken

\* Pass 1 of ReapExpired.
LEMMA LostRow ==
  ASSUME NEW r \in Row
  PROVE  Lost(r) \in Row /\ Lost(r).key = r.key /\ Lost(r).replayOf = r.replayOf
<1>1. PICK s \in Statuses : s = IF r.leaseLost + 1 >= LeaseLostMax THEN "failed" ELSE "pending"
  BY DEF Statuses
<1>2. PICK f : f = Finished(r, s)
  OBVIOUS
<1>3. f \in Row /\ f.key = r.key /\ f.replayOf = r.replayOf
  BY <1>2, FinishedRow
<1>4. PICK n \in Nat : n = f.leaseLost + 1
  BY <1>3 DEF Row
<1>5. PICK l : l = [f EXCEPT !.leaseLost = n]
  OBVIOUS
<1>6. l \in Row /\ l.key = f.key /\ l.replayOf = f.replayOf
  BY <1>3, <1>5 DEF Row
<1>7. Lost(r) = l
  BY <1>1, <1>2, <1>4, <1>5 DEF Lost
<1> QED BY <1>3, <1>6, <1>7

\* What propagateTx writes to a child: a final child is left final, a running
\* one runs on.
LEMMA SettledRow ==
  ASSUME NEW r \in Row, NEW s
  PROVE  /\ Settled(s, r) \in Row /\ Kept(r, Settled(s, r))
         /\ r.status = "running" => Settled(s, r).status = "running"
<1>1. PICK d : d = DecideOnParentFinal(s, r.status, r.policy, r.pendingParents)
  OBVIOUS
<1>2. /\ d.pendingParents \in Nat
      /\ IsFinal(r.status) => d.action = "none"
      /\ d.action = "wake" => r.status = "blocked"
  BY <1>1 DEF DecideOnParentFinal, Row, IsFinal
<1>3. PICK u : u = [r EXCEPT !.pendingParents = d.pendingParents]
  OBVIOUS
<1>4. u \in Row /\ u.key = r.key /\ u.replayOf = r.replayOf /\ u.status = r.status
  BY <1>2, <1>3 DEF Row
<1>5. PICK w : w = [u EXCEPT !.status = "pending"]
  OBVIOUS
<1>6. w \in Row /\ w.key = r.key /\ w.replayOf = r.replayOf /\ w.status = "pending"
  BY <1>4, <1>5 DEF Row, Statuses
<1>7. PICK f : f = [r EXCEPT !.cancelRequested = TRUE]
  OBVIOUS
<1>8. f \in Row /\ f.key = r.key /\ f.replayOf = r.replayOf /\ f.status = r.status
  BY <1>7 DEF Row
<1>9. PICK k : k = [ClearLease(u) EXCEPT !.status = "canceled"]
  OBVIOUS
<1>10. k \in Row /\ k.key = r.key /\ k.replayOf = r.replayOf /\ k.status = "canceled"
  BY <1>4, <1>9, FinishedRow DEF Statuses
<1>11. Settled(s, r) = CASE d.action = "wake"   -> w
                         [] d.action = "cancel" -> IF r.status = "running" THEN f ELSE k
                         [] OTHER -> u
  BY <1>1, <1>3, <1>5, <1>7, <1>9, Zenon DEF Settled
<1>12. \/ d.action = "wake" /\ Settled(s, r) = w
       \/ d.action = "cancel" /\ r.status = "running" /\ Settled(s, r) = f
       \/ d.action = "cancel" /\ r.status # "running" /\ Settled(s, r) = k
       \/ Settled(s, r) = u
  BY <1>11
<1> QED BY <1>2, <1>4, <1>6, <1>8, <1>10, <1>12 DEF Kept, IsFinal

\* DecideOnSubmit's answer fits a row.
LEMMA DecisionTyped ==
  ASSUME NEW ps, NEW policy, NotFinal(ps) \subseteq Tasks
  PROVE  /\ DecideOnSubmit(ps, policy).status \in {"canceled", "blocked", "pending"}
         /\ DecideOnSubmit(ps, policy).pendingParents \in Nat
<1>1. Cardinality(NotFinal(ps)) \in Nat
  BY SqlAssumption, FS_Subset, FS_CardinalityType
<1> QED BY <1>1 DEF DecideOnSubmit, PendingCount

\* Pass 2 of ReapExpired: the row of a blocked task.
LEMMA RepairedRow ==
  ASSUME NEW c, NEW r \in Row, r.status = "blocked"
  PROVE  Repaired(c, r) \in Row /\ Repaired(c, r).key = r.key /\ Repaired(c, r).replayOf = r.replayOf
<1>1. PICK ps : ps = ParentStates(ReadView(c), r.dependsOn)
  OBVIOUS
<1>2. NotFinal(ps) \subseteq Tasks
  <2>1. r.dependsOn \in Seq(Tasks)
    BY DEF Row
  <2>2. \A i \in DOMAIN r.dependsOn : r.dependsOn[i] \in Tasks
    BY <2>1
  <2>3. DOMAIN ps = DOMAIN r.dependsOn /\ \A i \in DOMAIN ps : ps[i].id = r.dependsOn[i]
    BY <1>1 DEF ParentStates
  <2> QED BY <2>2, <2>3 DEF NotFinal
<1>3. PICK dec : dec = DecideOnSubmit(ps, r.policy)
  OBVIOUS
<1>4. dec.status \in {"canceled", "blocked", "pending"} /\ dec.pendingParents \in Nat
  BY <1>2, <1>3, DecisionTyped
<1>5. PICK k : k = [ClearLease(r) EXCEPT !.status = "canceled"]
  OBVIOUS
<1>6. k \in Row /\ k.key = r.key /\ k.replayOf = r.replayOf
  BY <1>5, FinishedRow DEF Statuses
<1>7. PICK w : w = [r EXCEPT !.status = dec.status, !.pendingParents = dec.pendingParents]
  OBVIOUS
<1>8. w \in Row /\ w.key = r.key /\ w.replayOf = r.replayOf
  BY <1>4, <1>7 DEF Row, Statuses
<1>9. Repaired(c, r) = IF dec.status = "canceled" THEN k ELSE w
  BY <1>1, <1>3, <1>5, <1>7 DEF Repaired
<1> QED BY <1>6, <1>8, <1>9

\* A table with a row on top, and a transaction's writes.
LEMMA TablesGrow ==
  ASSUME NEW w \in Tables, NEW t \in Tasks, NEW r \in Row
  PROVE  With(w, t, r) \in Tables
<1>1. PICK S \in SUBSET Tasks : w \in [S -> Row]
  BY DEF Tables
<1>2. With(w, t, r) \in [S \cup {t} -> Row]
  BY <1>1 DEF With
<1> QED BY <1>2 DEF Tables

\* A transaction sees the rows of the table, typed, with its own writes on top;
\* they keep what the committed rows have.
LEMMA CurrentRow ==
  ASSUME NEW x, NEW rs, ClientOK(x, rs), TableOK(rs), NEW t \in DOMAIN rs
  PROVE  Over(x.writes, rs)[t] \in Row /\ Kept(rs[t], Over(x.writes, rs)[t])
<1>1. x.writes \in Tables
  BY DEF ClientOK, Tx
<1>2. t \in DOMAIN x.writes => x.writes[t] \in Row
  BY <1>1 DEF Tables
<1>3. Over(x.writes, rs)[t] = IF t \in DOMAIN x.writes THEN x.writes[t] ELSE rs[t]
  BY DEF Over
<1>4. rs[t] \in Row /\ Kept(rs[t], rs[t])
  BY DEF TableOK, Kept
<1>5. t \in DOMAIN x.writes => Kept(rs[t], x.writes[t])
  BY DEF ClientOK
<1> QED BY <1>2, <1>3, <1>4, <1>5

-------------------------------------------------------------------------------
(* The transactions that lock one row.                                     *)

\* tryClaim.
LEMMA ClaimKeeps ==
  ASSUME SqlInv, NEW t, Claim(t)
  PROVE  SqlInv'
<1>1. t \in DOMAIN rows /\ Unlocked(t) /\ Queued(rows[t].status) /\ rows[t] \in Row /\ lastToken \in Nat
  BY DEF Claim, SqlInv, TableOK
<1>2. PICK r : r = [rows[t] EXCEPT !.status = "running", !.leaseToken = lastToken + 1]
  OBVIOUS
<1>3. PICK old : old = rows[t]
  OBVIOUS
<1>3a. PICK n \in Nat : n = lastToken + 1
  BY <1>1
<1>4. r \in Row /\ r.key = old.key /\ r.replayOf = old.replayOf
  BY <1>1, <1>2, <1>3, <1>3a DEF Row, Statuses
<1>5. Kept(rows[t], r)
  BY <1>1, <1>3, <1>4 DEF Kept, Queued, IsFinal
<1>6. /\ rows' = [rows EXCEPT ![t] = r] /\ late' \subseteq Tasks
      /\ tx' = [c \in Clients |-> [tx[c] EXCEPT !.due = @ \ {t}]]
  BY <1>2 DEF Claim, Set, Renewed, SqlInv
<1>7. lastToken' \in 0..MaxClaims
  BY SqlAssumption DEF Claim, SqlInv
<1> QED BY <1>1, <1>4, <1>5, <1>6, <1>7, RowKeeps

\* Heartbeat: no row changes.
LEMMA HeartbeatKeeps ==
  ASSUME SqlInv, NEW t, NEW token, Heartbeat(t, token)
  PROVE  SqlInv'
<1>1. t \in DOMAIN rows /\ Unlocked(t) /\ rows[t] \in Row
  BY DEF Heartbeat, HoldsLease, SqlInv, TableOK
<1>2. PICK r : r = rows[t]
  OBVIOUS
<1>3. /\ rows' = [rows EXCEPT ![t] = r] /\ late' \subseteq Tasks /\ lastToken' \in 0..MaxClaims
      /\ tx' = [c \in Clients |-> [tx[c] EXCEPT !.due = @ \ {t}]]
  BY <1>2 DEF Heartbeat, Renewed, SqlInv, TableOK
<1>4. Kept(rows[t], r)
  BY <1>2 DEF Kept
<1> QED BY <1>1, <1>2, <1>3, <1>4, RowKeeps

\* Requeue, a failure with attempts left, and Cancel of a running task.
LEMMA RunningKeeps ==
  ASSUME SqlInv, NEW t, NEW token,
         Requeue(t, token) \/ FailRetry(t, token) \/ CancelRunning(t)
  PROVE  SqlInv'
<1>1. t \in DOMAIN rows /\ Unlocked(t) /\ rows[t] \in Row /\ rows[t].status = "running"
  BY DEF Requeue, FailRetry, CancelRunning, HoldsLease, SqlInv, TableOK
<1>2. PICK old : old = rows[t]
  OBVIOUS
<1>3. \E r \in Row : rows' = [rows EXCEPT ![t] = r] /\ r.key = old.key /\ r.replayOf = old.replayOf
  <2>1. CASE Requeue(t, token)
    <3>1. PICK r : r = Finished(old, "pending")
      OBVIOUS
    <3>2. r \in Row /\ r.key = old.key /\ r.replayOf = old.replayOf
      BY <1>1, <1>2, <3>1, FinishedRow, ZenonT(60) DEF Statuses
    <3> QED BY <1>2, <2>1, <3>1, <3>2 DEF Requeue, Set
  <2>2. CASE FailRetry(t, token)
    <3>1. PICK r : r = [ClearLease(old) EXCEPT !.status = "retrying"]
      OBVIOUS
    <3>2. r \in Row /\ r.key = old.key /\ r.replayOf = old.replayOf
      BY <1>1, <1>2, <3>1 DEF ClearLease, Row, NoToken, Statuses
    <3> QED BY <1>2, <2>2, <3>1, <3>2 DEF FailRetry, Set
  <2>3. CASE CancelRunning(t)
    <3>1. PICK r : r = [old EXCEPT !.cancelRequested = TRUE]
      OBVIOUS
    <3>2. r \in Row /\ r.key = old.key /\ r.replayOf = old.replayOf
      BY <1>1, <1>2, <3>1 DEF Row
    <3> QED BY <1>2, <2>3, <3>1, <3>2 DEF CancelRunning, Set
  <2> QED BY <2>1, <2>2, <2>3
<1>4. PICK r \in Row : rows' = [rows EXCEPT ![t] = r] /\ r.key = old.key /\ r.replayOf = old.replayOf
  BY <1>3
<1>5. Kept(rows[t], r)
  BY <1>1, <1>2, <1>4 DEF Kept, IsFinal
<1>6. tx' = tx /\ late' = late /\ lastToken' = lastToken
  BY DEF Requeue, FailRetry, CancelRunning
<1>7. late' \subseteq Tasks /\ lastToken' \in 0..MaxClaims
  BY <1>6 DEF SqlInv
<1> QED BY <1>1, <1>4, <1>5, <1>6, <1>7, RowKeeps

\* The clock.
LEMMA ExpireKeeps ==
  ASSUME SqlInv, NEW t \in Tasks, Expire(t)
  PROVE  SqlInv'
BY DEF Expire, SqlInv, SqlChainsLinear

-------------------------------------------------------------------------------
(* Transactions begin.                                                     *)

\* What the last step of a transaction's beginning shows.
LEMMA TxStarts ==
  ASSUME SqlInv, NEW c \in Clients, NEW y, tx' = [tx EXCEPT ![c] = y],
         UNCHANGED <<rows, late, lastToken>>, ClientOK(y, rows), y.id = NoID,
         \A t \in y.locked : Free(c, t)
  PROVE  SqlInv'
<1>1. Alone(y, c)
  BY DEF Free, Alone
<1> QED BY <1>1, TxKeeps

\* Enqueue begins: the id is fresh, and the parents exist.
LEMMA BeginEnqueueKeeps ==
  ASSUME SqlInv, isolation \in DOMAIN Submissions,
         NEW c \in Clients, NEW id \in Tasks, NEW sub \in Submissions[isolation],
         BeginEnqueue(c, id, sub)
  PROVE  SqlInv'
<1>1. /\ sub.deps \in Seq(Tasks) /\ sub.policy \in Policies /\ sub.key \in Keys \cup {NoKey}
  BY SqlAssumption
<1>2. ClientOK(NoTx, rows) /\ NoTx.locked = {} /\ NoTx.id = NoID /\ TableOK(rows)
      /\ NoTx.phase = "none" /\ NoTx.target = NoID
  BY NoTxOK DEF SqlInv, NoTx
<1> HIDE DEF NoTx
<1>3. PICK x : x = IF sub.key = NoKey THEN NoTx ELSE AfterRead(NoTx)
  OBVIOUS
<1>4. ClientOK(x, rows) /\ x.locked = {} /\ x.target = NoID /\ x \in Tx
  BY <1>2, <1>3, ReadKeeps DEF ClientOK
<1>5. PICK y : y = [x EXCEPT !.op = "Enqueue", !.phase = "parents", !.id = id,
                             !.deps = sub.deps, !.policy = sub.policy, !.key = sub.key,
                             !.work = sub.deps]
  OBVIOUS
<1>6. PICK deps, policy, key : deps = sub.deps /\ policy = sub.policy /\ key = sub.key
  OBVIOUS
<1>7. /\ y \in Tx /\ y.phase = "parents" /\ y.id = id /\ y.target = NoID /\ y.work = deps
      /\ y.locked = {} /\ y.writes = x.writes /\ y.snap = x.snap /\ y.list = x.list /\ y.todo = x.todo
  BY <1>1, <1>4, <1>5, <1>6, ZenonT(60) DEF Tx
<1>8. /\ tx' = [tx EXCEPT ![c] = y] /\ IsFreshID(id) /\ Range(sub.deps) \subseteq DOMAIN rows
      /\ UNCHANGED <<rows, late, lastToken>>
  BY <1>3, <1>5, Zenon DEF BeginEnqueue
<1>9. deps \in Seq(DOMAIN rows)
  <2>1. Len(deps) \in Nat /\ deps = [i \in 1..Len(deps) |-> deps[i]] /\ DOMAIN deps = 1..Len(deps)
    BY <1>1, <1>6
  <2>2. \A i \in 1..Len(deps) : deps[i] \in DOMAIN rows
    BY <1>6, <1>8, <2>1 DEF Range
  <2> QED BY <2>1, <2>2, IsASeq
<1>10. id # NoID /\ id \notin DOMAIN rows /\ \A d \in Clients : tx[d].id # id
  BY <1>8, SqlAssumption DEF IsFreshID, InFlight, NoID
<1>11. ClientOK(y, rows)
  BY <1>4, <1>7, <1>9, <1>10 DEF ClientOK
<1>12. Alone(y, c)
  BY <1>7, <1>10 DEF Alone
<1> QED BY <1>8, <1>11, <1>12, TxKeeps

\* Replay begins: the execution to replay is a row, its key is taken from it.
LEMMA ReplayingOK ==
  ASSUME TableOK(rows), NEW id \in Tasks, id \notin DOMAIN rows,
         NEW target \in DOMAIN rows, NEW x, ClientOK(x, rows), x.locked = {}
  PROVE  /\ ClientOK(Replaying(x, id, target), rows)
         /\ Replaying(x, id, target).locked = {} /\ Replaying(x, id, target).id = id
<1>1. target \in Tasks /\ rows[target] \in Row /\ x \in Tx
  BY DEF TableOK, ClientOK
<1>2. PICK policy, key : policy = rows[target].policy /\ key = rows[target].key
  OBVIOUS
<1>3. policy \in Policies /\ key \in Keys \cup {NoKey}
  BY <1>1, <1>2 DEF Row
<1>4. PICK y : y = [x EXCEPT !.op = "Replay", !.phase = "lock", !.id = id, !.target = target,
                             !.policy = policy, !.key = key]
  OBVIOUS
<1>5. /\ y \in Tx /\ y.phase = "lock" /\ y.id = id /\ y.target = target /\ y.key = key /\ y.work = x.work
      /\ y.locked = {} /\ y.writes = x.writes /\ y.snap = x.snap /\ y.list = x.list /\ y.todo = x.todo
  BY <1>1, <1>3, <1>4 DEF Tx
<1>6. y = Replaying(x, id, target)
  BY <1>2, <1>4 DEF Replaying
<1>7. id # NoID
  BY SqlAssumption DEF NoID
<1>8. ClientOK(y, rows)
  BY <1>2, <1>5, <1>7 DEF ClientOK
<1> QED BY <1>5, <1>6, <1>8

\* By id and by key.
LEMMA BeginReplayKeeps ==
  ASSUME SqlInv, NEW c \in Clients, NEW id \in Tasks,
         NEW target, NEW key, BeginReplayID(c, id, target) \/ BeginReplayKey(c, id, key)
  PROVE  SqlInv'
<1>1. ClientOK(NoTx, rows) /\ NoTx.locked = {} /\ TableOK(rows)
  BY NoTxOK DEF SqlInv
<1> HIDE DEF NoTx
<1>2. ClientOK(AfterRead(NoTx), rows) /\ AfterRead(NoTx).locked = {}
  BY <1>1, ReadKeeps
<1>3. /\ IsFreshID(id) /\ UNCHANGED <<rows, late, lastToken>>
      /\ \E y, x, u : /\ y = Replaying(x, id, u) /\ tx' = [tx EXCEPT ![c] = y]
                      /\ u \in DOMAIN rows /\ (x = NoTx \/ x = AfterRead(NoTx))
  BY DEF BeginReplayID, BeginReplayKey, TailsOf
<1>4. PICK y, x, u : /\ y = Replaying(x, id, u) /\ tx' = [tx EXCEPT ![c] = y]
                     /\ u \in DOMAIN rows /\ (x = NoTx \/ x = AfterRead(NoTx))
  BY <1>3
<1>5. id # NoID /\ id \notin DOMAIN rows /\ \A d \in Clients : tx[d].id # id
  BY <1>3, SqlAssumption DEF IsFreshID, InFlight, NoID
<1>6. ClientOK(x, rows) /\ x.locked = {}
  BY <1>1, <1>2, <1>4
<1>7. ClientOK(y, rows) /\ y.locked = {} /\ y.id = id
  BY <1>1, <1>4, <1>5, <1>6, ReplayingOK
<1>8. tx' = [tx EXCEPT ![c] = y]
  BY <1>4
<1>9. Alone(y, c)
  BY <1>5, <1>7 DEF Alone
<1>10. UNCHANGED <<rows, late, lastToken>>
  BY <1>3
<1>11. ClientOK(y, rows)
  BY <1>7
<1> QED BY <1>8, <1>9, <1>10, <1>11, TxKeeps

\* A task that ends: its row is locked and written.
LEMMA BeginFinalKeeps ==
  ASSUME SqlInv, NEW c \in Clients, NEW t \in DOMAIN rows, NEW r \in Row,
         Kept(rows[t], r), BeginFinal(c, t, r)
  PROVE  SqlInv'
<1>1. /\ ClientOK(NoTx, rows) /\ NoTx.locked = {} /\ NoTx.id = NoID /\ TableOK(rows)
      /\ NoTx.writes = <<>> /\ NoTx.list = {} /\ NoTx.todo = {} /\ NoTx.key = NoKey
      /\ NoTx.target = NoID /\ NoTx.snap = <<>>
  BY NoTxOK DEF SqlInv, NoTx
<1>2. NoTx \in Tx
  BY <1>1 DEF ClientOK
<1> HIDE DEF NoTx
<1>3. t \in Tasks
  BY DEF SqlInv, TableOK
<1>4. PICK w : w = With(<<>>, t, r)
  OBVIOUS
<1>5. w \in Tables /\ DOMAIN w = {t} /\ w[t] = r
  <2>1. <<>> \in Tables
    BY <1>1, <1>2 DEF Tx
  <2> QED BY <1>3, <1>4, <2>1, TablesGrow DEF With
<1>6. <<t>> \in Seq(DOMAIN rows) /\ <<t>> \in Seq(Tasks)
  BY <1>3
<1>7. PICK y : y = [Writing(NoTx, t, r) EXCEPT !.op = "Final", !.phase = "propagate", !.work = <<t>>]
  OBVIOUS
<1>8. y = [NoTx EXCEPT !.locked = {t}, !.writes = w, !.op = "Final", !.phase = "propagate", !.work = <<t>>]
  BY <1>1, <1>2, <1>4, <1>7 DEF Writing, Locking, Tx
<1>9. /\ y \in Tx /\ y.phase = "propagate" /\ y.id = NoID /\ y.work = <<t>>
      /\ y.locked = {t} /\ y.writes = w /\ y.snap = <<>> /\ y.list = {} /\ y.todo = {}
  BY <1>1, <1>2, <1>3, <1>5, <1>6, <1>8, ZenonT(60) DEF Tx
<1>10. NoID \notin DOMAIN rows
  BY <1>1 DEF ClientOK
<1>11. ClientOK(y, rows)
  BY <1>5, <1>6, <1>9, <1>10 DEF ClientOK
<1>12. tx' = [tx EXCEPT ![c] = y] /\ UNCHANGED <<rows, late, lastToken>> /\ Unlocked(t)
  BY <1>7 DEF BeginFinal
<1>13. \A u \in y.locked : Free(c, u)
  BY <1>9, <1>12 DEF Unlocked, Free
<1> QED BY <1>9, <1>11, <1>12, <1>13, TxStarts

\* Ack, Fail without attempts left, FinishCanceled.
LEMMA FinishKeeps ==
  ASSUME SqlInv, NEW c \in Clients, NEW t, NEW token, NEW s \in {"completed", "failed", "canceled"},
         Finish(c, t, token, s)
  PROVE  SqlInv'
<1>1. t \in DOMAIN rows /\ rows[t] \in Row /\ s \in Statuses /\ IsFinal(s)
  BY DEF Finish, HoldsLease, SqlInv, TableOK, Statuses, IsFinal
<1>2. PICK old, r : old = rows[t] /\ r = Finished(old, s)
  OBVIOUS
<1>3. r \in Row /\ Kept(rows[t], r)
  BY <1>1, <1>2, FinishedRow DEF Kept
<1>4. BeginFinal(c, t, r)
  BY <1>2 DEF Finish
<1> QED BY <1>1, <1>3, <1>4, BeginFinalKeeps

\* Cancel of a task that waits or is queued.
LEMMA CancelQueuedKeeps ==
  ASSUME SqlInv, NEW c \in Clients, NEW t, CancelQueued(c, t)
  PROVE  SqlInv'
<1>1. t \in DOMAIN rows /\ rows[t] \in Row
  BY DEF CancelQueued, SqlInv, TableOK
<1>2. PICK old, r : old = rows[t] /\ r = [ClearLease(old) EXCEPT !.status = "canceled"]
  OBVIOUS
<1>3. r \in Row /\ r.status = "canceled" /\ r.key = old.key /\ r.replayOf = old.replayOf
  BY <1>1, <1>2 DEF ClearLease, Row, NoToken, Statuses
<1>4. Kept(rows[t], r)
  BY <1>2, <1>3 DEF Kept, IsFinal
<1>5. BeginFinal(c, t, r)
  BY <1>2 DEF CancelQueued
<1> QED BY <1>1, <1>3, <1>4, <1>5, BeginFinalKeeps

\* ReapExpired begins: the rows of its first scan that nobody has locked.
LEMMA BeginReapKeeps ==
  ASSUME SqlInv, NEW c \in Clients, BeginReap(c)
  PROVE  SqlInv'
<1>1. /\ ClientOK(NoTx, rows) /\ NoTx.locked = {} /\ NoTx.id = NoID
      /\ NoTx.writes = <<>> /\ NoTx.list = {} /\ NoTx.todo = {} /\ NoTx.key = NoKey
      /\ NoTx.target = NoID /\ NoTx.snap = <<>> /\ NoTx.work = <<>>
  BY NoTxOK DEF SqlInv, NoTx
<1>2. NoTx \in Tx
  BY <1>1 DEF ClientOK
<1> HIDE DEF NoTx
<1>3. PICK E : E = Expired(c, late)
  OBVIOUS
<1>4. PICK F : F = {t \in E : rows[t].cancelRequested}
  OBVIOUS
<1>5. PICK L : L = IF isolation = "RR" THEN E ELSE F
  OBVIOUS
<1>6. /\ F \subseteq L /\ L \subseteq E /\ E \subseteq DOMAIN rows /\ E \subseteq Tasks /\ late \subseteq Tasks
      /\ \A t \in E : Free(c, t)
  BY <1>3, <1>4, <1>5 DEF Expired, SqlInv
<1>7. PICK due : due = late
  OBVIOUS
<1>8. PICK y : y = [NoTx EXCEPT !.op = "Reap", !.phase = "reap0", !.due = due, !.list = F, !.locked = L]
  OBVIOUS
<1>9. /\ y \in Tx /\ y.phase = "reap0" /\ y.id = NoID /\ y.work = <<>>
      /\ y.locked = L /\ y.writes = <<>> /\ y.snap = <<>> /\ y.list = F /\ y.todo = {}
  BY <1>1, <1>2, <1>6, <1>7, <1>8, ZenonT(60) DEF Tx
<1>10. NoID \notin DOMAIN rows
  BY <1>1 DEF ClientOK
<1>11. ClientOK(y, rows)
  BY <1>6, <1>9, <1>10 DEF ClientOK
<1>12. tx' = [tx EXCEPT ![c] = y] /\ UNCHANGED <<rows, late, lastToken>>
  BY <1>3, <1>4, <1>5, <1>7, <1>8, Zenon DEF BeginReap
<1>13. \A t \in y.locked : Free(c, t)
  BY <1>6, <1>9
<1> QED BY <1>9, <1>11, <1>12, <1>13, TxStarts

-------------------------------------------------------------------------------
(* The statements of a transaction under way.                              *)

\* The transaction y of client c has locked, of the rows nobody else has, L.
Locks(y, c, L) ==
  /\ y.id = tx[c].id /\ y.locked \subseteq tx[c].locked \cup L
  /\ \A t \in L : Free(c, t)

\* A statement that waits for the locks it takes.
LEMMA StepKeeps ==
  ASSUME SqlInv, NEW c \in Clients, NEW y, NEW L, tx' = [tx EXCEPT ![c] = y],
         ClientOK(y, rows), UNCHANGED <<rows, late, lastToken>>, Locks(y, c, L)
  PROVE  SqlInv'
<1>1. Alone(y, c)
  <2>1. SUFFICES ASSUME NEW d \in Clients, d # c
                 PROVE  y.locked \cap tx[d].locked = {} /\ (y.id # NoID => y.id # tx[d].id)
    BY DEF Alone
  <2>2. tx[c].locked \cap tx[d].locked = {} /\ (tx[c].id # NoID => tx[c].id # tx[d].id)
    BY <2>1 DEF SqlInv, Apart
  <2>3. L \cap tx[d].locked = {}
    BY <2>1 DEF Free, Locks
  <2> QED BY <2>2, <2>3 DEF Locks
<1>2. ClientOK(y, rows)
  OBVIOUS
<1> QED BY <1>1, <1>2, TxKeeps

\* Enqueue reads the state of the next parent under its lock.
LEMMA LockParentKeeps ==
  ASSUME SqlInv, NEW c \in Clients, LockParent(c)
  PROVE  SqlInv'
<1>1. PICK x, rs : x = tx[c] /\ rs = rows
  OBVIOUS
<1>2. ClientOK(x, rs) /\ x \in Tx /\ x.work \in Seq(DOMAIN rs) /\ x.phase = "parents" /\ x.work # <<>>
      /\ TableOK(rs)
  BY <1>1 DEF SqlInv, ClientOK, LockParent
<1>3. PICK p, rest : p = Head(x.work) /\ rest = Tail(x.work)
  OBVIOUS
<1>4. p \in DOMAIN rs /\ rest \in Seq(DOMAIN rs) /\ rest \in Seq(Tasks) /\ p \in Tasks
  <2>1. p \in DOMAIN rs /\ rest \in Seq(DOMAIN rs)
    BY <1>2, <1>3, HeadTailProperties
  <2> QED BY <1>2, <2>1, SeqGrows DEF TableOK
<1>5. PICK st : st = [id |-> p, status |-> rs[p].status]
  OBVIOUS
<1>6. st \in [id : Tasks, status : Statuses]
  <2>1. rs[p].status \in Statuses
    BY <1>2, <1>4 DEF TableOK, Row
  <2> QED BY <1>4, <1>5, <2>1
<1>7. PICK read : read = Append(x.read, st)
  OBVIOUS
<1>8. read \in Seq([id : Tasks, status : Statuses])
  BY <1>2, <1>6, <1>7, AppendProperties DEF Tx
<1>9. PICK y : y = [Locking(x, p) EXCEPT !.work = rest, !.read = read]
  OBVIOUS
<1>10. /\ y \in Tx /\ SameTx(x, y) /\ y.locked = x.locked \cup {p} /\ y.work = rest
       /\ y.writes = x.writes /\ y.list = x.list /\ y.todo = x.todo
  BY <1>2, <1>4, <1>8, <1>9, ZenonT(60) DEF Tx, SameTx, Locking
<1>11. ClientOK(y, rs)
  BY <1>2, <1>4, <1>10 DEF ClientOK, SameTx
<1>12. tx' = [tx EXCEPT ![c] = y] /\ UNCHANGED <<rows, late, lastToken>> /\ Free(c, p)
  <2>1. PICK z : z = Locking(x, p)
    OBVIOUS
  <2>2. z.work = x.work /\ z.read = x.read
    BY <1>2, <2>1 DEF Locking, Tx
  <2>3. ParentState(c) = st /\ Head(tx[c].work) = p
    BY <1>1, <1>3, <1>5 DEF ParentState
  <2>4. tx' = [tx EXCEPT ![c] = [Locking(tx[c], Head(tx[c].work)) EXCEPT
                                   !.work = Tail(@), !.read = Append(@, ParentState(c))]]
    BY DEF LockParent
  <2>5. tx' = [tx EXCEPT ![c] = [z EXCEPT !.work = rest, !.read = read]]
    BY <1>1, <1>3, <1>7, <2>1, <2>2, <2>3, <2>4
  <2> QED BY <1>9, <2>1, <2>3, <2>5 DEF LockParent
<1>13. Locks(y, c, {p}) /\ ClientOK(y, rows)
  BY <1>1, <1>10, <1>11, <1>12 DEF SameTx, Locks
<1> QED BY <1>12, <1>13, StepKeeps

\* Replay locks the execution it found, which must be final by then.
LEMMA LockTargetKeeps ==
  ASSUME SqlInv, NEW c \in Clients, LockTarget(c)
  PROVE  SqlInv'
<1>1. PICK x, rs : x = tx[c] /\ rs = rows
  OBVIOUS
<1>2. /\ ClientOK(x, rs) /\ x \in Tx /\ x.phase = "lock" /\ x.target \in DOMAIN rs
      /\ IsFinal(rs[x.target].status) /\ TableOK(rs)
  BY <1>1 DEF SqlInv, ClientOK, LockTarget
<1>3. PICK p : p = x.target
  OBVIOUS
<1>4. p \in DOMAIN rs /\ p \in Tasks
  BY <1>2, <1>3 DEF TableOK
<1>5. PICK y : y = [x EXCEPT !.locked = x.locked \cup {p}, !.phase = "check"]
  OBVIOUS
<1>6. /\ y \in Tx /\ y.phase = "check" /\ y.id = x.id /\ y.key = x.key /\ y.target = x.target
      /\ y.snap = x.snap /\ y.locked = x.locked \cup {p} /\ y.work = x.work
      /\ y.writes = x.writes /\ y.list = x.list /\ y.todo = x.todo
  BY <1>2, <1>4, <1>5, ZenonT(60) DEF Tx
<1>7. ClientOK(y, rs)
  BY <1>2, <1>4, <1>6 DEF ClientOK
<1>8. tx' = [tx EXCEPT ![c] = y] /\ UNCHANGED <<rows, late, lastToken>> /\ Free(c, p)
  BY <1>1, <1>2, <1>3, <1>5 DEF LockTarget, Locking, SqlInv, Tx
<1>9. Locks(y, c, {p}) /\ ClientOK(y, rows)
  BY <1>1, <1>6, <1>7, <1>8 DEF Locks
<1> QED BY <1>8, <1>9, StepKeeps

\* Replay looks for an earlier replay of it.
LEMMA CheckReplayedKeeps ==
  ASSUME SqlInv, NEW c \in Clients, CheckReplayed(c)
  PROVE  SqlInv'
<1>1. PICK x : x = AfterRead(tx[c])
  OBVIOUS
<1>2. ClientOK(x, rows) /\ x \in Tx /\ x.locked = tx[c].locked /\ x.id = tx[c].id /\ x.phase = "check"
  <2>1. PICK z : z = tx[c]
    OBVIOUS
  <2>2. ClientOK(z, rows) /\ TableOK(rows) /\ z.phase = "check"
    BY <2>1 DEF SqlInv, CheckReplayed
  <2> QED BY <1>1, <2>1, <2>2, ReadKeeps
<1>3. PICK y : y = [x EXCEPT !.phase = "insert"]
  OBVIOUS
<1>4. /\ y \in Tx /\ y.phase = "insert" /\ y.id = x.id /\ y.key = x.key /\ y.target = x.target
      /\ y.snap = x.snap /\ y.locked = x.locked /\ y.work = x.work
      /\ y.writes = x.writes /\ y.list = x.list /\ y.todo = x.todo
  BY <1>2, <1>3, SMTT(60) DEF Tx
<1>5. ClientOK(y, rows)
  BY <1>2, <1>4 DEF ClientOK
<1>6. tx' = [tx EXCEPT ![c] = y] /\ UNCHANGED <<rows, late, lastToken>>
  BY <1>1, <1>3 DEF CheckReplayed
<1>7. Locks(y, c, {})
  BY <1>2, <1>4 DEF Locks
<1> QED BY <1>5, <1>6, <1>7, StepKeeps

\* childrenOf the next task that became final.
LEMMA NextParentKeeps ==
  ASSUME SqlInv, NEW c \in Clients, NextParent(c)
  PROVE  SqlInv'
<1>1. PICK x, rs : x = AfterRead(tx[c]) /\ rs = rows
  OBVIOUS
<1>2. /\ ClientOK(x, rs) /\ x \in Tx /\ x.locked = tx[c].locked /\ x.id = tx[c].id
      /\ x.phase = tx[c].phase /\ x.work = tx[c].work /\ TableOK(rs)
  <2>1. PICK z : z = tx[c]
    OBVIOUS
  <2>2. ClientOK(z, rows) /\ TableOK(rows)
    BY <2>1 DEF SqlInv
  <2> QED BY <1>1, <2>1, <2>2, ReadKeeps
<1>3. x.phase \notin {"parents", "lock", "check", "insert"} /\ x.work # <<>>
  BY <1>2 DEF NextParent
<1>4. PICK p, rest : p = Head(x.work) /\ rest = Tail(x.work)
  OBVIOUS
<1>5. p \in DOMAIN rs /\ rest \in Seq(DOMAIN rs) /\ rest \in Seq(Tasks) /\ p \in Tasks
  <2>1. x.work \in Seq(DOMAIN rs)
    BY <1>2 DEF ClientOK
  <2>2. p \in DOMAIN rs /\ rest \in Seq(DOMAIN rs)
    BY <1>3, <1>4, <2>1, HeadTailProperties
  <2> QED BY <1>2, <2>2, SeqGrows DEF TableOK
<1>6. PICK T : T = {t \in DOMAIN rs : p \in Parents(rs[t])}
  OBVIOUS
<1>7. T \subseteq DOMAIN rs /\ T \subseteq Tasks
  BY <1>2, <1>6 DEF TableOK
<1>8. PICK y : y = [x EXCEPT !.work = rest, !.par = p, !.todo = T]
  OBVIOUS
<1>9. /\ y \in Tx /\ SameTx(x, y) /\ y.locked = x.locked /\ y.work = rest
      /\ y.writes = x.writes /\ y.list = x.list /\ y.todo = T
  BY <1>2, <1>5, <1>7, <1>8 DEF Tx, SameTx
<1>10. ClientOK(y, rs)
  BY <1>2, <1>5, <1>7, <1>9 DEF ClientOK, SameTx
<1>11. tx' = [tx EXCEPT ![c] = y] /\ UNCHANGED <<rows, late, lastToken>>
  <2>1. tx' = [tx EXCEPT ![c] = [AfterRead(tx[c]) EXCEPT
                  !.work = Tail(@), !.par = Head(tx[c].work),
                  !.todo = {t \in DOMAIN rows : Head(tx[c].work) \in Parents(rows[t])}]]
    BY DEF NextParent
  <2> QED BY <1>1, <1>2, <1>4, <1>6, <1>8, <2>1 DEF NextParent
<1>12. Locks(y, c, {}) /\ ClientOK(y, rows)
  BY <1>1, <1>2, <1>9, <1>10 DEF SameTx, Locks
<1> QED BY <1>11, <1>12, StepKeeps

\* ORDER BY id: the least id of a set that is not empty is one of it.
LEMMA LeastIn ==
  ASSUME NEW S \in SUBSET Tasks, S # {}
  PROVE  Least(S) \in S
<1>1. S \subseteq Nat
  BY SqlAssumption
<1>2. PICK R : R = {p \in Nat \X Nat : p[1] < p[2]}
  OBVIOUS
<1>3. IsWellFoundedOn(R, Nat)
  BY <1>2, NatLessThanWellFounded, Zenon DEF OpToRel
<1>4. PICK x \in S : \A y \in S : ~(<<y, x>> \in R)
  BY <1>1, <1>3, WFMin, Zenon
<1>5. \A y \in S : x <= y
  <2>1. SUFFICES ASSUME NEW y \in S PROVE x <= y
    OBVIOUS
  <2>2. x \in Nat /\ y \in Nat /\ (y < x => <<y, x>> \in R)
    BY <1>1, <1>2
  <2> QED BY <1>4, <2>2
<1> QED BY <1>5 DEF Least

\* An UPDATE under FOR UPDATE.
LEMMA WritingTx ==
  ASSUME NEW x \in Tx, NEW t \in Tasks, NEW r \in Row
  PROVE  /\ Writing(x, t, r) \in Tx /\ SameTx(x, Writing(x, t, r))
         /\ Writing(x, t, r).writes = With(x.writes, t, r)
         /\ Writing(x, t, r).locked = x.locked \cup {t}
         /\ Writing(x, t, r).list = x.list /\ Writing(x, t, r).todo = x.todo
         /\ Writing(x, t, r).work = x.work
<1>1. PICK w : w = With(x.writes, t, r)
  OBVIOUS
<1>2. w \in Tables
  BY <1>1, TablesGrow DEF Tx
<1>3. PICK z : z = Locking(x, t)
  OBVIOUS
<1>4. /\ z \in Tx /\ SameTx(x, z) /\ z.writes = x.writes /\ z.locked = x.locked \cup {t}
      /\ z.list = x.list /\ z.todo = x.todo /\ z.work = x.work
  BY <1>3 DEF Locking, Tx, SameTx
<1>5. Writing(x, t, r) = [z EXCEPT !.writes = w]
  BY <1>1, <1>3, <1>4 DEF Writing
<1>6. PICK y : y = [z EXCEPT !.writes = w]
  OBVIOUS
<1>7. /\ y \in Tx /\ SameTx(z, y) /\ y.writes = w /\ y.locked = z.locked
      /\ y.list = z.list /\ y.todo = z.todo /\ y.work = z.work
  BY <1>2, <1>4, <1>6 DEF Tx, SameTx
<1> QED BY <1>1, <1>4, <1>5, <1>6, <1>7 DEF SameTx

\* propagateTx locks a child, reads it and settles it.
LEMMA VisitChildKeeps ==
  ASSUME SqlInv, NEW c \in Clients, VisitChild(c)
  PROVE  SqlInv'
<1>1. PICK x, rs : x = tx[c] /\ rs = rows
  OBVIOUS
<1>2. ClientOK(x, rs) /\ x \in Tx /\ TableOK(rs) /\ x.todo # {} /\ x.todo \subseteq DOMAIN rs
  BY <1>1 DEF SqlInv, ClientOK, VisitChild
<1>3. PICK t : t = Least(x.todo)
  OBVIOUS
<1>4. t \in x.todo /\ t \in Tasks /\ t \in DOMAIN rs
  <2>1. x.todo \in SUBSET Tasks
    BY <1>2 DEF Tx
  <2> QED BY <1>2, <1>3, <2>1, LeastIn
<1>5. PICK r, s : r = Current(c)[t] /\ s = Current(c)[x.par].status
  OBVIOUS
<1>6. r \in Row /\ Kept(rs[t], r) /\ r = Over(x.writes, rs)[t]
  BY <1>1, <1>2, <1>4, <1>5, CurrentRow DEF Current
<1>7. PICK u : u = Settled(s, r)
  OBVIOUS
<1>8. u \in Row /\ Kept(rs[t], u) /\ (r.status = "running" => u.status = "running")
  BY <1>6, <1>7, SettledRow DEF Kept
<1>9. PICK W : W = IF IsFinal(u.status) /\ ~IsFinal(r.status) THEN Append(x.work, t) ELSE x.work
  OBVIOUS
<1>10. W \in Seq(DOMAIN rs) /\ W \in Seq(Tasks)
  <2>1. x.work \in Seq(DOMAIN rs) /\ x.work \in Seq(Tasks)
    BY <1>2 DEF ClientOK, Tx
  <2>2. Append(x.work, t) \in Seq(DOMAIN rs) /\ Append(x.work, t) \in Seq(Tasks)
    BY <1>4, <2>1, AppendProperties
  <2> QED BY <1>9, <2>1, <2>2
<1>11. PICK z : z = Writing(x, t, u)
  OBVIOUS
<1>12. /\ z \in Tx /\ SameTx(x, z) /\ z.writes = With(x.writes, t, u) /\ z.locked = x.locked \cup {t}
       /\ z.list = x.list /\ z.todo = x.todo /\ z.work = x.work
  BY <1>2, <1>4, <1>8, <1>11, WritingTx
<1>13. PICK T : T = x.todo \ {t}
  OBVIOUS
<1>14. T \in SUBSET Tasks /\ T \subseteq x.todo
  BY <1>2, <1>13 DEF Tx
<1>15. PICK y : y = [z EXCEPT !.todo = T, !.work = W]
  OBVIOUS
<1>16. /\ y \in Tx /\ SameTx(x, y) /\ y.writes = With(x.writes, t, u) /\ y.locked = x.locked \cup {t}
       /\ y.list = x.list /\ y.todo = T /\ y.work = W
  BY <1>10, <1>12, <1>14, <1>15 DEF Tx, SameTx
<1>17. y.phase = "reap1" /\ t \in y.list => u.status = "running"
  BY <1>2, <1>6, <1>8, <1>16 DEF ClientOK, SameTx
<1>18. ClientOK(y, rs)
  BY <1>2, <1>4, <1>8, <1>10, <1>14, <1>16, <1>17, WriteKeeps
<1>19. tx' = [tx EXCEPT ![c] = y] /\ UNCHANGED <<rows, late, lastToken>> /\ Free(c, t)
  <2>1. /\ tx' = [tx EXCEPT ![c] = [z EXCEPT
                     !.todo = @ \ {t},
                     !.work = IF IsFinal(u.status) /\ ~IsFinal(r.status) THEN Append(@, t) ELSE @]]
        /\ Free(c, t)
    BY <1>1, <1>3, <1>5, <1>7, <1>11, Zenon DEF VisitChild
  <2> QED BY <1>9, <1>12, <1>13, <1>15, <2>1 DEF VisitChild
<1>20. Locks(y, c, {t}) /\ ClientOK(y, rows)
  BY <1>1, <1>16, <1>18, <1>19 DEF SameTx, Locks
<1> QED BY <1>19, <1>20, StepKeeps

\* A row of a pass of ReapExpired is written.
LEMMA HandledKeeps ==
  ASSUME SqlInv, NEW c \in Clients, NEW t \in tx[c].list, NEW r \in Row, Kept(rows[t], r),
         NEW y, y = Handled(tx[c], t, r),
         tx' = [tx EXCEPT ![c] = y], UNCHANGED <<rows, late, lastToken>>,
         tx[c].locked \cup {t} = tx[c].locked \/ Free(c, t)
  PROVE  SqlInv'
<1>1. PICK x, rs : x = tx[c] /\ rs = rows
  OBVIOUS
<1>2. ClientOK(x, rs) /\ x \in Tx /\ TableOK(rs) /\ t \in x.list /\ t \in DOMAIN rs /\ t \in Tasks
  <2>1. ClientOK(x, rs) /\ TableOK(rs)
    BY <1>1 DEF SqlInv
  <2>2. t \in x.list
    BY <1>1
  <2> QED BY <2>1, <2>2 DEF ClientOK, TableOK
<1>3. PICK W : W = IF IsFinal(r.status) THEN <<t>> ELSE <<>>
  OBVIOUS
<1>4. W \in Seq(DOMAIN rs) /\ W \in Seq(Tasks)
  <2>1. t \in DOMAIN rs /\ t \in Tasks
    BY <1>2
  <2>2. \A S : <<>> \in Seq(S) /\ (t \in S => <<t>> \in Seq(S))
    OBVIOUS
  <2>3. W = <<t>> \/ W = <<>>
    BY <1>3
  <2> QED BY <2>1, <2>2, <2>3, Zenon
<1>5. PICK z : z = Writing(x, t, r)
  OBVIOUS
<1>6. /\ z \in Tx /\ SameTx(x, z) /\ z.writes = With(x.writes, t, r) /\ z.locked = x.locked \cup {t}
      /\ z.list = x.list /\ z.todo = x.todo
  BY <1>2, <1>5, WritingTx
<1>7. PICK L : L = x.list \ {t}
  OBVIOUS
<1>8. L \in SUBSET Tasks /\ L \subseteq x.list /\ t \notin L
  BY <1>2, <1>7 DEF Tx
<1>9. PICK v : v = [z EXCEPT !.list = L, !.work = W]
  OBVIOUS
<1>10. /\ v \in Tx /\ SameTx(x, v) /\ v.writes = With(x.writes, t, r) /\ v.locked = x.locked \cup {t}
       /\ v.list = L /\ v.todo = x.todo /\ v.work = W
  BY <1>4, <1>6, <1>8, <1>9 DEF Tx, SameTx
<1>11. y = v
  BY <1>1, <1>3, <1>5, <1>6, <1>7, <1>9 DEF Handled
<1>12. Kept(rs[t], r)
  BY <1>1
<1>13. ClientOK(v, rs)
  BY <1>2, <1>4, <1>8, <1>10, <1>12, WriteKeeps
<1>14. ClientOK(y, rows)
  BY <1>1, <1>11, <1>13
<1>15. PICK M : M = IF t \in x.locked THEN {} ELSE {t}
  OBVIOUS
<1>16. Locks(y, c, M)
  BY <1>1, <1>10, <1>11, <1>15 DEF SameTx, Locks
<1> QED BY <1>14, <1>16, StepKeeps

\* Pass 0: the cancellations asked for.
LEMMA ReapFlaggedKeeps ==
  ASSUME SqlInv, NEW c \in Clients, ReapFlagged(c)
  PROVE  SqlInv'
<1>1. PICK x, rs : x = tx[c] /\ rs = rows
  OBVIOUS
<1>2. ClientOK(x, rs) /\ x \in Tx /\ TableOK(rs) /\ x.list # {} /\ x.list \subseteq x.locked
  BY <1>1 DEF SqlInv, ClientOK, ReapFlagged, Handling
<1>3. PICK t : t = Least(x.list)
  OBVIOUS
<1>4. t \in x.list /\ t \in DOMAIN rs /\ t \in x.locked
  <2>1. x.list \in SUBSET Tasks
    BY <1>2 DEF Tx
  <2>2. t \in x.list
    BY <1>2, <1>3, <2>1, LeastIn
  <2> QED BY <1>2, <2>2 DEF ClientOK
<1>5. PICK old, r : old = Current(c)[t] /\ r = Finished(old, "canceled")
  OBVIOUS
<1>6. old \in Row /\ Kept(rs[t], old)
  BY <1>1, <1>2, <1>4, <1>5, CurrentRow DEF Current
<1>7. r \in Row /\ Kept(rs[t], r)
  BY <1>5, <1>6, FinishedRow DEF Kept, Statuses, IsFinal
<1>8. PICK y : y = Handled(tx[c], t, r)
  OBVIOUS
<1>9. tx' = [tx EXCEPT ![c] = y] /\ UNCHANGED <<rows, late, lastToken>>
  BY <1>1, <1>3, <1>5, <1>8, Zenon DEF ReapFlagged
<1>10. t \in tx[c].list /\ tx[c].locked \cup {t} = tx[c].locked /\ Kept(rows[t], r)
  BY <1>1, <1>4, <1>7
<1> QED BY <1>7, <1>8, <1>9, <1>10, HandledKeeps

\* Pass 1: the leases lost.
LEMMA ReapLostKeeps ==
  ASSUME SqlInv, NEW c \in Clients, ReapLost(c)
  PROVE  SqlInv'
<1>1. PICK x, rs : x = tx[c] /\ rs = rows
  OBVIOUS
<1>2. ClientOK(x, rs) /\ x \in Tx /\ TableOK(rs) /\ x.list # {} /\ x.phase = "reap1"
  BY <1>1 DEF SqlInv, ClientOK, ReapLost, Handling
<1>3. PICK t : t = Least(x.list)
  OBVIOUS
<1>4. t \in x.list /\ t \in DOMAIN rs /\ t \in x.locked /\ Over(x.writes, rs)[t].status = "running"
  <2>1. x.list \in SUBSET Tasks
    BY <1>2 DEF Tx
  <2>2. t \in x.list
    BY <1>2, <1>3, <2>1, LeastIn
  <2> QED BY <1>2, <2>2 DEF ClientOK
<1>5. PICK old, r : old = Current(c)[t] /\ r = Lost(old)
  OBVIOUS
<1>6. old \in Row /\ Kept(rs[t], old) /\ old.status = "running"
  BY <1>1, <1>2, <1>4, <1>5, CurrentRow DEF Current
<1>7. r \in Row /\ Kept(rs[t], r)
  BY <1>5, <1>6, LostRow DEF Kept, IsFinal
<1>8. PICK y : y = Handled(tx[c], t, r)
  OBVIOUS
<1>9. tx' = [tx EXCEPT ![c] = y] /\ UNCHANGED <<rows, late, lastToken>>
  BY <1>1, <1>3, <1>5, <1>8, Zenon DEF ReapLost
<1>10. t \in tx[c].list /\ tx[c].locked \cup {t} = tx[c].locked /\ Kept(rows[t], r)
  BY <1>1, <1>4, <1>7
<1> QED BY <1>7, <1>8, <1>9, <1>10, HandledKeeps

\* Pass 2: the blocked tasks.
LEMMA RepairBlockedKeeps ==
  ASSUME SqlInv, NEW c \in Clients, RepairBlocked(c)
  PROVE  SqlInv'
<1>1. PICK x, rs : x = tx[c] /\ rs = rows
  OBVIOUS
<1>2. ClientOK(x, rs) /\ x \in Tx /\ TableOK(rs) /\ x.list # {} /\ x.phase = "repair"
  BY <1>1 DEF SqlInv, ClientOK, RepairBlocked, Handling
<1>3. PICK t : t = Least(x.list)
  OBVIOUS
<1>4. t \in x.list /\ t \in DOMAIN rs /\ t \in Tasks
  <2>1. x.list \in SUBSET Tasks
    BY <1>2 DEF Tx
  <2>2. t \in x.list
    BY <1>2, <1>3, <2>1, LeastIn
  <2> QED BY <1>2, <2>1, <2>2 DEF ClientOK
<1>5. PICK old : old = Current(c)[t]
  OBVIOUS
<1>6. old \in Row /\ Kept(rs[t], old)
  BY <1>1, <1>2, <1>4, <1>5, CurrentRow DEF Current
<1>7. Free(c, t) /\ UNCHANGED <<rows, late, lastToken>>
  BY <1>1, <1>3, Zenon DEF RepairBlocked
<1>8. CASE old.status = "blocked"
  <2>1. PICK r : r = Repaired(c, old)
    OBVIOUS
  <2>2. r \in Row /\ Kept(rs[t], r)
    BY <1>6, <1>8, <2>1, RepairedRow DEF Kept, IsFinal
  <2>3. PICK y : y = Handled(tx[c], t, r)
    OBVIOUS
  <2>4. tx' = [tx EXCEPT ![c] = y]
    BY <1>1, <1>3, <1>5, <1>8, <2>1, <2>3 DEF RepairBlocked
  <2>5. t \in tx[c].list /\ Kept(rows[t], r)
    BY <1>1, <1>4, <2>2
  <2> QED BY <1>7, <2>2, <2>3, <2>4, <2>5, HandledKeeps
<1>9. CASE old.status # "blocked"
  <2>1. PICK L : L = x.list \ {t}
    OBVIOUS
  <2>2. L \in SUBSET Tasks /\ L \subseteq x.list
    BY <1>2, <2>1 DEF Tx
  <2>3. PICK y : y = [Locking(x, t) EXCEPT !.list = L]
    OBVIOUS
  <2>4. /\ y \in Tx /\ SameTx(x, y) /\ y.writes = x.writes /\ y.locked = x.locked \cup {t}
        /\ y.list = L /\ y.todo = x.todo /\ y.work = x.work
    BY <1>2, <1>4, <2>2, <2>3, ZenonT(60) DEF Locking, Tx, SameTx
  <2>5. ClientOK(y, rs)
    BY <1>2, <1>4, <2>2, <2>4 DEF ClientOK, SameTx
  <2>6. tx' = [tx EXCEPT ![c] = y]
    <3>1. tx' = [tx EXCEPT ![c] = [Locking(x, t) EXCEPT !.list = @ \ {t}]]
      BY <1>1, <1>3, <1>5, <1>9 DEF RepairBlocked
    <3>2. Locking(x, t).list = x.list
      BY <1>2 DEF Locking, Tx
    <3> QED BY <2>1, <2>3, <3>1, <3>2
  <2>7. Locks(y, c, {t}) /\ ClientOK(y, rows)
    BY <1>1, <1>7, <2>4, <2>5 DEF SameTx, Locks
  <2> QED BY <1>7, <2>6, <2>7, StepKeeps
<1> QED BY <1>8, <1>9

\* The second scan locks what is overdue and free.
LEMMA ScanExpiredKeeps ==
  ASSUME SqlInv, NEW c \in Clients, ScanExpired(c)
  PROVE  SqlInv'
<1>1. PICK x, rs : x = tx[c] /\ rs = rows
  OBVIOUS
<1>2. ClientOK(x, rs) /\ x \in Tx /\ TableOK(rs)
  BY <1>1 DEF SqlInv, ClientOK
<1>3. PICK E : E = Expired(c, x.due)
  OBVIOUS
<1>4. /\ E \subseteq DOMAIN rs /\ E \subseteq Tasks
      /\ \A t \in E : Free(c, t) /\ Over(x.writes, rs)[t].status = "running"
  BY <1>1, <1>2, <1>3 DEF Expired, Current, Tx
<1>5. PICK y : y = [x EXCEPT !.phase = "reap1", !.list = E, !.locked = x.locked \cup E]
  OBVIOUS
<1>6. /\ y \in Tx /\ y.phase = "reap1" /\ y.id = x.id /\ y.snap = x.snap /\ y.writes = x.writes
      /\ y.locked = x.locked \cup E /\ y.list = E /\ y.todo = x.todo /\ y.work = x.work
  BY <1>2, <1>4, <1>5 DEF Tx
<1>7. ClientOK(y, rs)
  BY <1>2, <1>4, <1>6 DEF ClientOK
<1>8. tx' = [tx EXCEPT ![c] = y] /\ UNCHANGED <<rows, late, lastToken>>
  BY <1>1, <1>3, <1>5 DEF ScanExpired
<1>9. Locks(y, c, E) /\ ClientOK(y, rows)
  BY <1>1, <1>4, <1>6, <1>7 DEF Locks
<1> QED BY <1>8, <1>9, StepKeeps

\* listBlockedIDs.
LEMMA ScanBlockedKeeps ==
  ASSUME SqlInv, NEW c \in Clients, ScanBlocked(c)
  PROVE  SqlInv'
<1>1. PICK x, z, rs : x = AfterRead(tx[c]) /\ z = tx[c] /\ rs = rows
  OBVIOUS
<1>2. ClientOK(z, rs) /\ TableOK(rs) /\ z \in Tx
  BY <1>1 DEF SqlInv, ClientOK
<1>3. ClientOK(x, rs) /\ x \in Tx /\ x.locked = z.locked /\ x.id = z.id
  BY <1>1, <1>2, ReadKeeps
<1>4. PICK B : B = {t \in DOMAIN ReadView(c) : ReadView(c)[t].status = "blocked"}
  OBVIOUS
<1>5. B \subseteq DOMAIN rs
  <2>1. DOMAIN z.writes \subseteq DOMAIN rs /\ DOMAIN z.snap \subseteq DOMAIN rs
    BY <1>2 DEF ClientOK
  <2>2. DOMAIN ReadView(c) \subseteq DOMAIN rs
    BY <1>1, <2>1 DEF ReadView, Current, Over
  <2> QED BY <1>4, <2>2
<1>6. B \subseteq Tasks
  BY <1>2, <1>5 DEF TableOK
<1>7. PICK y : y = [x EXCEPT !.phase = "repair", !.list = B]
  OBVIOUS
<1>8. /\ y \in Tx /\ y.phase = "repair" /\ y.id = x.id /\ y.snap = x.snap /\ y.writes = x.writes
      /\ y.locked = x.locked /\ y.list = B /\ y.todo = x.todo /\ y.work = x.work
  BY <1>3, <1>6, <1>7 DEF Tx
<1>9. ClientOK(y, rs)
  BY <1>3, <1>5, <1>8 DEF ClientOK
<1>10. tx' = [tx EXCEPT ![c] = y] /\ UNCHANGED <<rows, late, lastToken>>
  BY <1>1, <1>4, <1>7, Zenon DEF ScanBlocked
<1>11. Locks(y, c, {}) /\ ClientOK(y, rows)
  BY <1>1, <1>3, <1>8, <1>9 DEF Locks
<1> QED BY <1>10, <1>11, StepKeeps

-------------------------------------------------------------------------------
(* Commits.                                                                *)

\* The end of a task, or of a pass over all, is committed.
LEMMA CommitStep ==
  ASSUME SqlInv, NEW c \in Clients, Commit(c)
  PROVE  SqlInv'
<1>1. PICK x, rs, new : x = tx[c] /\ rs = rows /\ new = rows'
  OBVIOUS
<1>2. ClientOK(x, rs) /\ TableOK(rs) /\ new = Over(x.writes, rs) /\ Linear(rs)
  BY <1>1 DEF SqlInv, Commit, SqlChainsLinear, Linear
<1>3. DOMAIN x.writes \subseteq DOMAIN rs /\ DOMAIN x.writes \subseteq x.locked
  BY <1>2 DEF ClientOK
<1>4. DOMAIN new = DOMAIN rs /\ \A t \in DOMAIN rs : new[t] = Over(x.writes, rs)[t]
  BY <1>2, <1>3 DEF Over
<1>5. \A t \in DOMAIN rs : new[t] \in Row /\ Kept(rs[t], new[t])
  BY <1>2, <1>4, CurrentRow
<1>6. new = [t \in DOMAIN new |-> new[t]]
  BY <1>2 DEF Over
<1>7. TableOK(new)
  <2>1. new \in [DOMAIN new -> Row]
    BY <1>4, <1>5, <1>6
  <2>2. \A t \in DOMAIN new : new[t].replayOf \in DOMAIN new \cup {NoID}
    BY <1>2, <1>4, <1>5 DEF Kept, TableOK
  <2> QED BY <1>2, <1>4, <2>1, <2>2 DEF TableOK
<1>8. Linear(new)
  BY <1>2, <1>4, <1>5, LinearStable
<1>9. \A t \in DOMAIN rows : t \in DOMAIN rows' /\ Kept(rows[t], rows'[t])
  BY <1>1, <1>4, <1>5
<1>10. \A d \in Clients : d # c => /\ tx[d].id \notin DOMAIN rows'
                                   /\ \A t \in tx[d].locked : rows'[t] = rows[t]
  <2>1. SUFFICES ASSUME NEW d \in Clients, d # c
                 PROVE  tx[d].id \notin DOMAIN rows' /\ \A t \in tx[d].locked : rows'[t] = rows[t]
    OBVIOUS
  <2>2. tx[d].id \notin DOMAIN rs /\ tx[d].locked \subseteq DOMAIN rs
    BY <1>1 DEF SqlInv, ClientOK
  <2>3. tx[d].locked \cap x.locked = {}
    BY <1>1, <2>1 DEF SqlInv, Apart
  <2>4. \A t \in tx[d].locked : new[t] = rs[t]
    BY <1>2, <1>3, <2>2, <2>3 DEF Over
  <2> QED BY <1>1, <1>4, <2>2, <2>4
<1>11. tx' = [tx EXCEPT ![c] = NoTx] /\ UNCHANGED <<late, lastToken>>
  BY DEF Commit
<1>12. TableOK(rows') /\ Linear(rows')
  BY <1>1, <1>7, <1>8
<1> HIDE DEF NoTx
<1> QED BY <1>9, <1>10, <1>11, <1>12, CommitKeeps

\* A row is inserted: it starts a chain that has no head yet, or follows a final
\* execution of its key that nothing follows yet.
LEMMA InsertKeeps ==
  ASSUME SqlInv, NEW c \in Clients, NEW dec, InsertRow(c, dec), tx[c].id # NoID,
         dec.status \in {"canceled", "blocked", "pending"}, dec.pendingParents \in Nat,
         \/ tx[c].target = NoID /\ uq_chain_head(tx[c].key)
         \/ /\ tx[c].target \in DOMAIN rows /\ uq_replay_of(tx[c].target)
            /\ IsFinal(rows[tx[c].target].status) /\ tx[c].key = rows[tx[c].target].key
  PROVE  SqlInv'
<1>1. PICK x, rs, new : x = tx[c] /\ rs = rows /\ new = rows'
  OBVIOUS
<1>2. /\ ClientOK(x, rs) /\ x \in Tx /\ TableOK(rs) /\ Linear(rs) /\ x.id \notin DOMAIN rs /\ x.id \in Tasks
  <2>1. ClientOK(x, rs) /\ TableOK(rs) /\ Linear(rs)
    BY <1>1 DEF SqlInv, SqlChainsLinear, Linear
  <2>2. x.id # NoID
    BY <1>1
  <2> QED BY <2>1, <2>2 DEF ClientOK, Tx
<1>3. PICK id, target, key : id = x.id /\ target = x.target /\ key = x.key
  OBVIOUS
<1>4. PICK r : r = NewRow(dec, x)
  OBVIOUS
<1>5. r \in Row /\ r.key = key /\ r.replayOf = target
  <2>1. dec.status \in Statuses /\ dec.pendingParents \in Nat
    BY DEF Statuses
  <2>2. PICK s, n : s = dec.status /\ n = dec.pendingParents
    OBVIOUS
  <2>3. s \in Statuses /\ n \in Nat
    BY <2>1, <2>2
  <2>4. r = [status |-> s, dependsOn |-> x.deps, policy |-> x.policy,
             key |-> x.key, replayOf |-> x.target, pendingParents |-> n,
             leaseToken |-> NoToken, cancelRequested |-> FALSE, leaseLost |-> 0]
    BY <1>4, <2>2 DEF NewRow
  <2> QED BY <1>2, <1>3, <2>3, <2>4 DEF Row, Tx, NoToken
<1>6. /\ DOMAIN new = DOMAIN rs \cup {id} /\ new[id] = r /\ \A t \in DOMAIN rs : new[t] = rs[t]
      /\ id \notin DOMAIN rs /\ id \in Tasks /\ new = [t \in DOMAIN new |-> new[t]]
  <2>1. new = With(rs, id, r)
    BY <1>1, <1>3, <1>4 DEF InsertRow
  <2> QED BY <1>2, <1>3, <2>1 DEF With
<1>7. target = NoID \/ target \in DOMAIN rs
  BY <1>1, <1>3
<1>8. TableOK(new)
  <2>1. \A t \in DOMAIN new : new[t] \in Row /\ new[t].replayOf \in DOMAIN new \cup {NoID}
    BY <1>2, <1>5, <1>6, <1>7 DEF TableOK
  <2>2. new \in [DOMAIN new -> Row] /\ DOMAIN new \subseteq Tasks
    BY <1>2, <1>6, <2>1 DEF TableOK
  <2> QED BY <2>1, <2>2 DEF TableOK
<1>9. /\ target = NoID => \A t \in DOMAIN rs : rs[t].replayOf = NoID => key = NoKey \/ rs[t].key # key
      /\ target # NoID => /\ \A t \in DOMAIN rs : rs[t].replayOf # target
                          /\ IsFinal(rs[target].status) /\ key = rs[target].key
  <2>1. NoID \notin DOMAIN rs
    BY <1>2, SqlAssumption DEF TableOK, NoID
  <2> QED BY <1>1, <1>3, <2>1 DEF uq_chain_head, uq_replay_of
<1>10. id # NoID /\ NoID \notin DOMAIN rs /\ \A t \in DOMAIN rs : rs[t].replayOf # id /\ target # id
  BY <1>2, <1>6, <1>7, SqlAssumption DEF TableOK, NoID
<1>11. Linear(new)
  <2>1. SUFFICES ASSUME NEW t \in DOMAIN new, NEW u \in DOMAIN new
                 PROVE  /\ t # u /\ new[t].replayOf = new[u].replayOf =>
                             new[t].replayOf = NoID /\ (new[t].key = NoKey \/ new[t].key # new[u].key)
                        /\ new[t].replayOf = u => IsFinal(new[u].status) /\ new[t].key = new[u].key
    BY DEF Linear
  <2>2. CASE t \in DOMAIN rs /\ u \in DOMAIN rs
    BY <1>2, <1>6, <2>2 DEF Linear
  <2>3. CASE t = id /\ u \in DOMAIN rs
    BY <1>5, <1>6, <1>7, <1>9, <1>10, <2>3
  <2>4. CASE t \in DOMAIN rs /\ u = id
    BY <1>5, <1>6, <1>7, <1>9, <1>10, <2>4
  <2>5. CASE t = id /\ u = id
    BY <1>5, <1>6, <1>7, <1>10, <2>5
  <2> QED BY <1>6, <2>2, <2>3, <2>4, <2>5
<1>12. \A t \in DOMAIN rows : t \in DOMAIN rows' /\ Kept(rows[t], rows'[t])
  BY <1>1, <1>6 DEF Kept
<1>13. \A d \in Clients : d # c => /\ tx[d].id \notin DOMAIN rows'
                                   /\ \A t \in tx[d].locked : rows'[t] = rows[t]
  <2>1. SUFFICES ASSUME NEW d \in Clients, d # c
                 PROVE  tx[d].id \notin DOMAIN rows' /\ \A t \in tx[d].locked : rows'[t] = rows[t]
    OBVIOUS
  <2>2. tx[d].id \notin DOMAIN rs /\ tx[d].locked \subseteq DOMAIN rs
    BY <1>1 DEF SqlInv, ClientOK
  <2>3. tx[d].id # id
    BY <1>1, <1>3, <2>1 DEF SqlInv, Apart
  <2> QED BY <1>1, <1>6, <2>2, <2>3
<1>14. tx' = [tx EXCEPT ![c] = NoTx] /\ UNCHANGED <<late, lastToken>>
  BY DEF InsertRow
<1>15. TableOK(rows') /\ Linear(rows')
  BY <1>1, <1>8, <1>11
<1> HIDE DEF NoTx
<1> QED BY <1>12, <1>13, <1>14, <1>15, CommitKeeps

\* Enqueue's INSERT.
LEMMA InsertStep ==
  ASSUME SqlInv, NEW c \in Clients, Insert(c)
  PROVE  SqlInv'
<1>1. PICK x : x = tx[c]
  OBVIOUS
<1>2. x \in Tx /\ x.id # NoID /\ x.target = NoID
  BY <1>1 DEF SqlInv, ClientOK, Insert
<1>3. PICK read, policy : read = x.read /\ policy = x.policy
  OBVIOUS
<1>4. NotFinal(read) \subseteq Tasks
  <2>1. read \in Seq([id : Tasks, status : Statuses])
    BY <1>2, <1>3 DEF Tx
  <2>2. PICK S : S = [id : Tasks, status : Statuses]
    OBVIOUS
  <2>3. read \in Seq(S)
    BY <2>1, <2>2
  <2>4. \A i \in DOMAIN read : read[i] \in S
    BY <2>3
  <2>5. \A i \in DOMAIN read : read[i].id \in Tasks
    BY <2>2, <2>4
  <2> QED BY <2>5 DEF NotFinal
<1>5. PICK dec : dec = DecideOnSubmit(read, policy)
  OBVIOUS
<1>6. dec.status \in {"canceled", "blocked", "pending"} /\ dec.pendingParents \in Nat
  BY <1>4, <1>5, DecisionTyped
<1>7. InsertRow(c, dec) /\ uq_chain_head(tx[c].key)
  BY <1>1, <1>3, <1>5 DEF Insert
<1>8. tx[c].id # NoID /\ tx[c].target = NoID
  BY <1>1, <1>2
<1> QED BY <1>6, <1>7, <1>8, InsertKeeps

\* Replay's INSERT.
LEMMA InsertReplayStep ==
  ASSUME SqlInv, NEW c \in Clients, InsertReplay(c)
  PROVE  SqlInv'
<1>1. PICK dec : dec = [status |-> "pending", pendingParents |-> 0]
  OBVIOUS
<1>2. dec.status \in {"canceled", "blocked", "pending"} /\ dec.pendingParents \in Nat
  BY <1>1
<1>3. InsertRow(c, dec) /\ uq_replay_of(tx[c].target)
  BY <1>1 DEF InsertReplay
<1>4. /\ tx[c].id # NoID /\ tx[c].target \in DOMAIN rows /\ IsFinal(rows[tx[c].target].status)
      /\ tx[c].key = rows[tx[c].target].key
  BY DEF SqlInv, ClientOK, InsertReplay
<1> QED BY <1>2, <1>3, <1>4, InsertKeeps

\* A transaction given up leaves no trace.
LEMMA RollbackKeeps ==
  ASSUME SqlInv, NEW c \in Clients, Rollback(c)
  PROVE  SqlInv'
<1>1. ClientOK(NoTx, rows) /\ NoTx.locked = {} /\ NoTx.id = NoID
  BY NoTxOK DEF SqlInv
<1> HIDE DEF NoTx
<1>2. PICK y : y = NoTx
  OBVIOUS
<1>3. ClientOK(y, rows)
  BY <1>1, <1>2
<1>4. Alone(y, c)
  BY <1>1, <1>2 DEF Alone
<1>5. tx' = [tx EXCEPT ![c] = y] /\ UNCHANGED <<rows, late, lastToken>>
  BY <1>2 DEF Rollback
<1> QED BY <1>3, <1>4, <1>5, TxKeeps

-------------------------------------------------------------------------------
(* The theorems.                                                           *)

\* An empty table, and nobody in a transaction.
LEMMA SqlInit_Inv ==
  ASSUME SqlInit PROVE SqlInv
<1>1. TableOK(rows)
  BY DEF SqlInit, TableOK
<1>2. ClientOK(NoTx, rows) /\ NoTx.locked = {} /\ NoTx.id = NoID
  BY <1>1, NoTxOK
<1>3. NoTx \in Tx
  BY <1>2 DEF ClientOK
<1> HIDE DEF NoTx
<1>4. tx \in [Clients -> Tx] /\ \A c \in Clients : tx[c] = NoTx
  BY <1>3 DEF SqlInit
<1>5. \A c \in Clients : ClientOK(tx[c], rows)
  BY <1>2, <1>4
<1>6. Apart(tx)
  BY <1>2, <1>4 DEF Apart
<1>7. late \subseteq Tasks /\ lastToken \in 0..MaxClaims
  BY SqlAssumption DEF SqlInit, NoToken
<1>8. SqlChainsLinear
  BY DEF SqlInit, SqlChainsLinear
<1> QED BY <1>1, <1>4, <1>5, <1>6, <1>7, <1>8 DEF SqlInv

\* Every statement of every client preserves the invariant.
LEMMA SqlNext_Inv ==
  ASSUME SqlInv, isolation \in DOMAIN Submissions, SqlNext
  PROVE  SqlInv'
<1>1. CASE OneRow
  BY <1>1, ClaimKeeps, HeartbeatKeeps, RunningKeeps, ExpireKeeps DEF OneRow
<1>2. ASSUME NEW c \in Clients, Begin(c) PROVE SqlInv'
  BY <1>2, BeginEnqueueKeeps, BeginReplayKeeps, FinishKeeps, CancelQueuedKeeps, BeginReapKeeps DEF Begin
<1>3. ASSUME NEW c \in Clients, Step(c) PROVE SqlInv'
  BY <1>3, LockParentKeeps, InsertStep, LockTargetKeeps, CheckReplayedKeeps, InsertReplayStep,
     NextParentKeeps, VisitChildKeeps, ReapFlaggedKeeps, ScanExpiredKeeps, ReapLostKeeps,
     ScanBlockedKeeps, RepairBlockedKeeps, CommitStep DEF Step
<1>4. ASSUME NEW c \in Clients, Rollback(c) PROVE SqlInv'
  BY <1>4, RollbackKeeps
<1> QED BY <1>1, <1>2, <1>3, <1>4 DEF SqlNext

\* The invariant of the SQL broker, at both isolation levels.
LEMMA SqlInvariant ==
  SqlSpec => [](SqlInv /\ isolation \in DOMAIN Submissions)
<1>1. SqlInit => SqlInv /\ isolation \in DOMAIN Submissions
  BY SqlInit_Inv DEF SqlInit
<1>2. /\ SqlInv /\ isolation \in DOMAIN Submissions
      /\ [SqlNext]_sqlVars
      => (SqlInv /\ isolation \in DOMAIN Submissions)'
  <2>1. CASE UNCHANGED sqlVars
    BY <2>1 DEF sqlVars, SqlInv, SqlChainsLinear
  <2>2. CASE SqlNext
    BY <2>2, SqlNext_Inv DEF SqlNext
  <2> QED BY <2>1, <2>2
<1> QED BY <1>1, <1>2, PTL DEF SqlSpec

\* However transactions of Enqueue, Replay, Ack, Cancel and ReapExpired, their
\* deadlocks and their crashes interleave, no two of them have the same row
\* locked, whoever has written a row has it locked, and the committed rows are
\* well formed (the FOR UPDATE discipline of sqlbroker).
THEOREM RowLocksExclude == SqlSpec => []SqlTypeOK
<1>1. SqlInv => SqlTypeOK
  BY DEF SqlInv, SqlTypeOK, TableOK, ClientOK, Apart
<1> QED BY <1>1, SqlInvariant, PTL

\* The executions of a business key form one line, nothing is replayed twice and
\* only the end of the line may be open, whatever replays by id, replays by key
\* and enqueues of the key race, at READ COMMITTED and at REPEATABLE READ.
THEOREM ReplaysLinear == SqlSpec => []SqlChainsLinear
<1>1. SqlInv => SqlChainsLinear
  BY DEF SqlInv
<1> QED BY <1>1, SqlInvariant, PTL

-------------------------------------------------------------------------------
(* The graph at READ COMMITTED.  A table in which every row agrees with its*)
(* parents (GraphOK), and open transactions of which each has settled what *)
(* it has visited and has before it, in its queue, what it has not         *)
(* (WalkOK).                                                               *)

\* The phases of Enqueue and Replay.
Submitting == {"parents", "lock", "check", "insert"}

\* Task p ended in transaction x, and its child t has been settled for it.
Done(x, p, t) ==
  /\ p \in DOMAIN x.writes /\ IsFinal(x.writes[p].status)
  /\ p \notin Range(x.work) /\ ~(p = x.par /\ t \in x.todo)

\* The parents of t its row has still to hear of, in x and outside any transaction.
Undone(x, rs, t) == {p \in Parents(rs[t]) : ~IsFinal(rs[p].status) /\ ~Done(x, p, t)}
OpenIn(rs, t)    == {p \in Parents(rs[t]) : ~IsFinal(rs[p].status)}

\* Row r agrees with its parents, of which those in U are open and the others
\* have the statuses of table V.
Right(r, U, V) ==
  /\ r.status = "blocked" => r.pendingParents = Cardinality(U) /\ U # {}
  /\ r.status \notin {"blocked", "canceled"} => U = {}
  /\ r.status # "canceled" /\ r.policy = "fail_fast" =>
       \A p \in Parents(r) \ U : ~ParentBroke(V[p].status)

\* Every row agrees with its parents, which exist.
GraphOK(rs) ==
  \A t \in DOMAIN rs : Right(rs[t], OpenIn(rs, t), rs) /\ Parents(rs[t]) \subseteq DOMAIN rs

\* Task p ended in transaction x.
Ended(x, rs, p) ==
  p \in DOMAIN x.writes /\ IsFinal(x.writes[p].status) /\ ~IsFinal(rs[p].status)

\* The rows x has written agree with what x has done so far.
WritesRight(x, rs) ==
  \A t \in DOMAIN x.writes :
    /\ Right(x.writes[t], Undone(x, rs, t), Over(x.writes, rs))
    /\ x.writes[t].dependsOn = rs[t].dependsOn /\ x.writes[t].policy = rs[t].policy
    /\ IsFinal(rs[t].status) => x.writes[t].status = rs[t].status

\* No child of a task that ended in x is passed over.
Covered(x, rs) ==
  \A p \in DOMAIN rs : Ended(x, rs, p) /\ p \notin Range(x.work) =>
    \A t \in DOMAIN rs : p \in Parents(rs[t]) => t \in DOMAIN x.writes \/ (p = x.par /\ t \in x.todo)

\* What is in the work queue ended in x, and is there once.
WorkOK(x, rs) ==
  /\ \A p \in Range(x.work) : Ended(x, rs, p)
  /\ \A i, j \in DOMAIN x.work : x.work[i] = x.work[j] => i = j
  /\ x.todo # {} => /\ Ended(x, rs, x.par) /\ x.par \notin Range(x.work)
                    /\ \A t \in x.todo : x.par \in Parents(rs[t])

\* Task t moves in x on its own account.
Mover(x, rs, t) ==
  /\ CanTransition(rs[t].status, x.writes[t].status)
  /\ rs[t].status = "blocked" => x.writes[t].status = "canceled"
  /\ IF x.phase = "propagate" THEN IsFinal(x.writes[t].status)
     ELSE rs[t].status = "running" /\ x.writes[t].status \in {"pending", "failed", "canceled"}

\* Task t is moved in x by its parents, or not at all.
Follows(x, rs, t) ==
  \/ x.writes[t].status = rs[t].status
  \/ rs[t].status = "blocked" /\ x.writes[t].status = "pending"
  \/ /\ rs[t].status = "blocked" /\ x.writes[t].status = "canceled" /\ rs[t].policy = "fail_fast"
     /\ \E p \in Parents(rs[t]) \cap DOMAIN x.writes : ParentBroke(x.writes[p].status)

\* One task moves on its own account, or the overdue ones do, the others follow.
Accounted(x, rs) ==
  \E X \in SUBSET DOMAIN x.writes :
    /\ x.phase = "propagate" => \E t \in X : X = {t}
    /\ \A t \in X : Mover(x, rs, t)
    /\ \A t \in DOMAIN x.writes \ X : Follows(x, rs, t)

\* A transaction on its way through the children of what it has ended.
WalkOK(x, rs) ==
  /\ WritesRight(x, rs) /\ Covered(x, rs) /\ WorkOK(x, rs) /\ Accounted(x, rs)
  /\ x.phase = "reap0" => \A t \in x.list : Over(x.writes, rs)[t].status = "running"

\* What Enqueue has read is what is there: the rows are locked.
ReadOK(x, rs) ==
  /\ \A i \in DOMAIN x.read : /\ x.read[i].id \in x.locked \cap Range(x.deps)
                              /\ x.read[i].status = rs[x.read[i].id].status
  /\ \A p \in Range(x.deps) : p \in Range(x.work) \/ \E i \in DOMAIN x.read : x.read[i].id = p
  /\ Range(x.work) \subseteq Range(x.deps) /\ Range(x.deps) \subseteq DOMAIN rs

\* An open transaction against the committed graph.
GraphTx(x, rs) ==
  /\ ~x.seen
  /\ x.phase \in Submitting => DOMAIN x.writes = {} /\ x.todo = {}
  /\ x.phase = "parents" => ReadOK(x, rs)
  /\ x.phase \in Submitting \ {"parents"} => x.deps = <<>>
  /\ x.phase \notin Submitting => WalkOK(x, rs)

\* The invariant of the graph at READ COMMITTED.
GraphInv == GraphOK(rows) /\ \A c \in Clients : GraphTx(tx[c], rows)

-------------------------------------------------------------------------------
(* What a transaction sees.                                                *)

\* Every row agrees with its parents as transaction x sees them, the rows it has
\* not written included.
LEMMA ViewRight ==
  ASSUME NEW x, NEW rs, ClientOK(x, rs), GraphOK(rs), WalkOK(x, rs), NEW t \in DOMAIN rs
  PROVE  /\ Right(Over(x.writes, rs)[t], Undone(x, rs, t), Over(x.writes, rs))
         /\ Over(x.writes, rs)[t].dependsOn = rs[t].dependsOn
         /\ Over(x.writes, rs)[t].policy = rs[t].policy
         /\ IsFinal(rs[t].status) => Over(x.writes, rs)[t].status = rs[t].status
<1>1. DOMAIN x.writes \subseteq DOMAIN rs
  BY DEF ClientOK
<1>2. PICK V : V = Over(x.writes, rs)
  OBVIOUS
<1>3. \A u \in DOMAIN rs : V[u] = IF u \in DOMAIN x.writes THEN x.writes[u] ELSE rs[u]
  BY <1>1, <1>2 DEF Over
<1>4. CASE t \in DOMAIN x.writes
  BY <1>2, <1>3, <1>4 DEF WalkOK, WritesRight
<1>5. CASE t \notin DOMAIN x.writes
  <2>1. Undone(x, rs, t) = OpenIn(rs, t)
    <3>1. ASSUME NEW p \in Parents(rs[t]), ~IsFinal(rs[p].status), Done(x, p, t) PROVE FALSE
      <4>1. p \in DOMAIN rs /\ Ended(x, rs, p) /\ p \notin Range(x.work)
        BY <3>1 DEF GraphOK, Done, Ended
      <4>2. t \in DOMAIN x.writes \/ (p = x.par /\ t \in x.todo)
        BY <4>1 DEF WalkOK, Covered
      <4> QED BY <1>5, <3>1, <4>2 DEF Done
    <3> QED BY <3>1 DEF Undone, OpenIn
  <2>2. V[t] = rs[t] /\ Right(rs[t], OpenIn(rs, t), rs) /\ Parents(rs[t]) \subseteq DOMAIN rs
    BY <1>3, <1>5 DEF GraphOK
  <2>3. \A p \in Parents(rs[t]) \ OpenIn(rs, t) : V[p].status = rs[p].status
    BY <1>3, <2>2 DEF OpenIn, WalkOK, WritesRight
  <2>4. Right(rs[t], OpenIn(rs, t), V)
    BY <2>2, <2>3 DEF Right
  <2> QED BY <1>2, <2>1, <2>2, <2>4
<1> QED BY <1>4, <1>5

\* An open transaction is not disturbed by what the others commit: they leave the
\* rows it has locked alone, end no parent of such a row, and add no child of one.
LEMMA GraphTxStable ==
  ASSUME NEW x, NEW rs, NEW new, ClientOK(x, rs), GraphTx(x, rs), GraphOK(rs),
         \A t \in DOMAIN rs : /\ t \in DOMAIN new
                              /\ new[t].dependsOn = rs[t].dependsOn /\ new[t].policy = rs[t].policy
                              /\ IsFinal(rs[t].status) => new[t].status = rs[t].status
                              /\ t \in x.locked => new[t] = rs[t],
         \A t \in x.locked : \A p \in Parents(rs[t]) : IsFinal(new[p].status) => IsFinal(rs[p].status),
         \A t \in DOMAIN new \ DOMAIN rs : Parents(new[t]) \cap x.locked = {}
  PROVE  GraphTx(x, new)
<1>1. /\ DOMAIN x.writes \subseteq x.locked /\ x.locked \subseteq DOMAIN rs
      /\ x.todo \subseteq DOMAIN rs
  BY DEF ClientOK
<1>2. \A t \in DOMAIN rs : Parents(new[t]) = Parents(rs[t])
  BY DEF Parents
<1>3. \A t \in DOMAIN x.writes : new[t] = rs[t]
  BY <1>1
<1>4. x.phase = "parents" => ReadOK(x, new)
  <2>1. SUFFICES ASSUME x.phase = "parents" PROVE ReadOK(x, new)
    OBVIOUS
  <2>2. ReadOK(x, rs)
    BY <2>1 DEF GraphTx
  <2>3. \A i \in DOMAIN x.read : new[x.read[i].id] = rs[x.read[i].id]
    BY <1>1, <2>2 DEF ReadOK
  <2> QED BY <2>2, <2>3 DEF ReadOK
<1>5. x.phase \notin Submitting => WalkOK(x, new)
  <2>1. SUFFICES ASSUME x.phase \notin Submitting PROVE WalkOK(x, new)
    OBVIOUS
  <2>2. WalkOK(x, rs)
    BY <2>1 DEF GraphTx
  <2>3. \A p : Ended(x, new, p) <=> Ended(x, rs, p)
    BY <1>3 DEF Ended
  <2>4. \A t \in DOMAIN x.writes : Undone(x, new, t) = Undone(x, rs, t)
    <3>1. SUFFICES ASSUME NEW t \in DOMAIN x.writes PROVE Undone(x, new, t) = Undone(x, rs, t)
      OBVIOUS
    <3>2. t \in DOMAIN rs /\ t \in x.locked /\ Parents(new[t]) = Parents(rs[t]) /\ Parents(rs[t]) \subseteq DOMAIN rs
      BY <1>1, <1>2 DEF GraphOK
    <3>3. \A p \in Parents(rs[t]) : IsFinal(new[p].status) <=> IsFinal(rs[p].status)
      BY <3>2
    <3> QED BY <3>2, <3>3 DEF Undone
  <2>5. WritesRight(x, new)
    <3>1. SUFFICES ASSUME NEW t \in DOMAIN x.writes
                   PROVE  Right(x.writes[t], Undone(x, rs, t), Over(x.writes, new))
      BY <1>3, <2>2, <2>4 DEF WalkOK, WritesRight
    <3>2. /\ Right(x.writes[t], Undone(x, rs, t), Over(x.writes, rs))
          /\ Parents(x.writes[t]) = Parents(rs[t]) /\ Parents(rs[t]) \subseteq DOMAIN rs
      BY <1>1, <2>2 DEF WalkOK, WritesRight, GraphOK, Parents
    <3>3. ASSUME NEW p \in Parents(rs[t]) \ Undone(x, rs, t)
          PROVE  Over(x.writes, new)[p].status = Over(x.writes, rs)[p].status
      <4>1. p \in DOMAIN rs /\ p \in DOMAIN new
        BY <3>2
      <4>2. CASE p \in DOMAIN x.writes
        BY <4>1, <4>2 DEF Over
      <4>3. CASE p \notin DOMAIN x.writes
        <5>1. IsFinal(rs[p].status)
          BY <3>3, <4>3 DEF Undone, Done
        <5> QED BY <4>1, <4>3, <5>1 DEF Over
      <4> QED BY <4>2, <4>3
    <3> QED BY <3>2, <3>3 DEF Right
  <2>6. Covered(x, new)
    <3>1. SUFFICES ASSUME NEW p \in DOMAIN new, Ended(x, rs, p), p \notin Range(x.work),
                          NEW t \in DOMAIN new, p \in Parents(new[t])
                   PROVE  t \in DOMAIN x.writes \/ (p = x.par /\ t \in x.todo)
      BY <2>3 DEF Covered
    <3>2. p \in x.locked /\ p \in DOMAIN rs
      BY <1>1, <3>1 DEF Ended
    <3>3. t \in DOMAIN rs
      BY <3>1, <3>2
    <3> QED BY <1>2, <2>2, <3>1, <3>2, <3>3 DEF WalkOK, Covered
  <2>7. WorkOK(x, new)
    <3>1. \A t \in x.todo : Parents(new[t]) = Parents(rs[t])
      BY <1>1, <1>2
    <3> QED BY <2>2, <2>3, <3>1 DEF WalkOK, WorkOK
  <2>8. Accounted(x, new)
    <3>1. \A t \in DOMAIN x.writes : (Mover(x, new, t) <=> Mover(x, rs, t)) /\ (Follows(x, new, t) <=> Follows(x, rs, t))
      BY <1>3 DEF Mover, Follows
    <3>2. PICK X \in SUBSET DOMAIN x.writes :
             /\ x.phase = "propagate" => \E t \in X : X = {t}
             /\ \A t \in X : Mover(x, rs, t)
             /\ \A t \in DOMAIN x.writes \ X : Follows(x, rs, t)
      BY <2>2 DEF WalkOK, Accounted
    <3>3. /\ \A t \in X : Mover(x, new, t)
          /\ \A t \in DOMAIN x.writes \ X : Follows(x, new, t)
      BY <3>1, <3>2
    <3> QED BY <3>2, <3>3 DEF Accounted
  <2>9. x.phase = "reap0" => \A t \in x.list : Over(x.writes, new)[t].status = "running"
    <3>1. SUFFICES ASSUME x.phase = "reap0", NEW t \in x.list PROVE Over(x.writes, new)[t].status = "running"
      OBVIOUS
    <3>2. t \in x.locked /\ t \in DOMAIN rs /\ new[t] = rs[t] /\ t \in DOMAIN new
      BY <1>1, <3>1 DEF ClientOK
    <3>3. Over(x.writes, rs)[t].status = "running"
      BY <2>2, <3>1 DEF WalkOK
    <3> QED BY <3>2, <3>3 DEF Over
  <2> QED BY <2>5, <2>6, <2>7, <2>8, <2>9 DEF WalkOK
<1> QED BY <1>4, <1>5 DEF GraphTx

-------------------------------------------------------------------------------
(* Steps of a walk.                                                        *)

\* When no child is left to settle, what x has not done is what it sees open.
LEMMA NothingLeft ==
  ASSUME NEW x, NEW rs, ClientOK(x, rs), GraphOK(rs), WalkOK(x, rs), x.work = <<>>, x.todo = {},
         NEW t \in DOMAIN rs
  PROVE  Undone(x, rs, t) = {p \in Parents(rs[t]) : ~IsFinal(Over(x.writes, rs)[p].status)}
<1>1. Range(x.work) = {}
  BY DEF Range
<1>2. Parents(rs[t]) \subseteq DOMAIN rs /\ DOMAIN x.writes \subseteq DOMAIN rs
  BY DEF GraphOK, ClientOK
<1>3. \A p \in Parents(rs[t]) : Over(x.writes, rs)[p] = IF p \in DOMAIN x.writes THEN x.writes[p] ELSE rs[p]
  BY <1>2 DEF Over
<1>4. \A p \in Parents(rs[t]) : IsFinal(rs[p].status) => Over(x.writes, rs)[p].status = rs[p].status
  BY <1>2, ViewRight
<1>5. \A p \in Parents(rs[t]) : Done(x, p, t) <=> p \in DOMAIN x.writes /\ IsFinal(x.writes[p].status)
  BY <1>1 DEF Done
<1> QED BY <1>3, <1>4, <1>5 DEF Undone

\* A task x sees running has run before x, and waits for nobody; a blocked one
\* was blocked before.
LEMMA SeenStatus ==
  ASSUME NEW x, NEW rs, ClientOK(x, rs), TableOK(rs), WalkOK(x, rs), NEW t \in DOMAIN rs,
         Over(x.writes, rs)[t].status \in {"running", "blocked"}
  PROVE  /\ rs[t].status = Over(x.writes, rs)[t].status
         /\ \A X \in SUBSET DOMAIN x.writes : (\A q \in X : Mover(x, rs, q)) => t \notin X
<1>1. PICK r : r = Over(x.writes, rs)[t]
  OBVIOUS
<1>2. r = IF t \in DOMAIN x.writes THEN x.writes[t] ELSE rs[t]
  BY <1>1 DEF Over
<1>3. PICK X \in SUBSET DOMAIN x.writes :
             /\ \A q \in X : Mover(x, rs, q)
             /\ \A q \in DOMAIN x.writes \ X : Follows(x, rs, q)
  BY DEF WalkOK, Accounted
<1>4. t \in DOMAIN x.writes => ~Mover(x, rs, t)
  BY <1>1, <1>2 DEF Mover, IsFinal
<1> QED BY <1>1, <1>2, <1>3, <1>4 DEF Follows

\* What propagateTx does to a child that waits, or has been canceled.
LEMMA SettledFields ==
  ASSUME NEW r \in Row, NEW s, IsFinal(s), r.status \in {"blocked", "canceled"},
         NEW u, u = Settled(s, r)
  PROVE  /\ u.dependsOn = r.dependsOn /\ u.policy = r.policy
         /\ r.status = "canceled" => u = r
         /\ r.status = "blocked" /\ ~Satisfied(s, r.policy) => u.status = "canceled"
         /\ r.status = "blocked" /\ Satisfied(s, r.policy) /\ r.pendingParents > 0 =>
              /\ u.pendingParents = r.pendingParents - 1
              /\ u.status = IF r.pendingParents = 1 THEN "pending" ELSE "blocked"
<1>1. PICK d : d = DecideOnParentFinal(s, r.status, r.policy, r.pendingParents)
  OBVIOUS
<1>0. r.pendingParents \in Nat
  BY DEF Row
<1>2. /\ r.status = "canceled" => d.action = "none" /\ d.pendingParents = r.pendingParents
      /\ r.status = "blocked" /\ ~Satisfied(s, r.policy) => d.action = "cancel"
      /\ r.status = "blocked" /\ Satisfied(s, r.policy) /\ r.pendingParents > 0 =>
           /\ d.pendingParents = r.pendingParents - 1
           /\ d.action = IF r.pendingParents = 1 THEN "wake" ELSE "none"
      /\ d.action \in {"none", "cancel", "wake"} /\ d.pendingParents \in Nat
  BY <1>0, <1>1 DEF DecideOnParentFinal, IsFinal
<1>3. PICK n : n = d.pendingParents
  OBVIOUS
<1>4. PICK v : v = [r EXCEPT !.pendingParents = n]
  OBVIOUS
<1>5. /\ v \in Row /\ v.dependsOn = r.dependsOn /\ v.policy = r.policy /\ v.status = r.status
      /\ v.pendingParents = n /\ (n = r.pendingParents => v = r)
  BY <1>2, <1>3, <1>4 DEF Row
<1>6. PICK w : w = [v EXCEPT !.status = "pending"]
  OBVIOUS
<1>7. w.dependsOn = r.dependsOn /\ w.policy = r.policy /\ w.status = "pending" /\ w.pendingParents = n
  BY <1>5, <1>6 DEF Row
<1>8. PICK k : k = [ClearLease(v) EXCEPT !.status = "canceled"]
  OBVIOUS
<1>9. k.dependsOn = r.dependsOn /\ k.policy = r.policy /\ k.status = "canceled"
  BY <1>5, <1>8 DEF Row, ClearLease
<1>10. u = CASE d.action = "wake"   -> w
             [] d.action = "cancel" -> IF r.status = "running" THEN [r EXCEPT !.cancelRequested = TRUE] ELSE k
             [] OTHER -> v
  BY <1>1, <1>3, <1>4, <1>6, <1>8, Zenon DEF Settled
<1>11. \/ d.action = "wake" /\ u = w
       \/ d.action = "cancel" /\ u = k
       \/ d.action = "none" /\ u = v
  BY <1>2, <1>10, SMTT(60)
<1> QED BY <1>2, <1>3, <1>5, <1>7, <1>9, <1>11

\* The child t of the task that ended is settled for it.
LEMMA VisitWalk ==
  ASSUME NEW x, NEW y, NEW rs, NEW t \in x.todo, NEW r, NEW u,
         ClientOK(x, rs), TableOK(rs), GraphOK(rs), WalkOK(x, rs),
         r = Over(x.writes, rs)[t], u = Settled(Over(x.writes, rs)[x.par].status, r),
         y.phase = x.phase, y.list = x.list, y.par = x.par, y.todo = x.todo \ {t},
         y.writes = With(x.writes, t, u),
         y.work = IF IsFinal(u.status) /\ ~IsFinal(r.status) THEN Append(x.work, t) ELSE x.work
  PROVE  WalkOK(y, rs)
<1>1. PICK p, s, V, U : p = x.par /\ V = Over(x.writes, rs) /\ s = V[p].status /\ U = Undone(x, rs, t)
  OBVIOUS
<1>2. /\ t \in DOMAIN rs /\ Ended(x, rs, p) /\ p \notin Range(x.work) /\ p \in Parents(rs[t])
      /\ DOMAIN x.writes \subseteq DOMAIN rs
      /\ p \in DOMAIN rs
  BY <1>1 DEF WalkOK, WorkOK, ClientOK, GraphOK
<1>3. \A q \in DOMAIN rs : V[q] = IF q \in DOMAIN x.writes THEN x.writes[q] ELSE rs[q]
  BY <1>1, <1>2 DEF Over
<1>4. p \in U /\ IsFinal(s) /\ ~IsFinal(rs[p].status) /\ s = x.writes[p].status /\ p \in DOMAIN x.writes
  BY <1>1, <1>2, <1>3 DEF Ended, Undone, Done
<1>5. /\ Right(r, U, V) /\ r.dependsOn = rs[t].dependsOn /\ r.policy = rs[t].policy
      /\ IsFinal(rs[t].status) => r.status = rs[t].status
      /\ r \in Row /\ Parents(r) = Parents(rs[t]) /\ Parents(rs[t]) \subseteq DOMAIN rs
  BY <1>1, <1>2, ViewRight, CurrentRow DEF Parents, GraphOK
<1>6. r.status \in {"blocked", "canceled"}
  BY <1>4, <1>5 DEF Right
<1>7. u = Settled(s, r)
  BY <1>1
<1>8. /\ u.dependsOn = r.dependsOn /\ u.policy = r.policy
      /\ r.status = "canceled" => u = r
      /\ r.status = "blocked" /\ ~Satisfied(s, r.policy) => u.status = "canceled"
      /\ r.status = "blocked" /\ Satisfied(s, r.policy) /\ r.pendingParents > 0 =>
              /\ u.pendingParents = r.pendingParents - 1
              /\ u.status = IF r.pendingParents = 1 THEN "pending" ELSE "blocked"
  BY <1>4, <1>5, <1>6, <1>7, SettledFields
<1>9. IsFiniteSet(U) /\ Cardinality(U) \in Nat /\ Cardinality(U \ {p}) = Cardinality(U) - 1
      /\ IsFiniteSet(U \ {p}) /\ Cardinality(U \ {p}) \in Nat /\ (Cardinality(U \ {p}) = 0 <=> U \ {p} = {})
  <2>1. U \subseteq Tasks
    BY <1>1, <1>2, <1>5 DEF Undone, TableOK
  <2>2. IsFiniteSet(U)
    BY <2>1, SqlAssumption, FS_Subset
  <2> QED BY <1>4, <2>2, FS_CardinalityType, FS_RemoveElement, FS_EmptySet
<1>10. r.status = "blocked" => rs[t].status = "blocked" /\ r.pendingParents = Cardinality(U) /\ U # {}
  BY <1>1, <1>2, <1>5, SeenStatus DEF Right
<1>11. r.status = "blocked" => \/ u.status = "canceled" /\ ~Satisfied(s, r.policy)
                               \/ /\ Satisfied(s, r.policy) /\ u.pendingParents = Cardinality(U \ {p})
                                  /\ u.status = IF U \ {p} = {} THEN "pending" ELSE "blocked"
  <2>1. r.status = "blocked" => r.pendingParents > 0 /\ r.pendingParents \in Nat
    BY <1>4, <1>9, <1>10
  <2> QED BY <1>8, <1>9, <1>10, <2>1
<1>12. /\ DOMAIN y.writes = DOMAIN x.writes \cup {t} /\ y.writes[t] = u
       /\ \A q \in DOMAIN x.writes : q # t => y.writes[q] = x.writes[q]
       /\ t \in DOMAIN x.writes => r = x.writes[t]
       /\ t \notin DOMAIN x.writes => r = rs[t]
  BY <1>1, <1>2, <1>3 DEF With
<1>13. t \in Range(x.work) => IsFinal(r.status)
  BY <1>12, SMTT(60) DEF WalkOK, WorkOK, Ended
<1>14. /\ Range(y.work) = IF r.status = "blocked" /\ u.status = "canceled" THEN Range(x.work) \cup {t} ELSE Range(x.work)
       /\ \A i, j \in DOMAIN y.work : y.work[i] = y.work[j] => i = j
  <2>1. x.work \in Seq(Tasks) /\ t \in Tasks
    BY <1>2 DEF ClientOK, Tx, TableOK
  <2>2. \A i, j \in DOMAIN x.work : x.work[i] = x.work[j] => i = j
    BY DEF WalkOK, WorkOK
  <2>3. CASE r.status = "blocked" /\ u.status = "canceled"
    <3>1. y.work = Append(x.work, t) /\ t \notin Range(x.work)
      BY <1>13, <2>3 DEF IsFinal
    <3> QED BY <2>1, <2>2, <2>3, <3>1 DEF Range
  <2>4. CASE ~(r.status = "blocked" /\ u.status = "canceled")
    BY <1>6, <1>8, <1>11, <2>2, <2>4, ZenonT(60) DEF IsFinal
  <2> QED BY <2>3, <2>4
<1>15. \A q \in DOMAIN rs : Over(y.writes, rs)[q] = IF q = t THEN u ELSE V[q]
  BY <1>3, <1>12, ZenonT(60) DEF Over
<1>16. ASSUME NEW v \in DOMAIN rs, NEW q \in DOMAIN rs, ~IsFinal(rs[q].status)
       PROVE  Done(y, q, v) <=> Done(x, q, v) \/ (q = p /\ v = t)
  <2>1. CASE q = t
    <3>1. CASE r.status = "canceled"
      BY <1>1, <1>2, <1>4, <1>5, <1>8, <1>12, <1>14, <2>1, <3>1, <1>16, SMTT(60) DEF Done, IsFinal
    <3>2. CASE r.status = "blocked"
      BY <1>1, <1>4, <1>11, <1>12, <1>14, <2>1, <3>2, <1>16, ZenonT(60) DEF Done, IsFinal
    <3> QED BY <1>6, <3>1, <3>2, SMTT(60)
  <2>2. CASE q # t
    <3>1. /\ q \in DOMAIN y.writes <=> q \in DOMAIN x.writes
          /\ q \in DOMAIN x.writes => y.writes[q] = x.writes[q]
          /\ q \in Range(y.work) <=> q \in Range(x.work)
      BY <1>12, <1>14, <2>2
    <3>2. (q = y.par /\ v \in y.todo) <=> (q = x.par /\ v \in x.todo) /\ ~(q = p /\ v = t)
      BY <1>1
    <3>3. q = p => q \in DOMAIN x.writes /\ IsFinal(x.writes[q].status) /\ q \notin Range(x.work)
      BY <1>2, <1>4
    <3> QED BY <3>1, <3>2, <3>3 DEF Done
  <2> QED BY <2>1, <2>2
<1>17. Undone(y, rs, t) = U \ {p}
  BY <1>1, <1>2, <1>5, <1>16 DEF Undone
<1>18. \A v \in DOMAIN rs : v # t => Undone(y, rs, v) = Undone(x, rs, v)
  <2>1. \A v \in DOMAIN rs : Parents(rs[v]) \subseteq DOMAIN rs
    BY DEF GraphOK
  <2> QED BY <1>16, <2>1 DEF Undone
<1>19. \A q \in DOMAIN rs : IsFinal(V[q].status) => Over(y.writes, rs)[q].status = V[q].status
  BY <1>1, <1>6, <1>8, <1>15, SMTT(60) DEF IsFinal
<1>20. WritesRight(y, rs)
  <2>1. ASSUME NEW v \in DOMAIN x.writes, v # t
        PROVE  /\ Right(y.writes[v], Undone(y, rs, v), Over(y.writes, rs))
               /\ y.writes[v].dependsOn = rs[v].dependsOn /\ y.writes[v].policy = rs[v].policy
               /\ IsFinal(rs[v].status) => y.writes[v].status = rs[v].status
    <3>1. /\ Right(x.writes[v], Undone(x, rs, v), V)
          /\ x.writes[v].dependsOn = rs[v].dependsOn /\ x.writes[v].policy = rs[v].policy
          /\ IsFinal(rs[v].status) => x.writes[v].status = rs[v].status
      BY <1>1 DEF WalkOK, WritesRight
    <3>2. v \in DOMAIN rs /\ Parents(rs[v]) \subseteq DOMAIN rs /\ Parents(x.writes[v]) = Parents(rs[v])
      BY <1>2, <3>1 DEF GraphOK, Parents
    <3>3. \A q \in Parents(rs[v]) \ Undone(x, rs, v) : IsFinal(V[q].status)
      <4>1. \A q \in Parents(rs[v]) : IsFinal(rs[q].status) => IsFinal(V[q].status)
        BY <1>1, <3>2, ViewRight, SMTT(60)
      <4> QED BY <1>3, <3>2, <4>1 DEF Undone, Done
    <3>4. Right(x.writes[v], Undone(x, rs, v), Over(y.writes, rs))
      BY <1>19, <3>1, <3>2, <3>3 DEF Right
    <3> QED BY <1>12, <1>18, <2>1, <3>1, <3>2, <3>4
  <2>2. Right(u, U \ {p}, Over(y.writes, rs))
    <3>1. CASE u.status = "canceled"
      BY <3>1, SMTT(60) DEF Right
    <3>2. CASE u.status # "canceled"
      <4>1. /\ r.status = "blocked" /\ Satisfied(s, r.policy) /\ u.pendingParents = Cardinality(U \ {p})
            /\ u.status = IF U \ {p} = {} THEN "pending" ELSE "blocked"
        BY <1>6, <1>8, <1>11, <3>2
      <4>2. Parents(u) = Parents(rs[t]) /\ u.policy = r.policy
        BY <1>5, <1>8 DEF Parents
      <4>3. ASSUME r.policy = "fail_fast", NEW q \in Parents(rs[t]) \ (U \ {p})
            PROVE  ~ParentBroke(Over(y.writes, rs)[q].status)
        <5>1. q \in DOMAIN rs
          BY <1>5, <4>3
        <5>2. CASE q = t
          BY <1>15, <3>2, <4>1, <5>1, <5>2 DEF ParentBroke
        <5>3. CASE q = p /\ q # t
          BY <1>1, <1>15, <4>1, <4>3, <5>1, <5>3 DEF ParentBroke, Satisfied
        <5>4. CASE q \notin U /\ q # t
          BY <1>5, <1>15, <4>1, <4>3, <5>1, <5>4 DEF Right
        <5> QED BY <4>3, <5>2, <5>3, <5>4
      <4> QED BY <4>1, <4>2, <4>3 DEF Right
    <3> QED BY <3>1, <3>2
  <2>3. /\ u.dependsOn = rs[t].dependsOn /\ u.policy = rs[t].policy
        /\ IsFinal(rs[t].status) => u.status = rs[t].status
    <3>1. IsFinal(rs[t].status) => r.status = "canceled"
      BY <1>5, <1>6 DEF IsFinal
    <3> QED BY <1>5, <1>8, <3>1
  <2> QED BY <1>12, <1>17, <2>1, <2>2, <2>3, ZenonT(60) DEF WritesRight
<1>21. \A q : Ended(x, rs, q) => Ended(y, rs, q)
  BY <1>6, <1>8, <1>12 DEF Ended, IsFinal
<1>22. \A q : Ended(y, rs, q) /\ q \notin Range(y.work) => Ended(x, rs, q) /\ q \notin Range(x.work)
  <2>1. SUFFICES ASSUME NEW q, Ended(y, rs, q), q \notin Range(y.work)
                 PROVE  Ended(x, rs, q) /\ q \notin Range(x.work)
    BY SMTT(60)
  <2>2. CASE q # t
    BY <1>12, <1>14, <2>1, <2>2, ZenonT(60) DEF Ended
  <2>3. CASE q = t
    <3>1. IsFinal(u.status) /\ ~IsFinal(rs[t].status) /\ u.status # "blocked" /\ u.status # "pending"
      BY <1>12, <2>1, <2>3 DEF Ended, IsFinal
    <3>2. r.status = "canceled"
      BY <1>6, <1>11, <1>14, <2>1, <2>3, <3>1
    <3>3. t \in DOMAIN x.writes
      BY <1>12, <3>1, <3>2 DEF IsFinal
    <3> QED BY <1>12, <1>14, <2>1, <2>3, <3>1, <3>2, <3>3 DEF Ended, IsFinal
  <2> QED BY <2>2, <2>3
<1>23. Covered(y, rs)
  <2>1. SUFFICES ASSUME NEW q \in DOMAIN rs, Ended(y, rs, q), q \notin Range(y.work),
                        NEW v \in DOMAIN rs, q \in Parents(rs[v])
                 PROVE  v \in DOMAIN y.writes \/ (q = y.par /\ v \in y.todo)
    BY DEF Covered
  <2>2. v \in DOMAIN x.writes \/ (q = x.par /\ v \in x.todo)
    BY <1>22, <2>1, SMTT(60) DEF WalkOK, Covered
  <2> QED BY <1>12, <2>2
<1>24. WorkOK(y, rs)
  <2>1. \A q \in Range(y.work) : Ended(y, rs, q)
    <3>1. \A q \in Range(x.work) : Ended(y, rs, q)
      BY <1>21 DEF WalkOK, WorkOK
    <3>2. r.status = "blocked" /\ u.status = "canceled" => Ended(y, rs, t)
      BY <1>10, <1>12, SMTT(60) DEF Ended, IsFinal
    <3> QED BY <1>14, <3>1, <3>2
  <2>2. Ended(y, rs, p) /\ p \notin Range(y.work)
    <3>1. p = t => r.status = "canceled"
      BY <1>4, <1>6, <1>12 DEF IsFinal
    <3> QED BY <1>2, <1>14, <1>21, <3>1
  <2>3. \A v \in x.todo : p \in Parents(rs[v])
    BY <1>1 DEF WalkOK, WorkOK
  <2> QED BY <1>1, <1>14, <2>1, <2>2, <2>3, ZenonT(60) DEF WorkOK
<1>25. Accounted(y, rs)
  <2>1. PICK X \in SUBSET DOMAIN x.writes :
             /\ x.phase = "propagate" => \E q \in X : X = {q}
             /\ \A q \in X : Mover(x, rs, q)
             /\ \A q \in DOMAIN x.writes \ X : Follows(x, rs, q)
    BY DEF WalkOK, Accounted
  <2>2. \A q \in DOMAIN x.writes : y.writes[q].status = x.writes[q].status \/ (q = t /\ r.status = "blocked")
    BY <1>6, <1>8, <1>12
  <2>3. r.status = "blocked" => t \notin X
    BY <1>1, <1>2, <2>1, SeenStatus
  <2>4. \A q \in X : Mover(y, rs, q)
    BY <2>1, <2>2, <2>3, SMTT(60) DEF Mover
  <2>5. \A q \in DOMAIN x.writes : ParentBroke(x.writes[q].status) =>
           q \in DOMAIN y.writes /\ ParentBroke(y.writes[q].status)
    BY <1>12, <2>2, SMTT(60) DEF ParentBroke
  <2>6. \A q \in DOMAIN x.writes \ X : q # t => Follows(y, rs, q)
    BY <1>12, <2>1, <2>5 DEF Follows
  <2>7. t \notin X => Follows(y, rs, t)
    <3>1. CASE r.status = "canceled" /\ t \in DOMAIN x.writes
      <4>1. y.writes[t].status = x.writes[t].status
        BY <1>8, <1>12, <3>1, SMTT(60)
      <4> QED BY <2>1, <2>5, <3>1, <4>1 DEF Follows
    <3>2. CASE r.status = "canceled" /\ t \notin DOMAIN x.writes
      BY <1>8, <1>12, <3>2, SMTT(60) DEF Follows
    <3>3. CASE r.status = "blocked" /\ Satisfied(s, r.policy)
      <4>1. u.status \in {"pending", "blocked"}
        BY <1>11, <3>3, SMTT(60)
      <4> QED BY <1>10, <1>12, <3>3, <4>1 DEF Follows
    <3>4. CASE r.status = "blocked" /\ ~Satisfied(s, r.policy)
      <4>1. r.policy = "fail_fast" /\ ParentBroke(s) /\ p # t
        <5>1. r.policy \in Policies /\ (p = t => s = r.status)
          BY <1>4, <1>5, <1>12 DEF Row
        <5> QED BY <1>4, <3>4, <5>1 DEF Satisfied, Policies, ParentBroke, IsFinal
      <4>2. u.status = "canceled" /\ rs[t].policy = "fail_fast" /\ rs[t].status = "blocked"
        BY <1>5, <1>8, <1>10, <3>4, <4>1
      <4>3. p \in Parents(rs[t]) \cap DOMAIN y.writes /\ ParentBroke(y.writes[p].status)
        BY <1>2, <1>4, <1>12, <4>1
      <4> QED BY <1>12, <4>2, <4>3 DEF Follows
    <3> QED BY <1>6, <3>1, <3>2, <3>3, <3>4, SMTT(60)
  <2> QED BY <1>12, <2>1, <2>4, <2>6, <2>7 DEF Accounted
<1>26. y.phase = "reap0" => \A q \in y.list : Over(y.writes, rs)[q].status = "running"
  <2>1. x.phase = "reap0" => \A q \in x.list : V[q].status = "running" /\ q \in DOMAIN rs
    BY <1>1 DEF WalkOK, ClientOK
  <2>2. V[t].status # "running"
    BY <1>1, <1>6
  <2> QED BY <1>15, <2>1, <2>2
<1> QED BY <1>20, <1>23, <1>24, <1>25, <1>26 DEF WalkOK

\* A pass of ReapExpired ends a running task, or queues it again.
LEMMA HandleWalk ==
  ASSUME NEW x, NEW y, NEW rs, NEW t \in x.list, NEW r, NEW u,
         ClientOK(x, rs), TableOK(rs), GraphOK(rs), WalkOK(x, rs), x.work = <<>>, x.todo = {},
         x.phase # "propagate",
         r = Over(x.writes, rs)[t], r.status = "running", u.status \in {"pending", "failed", "canceled"},
         u.dependsOn = r.dependsOn, u.policy = r.policy,
         y.phase = x.phase, y.list = x.list \ {t}, y.par = x.par, y.todo = {},
         y.writes = With(x.writes, t, u),
         y.work = IF IsFinal(u.status) THEN <<t>> ELSE <<>>
  PROVE  WalkOK(y, rs)
<1>1. PICK V : V = Over(x.writes, rs)
  OBVIOUS
<1>2. /\ t \in DOMAIN rs /\ DOMAIN x.writes \subseteq DOMAIN rs
      /\ \A v \in DOMAIN rs : Parents(rs[v]) \subseteq DOMAIN rs
  BY DEF ClientOK, GraphOK
<1>3. \A q \in DOMAIN rs : V[q] = IF q \in DOMAIN x.writes THEN x.writes[q] ELSE rs[q]
  BY <1>1, <1>2 DEF Over
<1>4. rs[t].status = "running" /\ \A X \in SUBSET DOMAIN x.writes : (\A q \in X : Mover(x, rs, q)) => t \notin X
  BY <1>2, SeenStatus
<1>5. /\ Right(r, Undone(x, rs, t), V) /\ r.dependsOn = rs[t].dependsOn /\ r.policy = rs[t].policy
      /\ Parents(r) = Parents(rs[t]) /\ Parents(u) = Parents(rs[t])
  BY <1>1, <1>2, ViewRight DEF Parents
<1>6. Undone(x, rs, t) = {} /\ (r.policy = "fail_fast" => \A p \in Parents(rs[t]) : ~ParentBroke(V[p].status))
  BY <1>5 DEF Right
<1>7. /\ DOMAIN y.writes = DOMAIN x.writes \cup {t} /\ y.writes[t] = u
      /\ \A q \in DOMAIN x.writes : q # t => y.writes[q] = x.writes[q]
      /\ t \in DOMAIN x.writes => r = x.writes[t]
  BY <1>1, <1>2, <1>3 DEF With
<1>8. \A q \in DOMAIN rs : Over(y.writes, rs)[q] = IF q = t THEN u ELSE V[q]
  BY <1>3, <1>7 DEF Over
<1>9. /\ Range(x.work) = {} /\ Range(y.work) = IF IsFinal(u.status) THEN {t} ELSE {}
      /\ \A i, j \in DOMAIN y.work : y.work[i] = y.work[j] => i = j
  <2>1. CASE IsFinal(u.status)
    <3>1. y.work = <<t>>
      BY <2>1
    <3> QED BY <2>1, <3>1 DEF Range
  <2>2. CASE ~IsFinal(u.status)
    BY <2>2 DEF Range
  <2> QED BY <2>1, <2>2
<1>10. \A q, v : Done(y, q, v) <=> Done(x, q, v)
  <2>1. \A v : ~Done(x, t, v) /\ ~Done(y, t, v)
    BY <1>7, <1>9 DEF Done, IsFinal
  <2>2. \A q, v : q # t => (Done(y, q, v) <=> Done(x, q, v))
    BY <1>7, <1>9 DEF Done
  <2> QED BY <2>1, <2>2
<1>11. \A v \in DOMAIN rs : Undone(y, rs, v) = Undone(x, rs, v)
  BY <1>10 DEF Undone
<1>12. t \notin Parents(rs[t])
  <2>1. ~Done(x, t, t)
    BY <1>7 DEF Done, IsFinal
  <2> QED BY <1>4, <1>6, <2>1 DEF Undone, IsFinal
<1>13. WritesRight(y, rs)
  <2>1. ASSUME NEW v \in DOMAIN x.writes, v # t
        PROVE  /\ Right(y.writes[v], Undone(y, rs, v), Over(y.writes, rs))
               /\ y.writes[v].dependsOn = rs[v].dependsOn /\ y.writes[v].policy = rs[v].policy
               /\ IsFinal(rs[v].status) => y.writes[v].status = rs[v].status
    <3>1. /\ Right(x.writes[v], Undone(x, rs, v), V)
          /\ x.writes[v].dependsOn = rs[v].dependsOn /\ x.writes[v].policy = rs[v].policy
          /\ IsFinal(rs[v].status) => x.writes[v].status = rs[v].status
      BY <1>1 DEF WalkOK, WritesRight
    <3>2. v \in DOMAIN rs /\ Parents(rs[v]) \subseteq DOMAIN rs /\ Parents(x.writes[v]) = Parents(rs[v])
      BY <1>2, <3>1 DEF Parents
    <3>3. t \in Parents(rs[v]) => t \in Undone(x, rs, v)
      <4>1. ~Done(x, t, v)
        BY <1>7 DEF Done, IsFinal
      <4> QED BY <1>4, <4>1 DEF Undone, IsFinal
    <3>4. Right(x.writes[v], Undone(x, rs, v), Over(y.writes, rs))
      BY <1>8, <3>1, <3>2, <3>3 DEF Right
    <3> QED BY <1>7, <1>11, <2>1, <3>1, <3>2, <3>4
  <2>2. Right(u, {}, Over(y.writes, rs))
    <3>1. \A p \in Parents(rs[t]) : Over(y.writes, rs)[p] = V[p]
      BY <1>2, <1>8, <1>12
    <3> QED BY <1>5, <1>6, <3>1 DEF Right
  <2>3. ~IsFinal(rs[t].status) /\ u.dependsOn = rs[t].dependsOn /\ u.policy = rs[t].policy
    BY <1>4, <1>5 DEF IsFinal
  <2> QED BY <1>2, <1>6, <1>7, <1>11, <2>1, <2>2, <2>3 DEF WritesRight
<1>14. \A q : q # t => (Ended(y, rs, q) <=> Ended(x, rs, q))
  BY <1>7 DEF Ended
<1>15. IsFinal(u.status) <=> Ended(y, rs, t)
  BY <1>4, <1>7 DEF Ended, IsFinal
<1>16. Covered(y, rs)
  <2>1. SUFFICES ASSUME NEW q \in DOMAIN rs, Ended(y, rs, q), q \notin Range(y.work),
                        NEW v \in DOMAIN rs, q \in Parents(rs[v])
                 PROVE  v \in DOMAIN y.writes
    BY DEF Covered
  <2>2. Ended(x, rs, q) /\ q \notin Range(x.work)
    BY <1>9, <1>14, <1>15, <2>1
  <2> QED BY <1>7, <2>1, <2>2 DEF WalkOK, Covered
<1>17. WorkOK(y, rs)
  BY <1>9, <1>15 DEF WorkOK
<1>18. Accounted(y, rs)
  <2>1. PICK X \in SUBSET DOMAIN x.writes :
             /\ \A q \in X : Mover(x, rs, q)
             /\ \A q \in DOMAIN x.writes \ X : Follows(x, rs, q)
    BY DEF WalkOK, Accounted
  <2>2. t \notin X
    BY <1>4, <2>1
  <2>3. \A q \in X : Mover(y, rs, q)
    BY <1>7, <2>1, <2>2 DEF Mover
  <2>4. Mover(y, rs, t)
    <3>1. CanTransition("running", u.status)
      BY DEF CanTransition, legalTransitions, Statuses
    <3> QED BY <1>4, <1>7, <3>1 DEF Mover
  <2>5. \A q \in DOMAIN x.writes : ParentBroke(x.writes[q].status) =>
           q \in DOMAIN y.writes /\ ParentBroke(y.writes[q].status)
    BY <1>7 DEF ParentBroke
  <2>6. \A q \in DOMAIN x.writes \ X : q # t => Follows(y, rs, q)
    BY <1>7, <2>1, <2>5 DEF Follows
  <2>7. PICK Y : Y = X \cup {t}
    OBVIOUS
  <2>8. /\ Y \in SUBSET DOMAIN y.writes /\ \A q \in Y : Mover(y, rs, q)
        /\ \A q \in DOMAIN y.writes \ Y : Follows(y, rs, q)
    BY <1>7, <2>3, <2>4, <2>6, <2>7
  <2> QED BY <2>8 DEF Accounted
<1>19. y.phase = "reap0" => \A q \in y.list : Over(y.writes, rs)[q].status = "running"
  <2>1. x.phase = "reap0" => \A q \in x.list : V[q].status = "running" /\ q \in DOMAIN rs
    BY <1>1 DEF WalkOK, ClientOK
  <2> QED BY <1>8, <2>1
<1> QED BY <1>13, <1>16, <1>17, <1>18, <1>19 DEF WalkOK

\* A queue is its head and the rest.
LEMMA HeadTailRange ==
  ASSUME NEW S, NEW s \in Seq(S), s # <<>>, NEW h, h = Head(s), NEW r, r = Tail(s)
  PROVE  \A q : q \in Range(s) <=> q \in Range(r) \/ q = h
<1>1. /\ Len(s) \in Nat \ {0} /\ Len(r) = Len(s) - 1 /\ h = s[1]
      /\ DOMAIN s = 1..Len(s) /\ DOMAIN r = 1..Len(r)
      /\ \A i \in DOMAIN r : r[i] = s[i + 1] /\ i + 1 \in DOMAIN s /\ i + 1 # 1
  OBVIOUS
<1>2. \A i \in DOMAIN s : i = 1 \/ (i - 1 \in DOMAIN r /\ r[i - 1] = s[i])
  BY <1>1
<1>3. Range(s) \subseteq Range(r) \cup {h}
  <2>1. SUFFICES ASSUME NEW i \in DOMAIN s PROVE s[i] \in Range(r) \cup {h}
    BY DEF Range
  <2> QED BY <1>1, <1>2 DEF Range
<1>4. Range(r) \subseteq Range(s)
  <2>1. SUFFICES ASSUME NEW i \in DOMAIN r PROVE r[i] \in Range(s)
    BY DEF Range
  <2>2. PICK j \in DOMAIN s : r[i] = s[j]
    BY <1>1
  <2> QED BY <2>2 DEF Range
<1>5. h \in Range(s)
  BY <1>1 DEF Range
<1> QED BY <1>3, <1>4, <1>5

\* Nothing is in a queue twice.
Once(s) == \A i, j \in DOMAIN s : s[i] = s[j] => i = j

\* What is in a queue once is no more in the rest of it.
LEMMA TailOnce ==
  ASSUME NEW S, NEW s \in Seq(S), s # <<>>, NEW h, h = Head(s), NEW r, r = Tail(s), Once(s)
  PROVE  h \notin Range(r) /\ Once(r)
<1>1. /\ Len(s) \in Nat \ {0} /\ Len(r) = Len(s) - 1 /\ h = s[1]
      /\ DOMAIN s = 1..Len(s) /\ DOMAIN r = 1..Len(r)
      /\ \A i \in DOMAIN r : r[i] = s[i + 1] /\ i + 1 \in DOMAIN s /\ i + 1 # 1
  OBVIOUS
<1>2. \A i \in DOMAIN r : r[i] # h
  BY <1>1 DEF Once
<1>3. Once(r)
  BY <1>1 DEF Once
<1> QED BY <1>2, <1>3 DEF Range

\* The walk goes to the children of the next task that ended.
LEMMA NextWalk ==
  ASSUME NEW x, NEW y, NEW rs, NEW p, ClientOK(x, rs), WalkOK(x, rs), x.work # <<>>, x.todo = {},
         p = Head(x.work), y.phase = x.phase, y.list = x.list, y.par = p, y.work = Tail(x.work),
         y.todo = {t \in DOMAIN rs : p \in Parents(rs[t])}, y.writes = x.writes
  PROVE  WalkOK(y, rs)
<1>1. /\ Range(x.work) = Range(y.work) \cup {p} /\ p \notin Range(y.work)
      /\ \A i, j \in DOMAIN y.work : y.work[i] = y.work[j] => i = j
  <2>1. x.work \in Seq(Tasks) /\ \A i, j \in DOMAIN x.work : x.work[i] = x.work[j] => i = j
    BY DEF ClientOK, Tx, WalkOK, WorkOK
  <2>2. PICK w, rest : w = x.work /\ rest = Tail(w)
    OBVIOUS
  <2>3. w \in Seq(Tasks) /\ w # <<>> /\ p = Head(w) /\ Once(w)
    BY <2>1, <2>2 DEF Once
  <2>4. Range(w) = Range(rest) \cup {p} /\ p \notin Range(rest) /\ Once(rest)
    <3>1. rest = Tail(w)
      BY <2>2
    <3>2. \A q : q \in Range(w) <=> q \in Range(rest) \/ q = p
      BY <2>3, <3>1, HeadTailRange, Zenon
    <3>3. p \notin Range(rest) /\ Once(rest)
      BY <2>3, <3>1, TailOnce, Zenon
    <3> QED BY <3>2, <3>3
  <2> QED BY <2>2, <2>4 DEF Once
<1>2. Ended(x, rs, p) /\ \A q : Ended(y, rs, q) <=> Ended(x, rs, q)
  BY <1>1 DEF WalkOK, WorkOK, Ended
<1>3. \A t \in DOMAIN rs : \A q \in Parents(rs[t]) : Done(y, q, t) <=> Done(x, q, t)
  BY <1>1, <1>2 DEF Done, Ended
<1>4. DOMAIN x.writes \subseteq DOMAIN rs
  BY DEF ClientOK
<1>5. \A t \in DOMAIN rs : Undone(y, rs, t) = Undone(x, rs, t)
  BY <1>3 DEF Undone
<1>6. WritesRight(y, rs)
  BY <1>4, <1>5 DEF WalkOK, WritesRight
<1>7. Covered(y, rs)
  BY <1>1, <1>2 DEF WalkOK, Covered
<1>8. WorkOK(y, rs)
  BY <1>1, <1>2 DEF WalkOK, WorkOK
<1>9. Accounted(y, rs)
  <2>1. Accounted(x, rs)
    BY DEF WalkOK
  <2>2. \A t : (Mover(y, rs, t) <=> Mover(x, rs, t)) /\ (Follows(y, rs, t) <=> Follows(x, rs, t))
    BY DEF Mover, Follows
  <2> QED BY <2>1, <2>2 DEF Accounted
<1> QED BY <1>6, <1>7, <1>8, <1>9 DEF WalkOK

\* A transaction that goes on to another pass, or over its list.
LEMMA ListWalk ==
  ASSUME NEW x, NEW y, NEW rs, WalkOK(x, rs), x.phase # "propagate", y.phase # "propagate",
         y.writes = x.writes, y.work = x.work, y.todo = x.todo, y.par = x.par,
         y.phase = "reap0" => \A t \in y.list : Over(y.writes, rs)[t].status = "running"
  PROVE  WalkOK(y, rs)
<1>1. \A q, t : Done(y, q, t) <=> Done(x, q, t)
  BY DEF Done
<1>2. \A t : Undone(y, rs, t) = Undone(x, rs, t)
  BY <1>1 DEF Undone
<1>3. \A q : Ended(y, rs, q) <=> Ended(x, rs, q)
  BY DEF Ended
<1>4. WritesRight(y, rs)
  BY <1>2 DEF WalkOK, WritesRight
<1>5. Covered(y, rs) /\ WorkOK(y, rs)
  BY <1>3 DEF WalkOK, Covered, WorkOK
<1>6. Accounted(y, rs)
  <2>1. Accounted(x, rs)
    BY DEF WalkOK
  <2>2. \A t : (Mover(y, rs, t) <=> Mover(x, rs, t)) /\ (Follows(y, rs, t) <=> Follows(x, rs, t))
    BY DEF Mover, Follows
  <2> QED BY <2>1, <2>2 DEF Accounted
<1> QED BY <1>4, <1>5, <1>6 DEF WalkOK

\* The third pass writes a blocked row as it is.
LEMMA SameWalk ==
  ASSUME NEW x, NEW y, NEW rs, NEW t \in DOMAIN rs, NEW r,
         ClientOK(x, rs), TableOK(rs), GraphOK(rs), WalkOK(x, rs), x.phase = "repair",
         r = Over(x.writes, rs)[t], r.status = "blocked",
         y.phase = x.phase, y.par = x.par, y.todo = x.todo, y.work = x.work,
         y.writes = With(x.writes, t, r)
  PROVE  WalkOK(y, rs)
<1>1. /\ DOMAIN x.writes \subseteq DOMAIN rs /\ DOMAIN y.writes = DOMAIN x.writes \cup {t}
      /\ y.writes[t] = r /\ \A q \in DOMAIN x.writes : y.writes[q] = x.writes[q]
      /\ \A q \in DOMAIN rs : Over(y.writes, rs)[q] = Over(x.writes, rs)[q]
  BY DEF ClientOK, With, Over
<1>2. PICK V : V = Over(x.writes, rs)
  OBVIOUS
<1>3. \A v \in DOMAIN rs : /\ Right(V[v], Undone(x, rs, v), V)
                           /\ V[v].dependsOn = rs[v].dependsOn /\ V[v].policy = rs[v].policy
                           /\ IsFinal(rs[v].status) => V[v].status = rs[v].status
  BY <1>2, ViewRight
<1>4. \A q, v : Done(y, q, v) <=> Done(x, q, v)
  BY <1>1 DEF Done, IsFinal
<1>5. \A v : Undone(y, rs, v) = Undone(x, rs, v)
  BY <1>4 DEF Undone
<1>6. \A q : Ended(y, rs, q) <=> Ended(x, rs, q)
  BY <1>1 DEF Ended, IsFinal
<1>7. WritesRight(y, rs)
  <2>1. SUFFICES ASSUME NEW v \in DOMAIN y.writes
                 PROVE  /\ Right(y.writes[v], Undone(x, rs, v), Over(y.writes, rs))
                        /\ y.writes[v].dependsOn = rs[v].dependsOn /\ y.writes[v].policy = rs[v].policy
                        /\ IsFinal(rs[v].status) => y.writes[v].status = rs[v].status
    BY <1>5 DEF WritesRight
  <2>2. v \in DOMAIN rs /\ y.writes[v] = V[v]
    BY <1>1, <1>2, <2>1 DEF Over
  <2>3. Right(V[v], Undone(x, rs, v), Over(y.writes, rs))
    <3>1. Parents(V[v]) \subseteq DOMAIN rs
      BY <1>3, <2>2 DEF GraphOK, Parents
    <3>2. \A p \in Parents(V[v]) : Over(y.writes, rs)[p] = V[p]
      BY <1>1, <1>2, <3>1
    <3> QED BY <1>3, <2>2, <3>2 DEF Right
  <2> QED BY <1>3, <2>2, <2>3
<1>8. Covered(y, rs) /\ WorkOK(y, rs)
  BY <1>1, <1>6 DEF WalkOK, Covered, WorkOK
<1>9. Accounted(y, rs)
  <2>1. PICK X \in SUBSET DOMAIN x.writes :
             /\ \A q \in X : Mover(x, rs, q)
             /\ \A q \in DOMAIN x.writes \ X : Follows(x, rs, q)
    BY DEF WalkOK, Accounted
  <2>2. \A q \in X : Mover(y, rs, q)
    BY <1>1, <2>1 DEF Mover
  <2>3. \A q \in DOMAIN x.writes \ X : Follows(y, rs, q)
    BY <1>1, <2>1 DEF Follows
  <2>4. Follows(y, rs, t)
    <3>1. rs[t].status = "blocked"
      BY SeenStatus
    <3> QED BY <1>1, <3>1 DEF Follows
  <2>5. X \in SUBSET DOMAIN y.writes /\ \A q \in DOMAIN y.writes \ X : Follows(y, rs, q)
    BY <1>1, <2>3, <2>4
  <2> QED BY <2>2, <2>5 DEF Accounted
<1> QED BY <1>7, <1>8, <1>9 DEF WalkOK

\* The third pass finds every blocked task as it must be.
LEMMA RepairNoOp ==
  ASSUME NEW x, NEW rs, NEW t \in DOMAIN rs, NEW r, NEW dec,
         ClientOK(x, rs), TableOK(rs), GraphOK(rs), WalkOK(x, rs), x.work = <<>>, x.todo = {},
         r = Over(x.writes, rs)[t], r.status = "blocked",
         dec = DecideOnSubmit(ParentStates(Over(x.writes, rs), r.dependsOn), r.policy)
  PROVE  dec.status = "blocked" /\ dec.pendingParents = r.pendingParents
<1>1. PICK V, ps : V = Over(x.writes, rs) /\ ps = ParentStates(V, r.dependsOn)
  OBVIOUS
<1>2. /\ Right(r, Undone(x, rs, t), V) /\ Parents(r) = Parents(rs[t])
  BY <1>1, ViewRight DEF Parents
<1>3. Undone(x, rs, t) = {p \in Parents(r) : ~IsFinal(V[p].status)}
  BY <1>1, <1>2, NothingLeft, SMTT(60)
<1>4. /\ DOMAIN ps = DOMAIN r.dependsOn
      /\ \A i \in DOMAIN ps : ps[i].id = r.dependsOn[i] /\ ps[i].status = V[r.dependsOn[i]].status
  BY <1>1, ZenonT(60) DEF ParentStates
<1>5. NotFinal(ps) = Undone(x, rs, t)
  BY <1>3, <1>4 DEF NotFinal, Parents, Range
<1>6. r.policy = "fail_fast" => \A i \in DOMAIN ps : ~ParentBroke(ps[i].status)
  <2>1. r.policy = "fail_fast" => \A p \in Parents(r) : ~ParentBroke(V[p].status)
    BY <1>2, <1>3 DEF Right, ParentBroke, IsFinal
  <2> QED BY <1>4, <2>1 DEF Parents, Range
<1>7. dec = [status |-> "blocked", pendingParents |-> Cardinality(Undone(x, rs, t))]
  BY <1>1, <1>2, <1>5, <1>6 DEF DecideOnSubmit, PendingCount, Right
<1> QED BY <1>2, <1>7 DEF Right

-------------------------------------------------------------------------------
(* The steps of transactions under way, at READ COMMITTED.                 *)

\* A step of one transaction: nothing is committed.
LEMMA GraphStep ==
  ASSUME SqlInv, GraphInv, NEW c \in Clients, NEW y, tx' = [tx EXCEPT ![c] = y],
         GraphTx(y, rows), rows' = rows
  PROVE  GraphInv'
<1>1. tx'[c] = y /\ \A d \in Clients : d # c => tx'[d] = tx[d]
  BY DEF SqlInv
<1>2. \A d \in Clients : GraphTx(tx'[d], rows)
  BY <1>1 DEF GraphInv
<1> QED BY <1>2 DEF GraphInv

\* Which fields an UPDATE under FOR UPDATE leaves alone.
LEMMA WritingFields ==
  ASSUME NEW x \in Tx, NEW t, NEW r
  PROVE  /\ Writing(x, t, r).par = x.par /\ Writing(x, t, r).seen = x.seen
         /\ Writing(x, t, r).phase = x.phase /\ Writing(x, t, r).deps = x.deps
         /\ Writing(x, t, r).todo = x.todo /\ Writing(x, t, r).work = x.work
         /\ Writing(x, t, r).list = x.list
         /\ Writing(x, t, r).writes = With(x.writes, t, r)
<1>1. PICK z : z = Locking(x, t)
  OBVIOUS
<1>2. /\ z.par = x.par /\ z.seen = x.seen /\ z.phase = x.phase /\ z.deps = x.deps /\ z.todo = x.todo
      /\ z.work = x.work /\ z.list = x.list /\ z.writes = x.writes /\ "writes" \in DOMAIN z
  BY <1>1 DEF Locking, Tx
<1>3. PICK w : w = With(x.writes, t, r)
  OBVIOUS
<1>4. Writing(x, t, r) = [z EXCEPT !.writes = w]
  BY <1>1, <1>2, <1>3 DEF Writing
<1>5. PICK y : y = [z EXCEPT !.writes = w]
  OBVIOUS
<1>6. /\ y.par = z.par /\ y.seen = z.seen /\ y.phase = z.phase /\ y.deps = z.deps /\ y.todo = z.todo
      /\ y.work = z.work /\ y.list = z.list /\ y.writes = w
  BY <1>2, <1>5
<1> QED BY <1>2, <1>3, <1>4, <1>5, <1>6

\* Enqueue reads the state of the next parent under its lock.
LEMMA LockParentGraph ==
  ASSUME SqlInv, GraphInv, NEW c \in Clients, LockParent(c)
  PROVE  GraphInv'
<1>1. PICK x, rs : x = tx[c] /\ rs = rows
  OBVIOUS
<1>2. ClientOK(x, rs) /\ x \in Tx /\ x.work \in Seq(DOMAIN rs) /\ x.phase = "parents" /\ x.work # <<>>
      /\ GraphTx(x, rs) /\ ReadOK(x, rs)
  BY <1>1 DEF SqlInv, ClientOK, LockParent, GraphInv, GraphTx
<1>3. PICK p, rest : p = Head(x.work) /\ rest = Tail(x.work)
  OBVIOUS
<1>4. PICK st : st = [id |-> p, status |-> rs[p].status]
  OBVIOUS
<1>5. PICK read : read = Append(x.read, st)
  OBVIOUS
<1>6. PICK y : y = [Locking(x, p) EXCEPT !.work = rest, !.read = read]
  OBVIOUS
<1>7. /\ y.phase = x.phase /\ y.locked = x.locked \cup {p} /\ y.work = rest /\ y.read = read
      /\ y.writes = x.writes /\ y.deps = x.deps /\ y.todo = x.todo /\ y.seen = x.seen
  BY <1>2, <1>6 DEF Tx, Locking
<1>8. tx' = [tx EXCEPT ![c] = y] /\ rows' = rows
  <2>1. PICK z : z = Locking(x, p)
    OBVIOUS
  <2>2. z.work = x.work /\ z.read = x.read
    BY <1>2, <2>1 DEF Locking, Tx
  <2>3. ParentState(c) = st /\ Head(tx[c].work) = p
    BY <1>1, <1>3, <1>4 DEF ParentState
  <2>4. tx' = [tx EXCEPT ![c] = [Locking(tx[c], Head(tx[c].work)) EXCEPT
                                   !.work = Tail(@), !.read = Append(@, ParentState(c))]]
    BY DEF LockParent
  <2>5. tx' = [tx EXCEPT ![c] = [z EXCEPT !.work = rest, !.read = read]]
    BY <1>1, <1>3, <1>5, <2>1, <2>2, <2>3, <2>4
  <2> QED BY <1>6, <2>1, <2>5 DEF LockParent
<1>9. \A q : q \in Range(x.work) <=> q \in Range(rest) \/ q = p
  <2>1. PICK w, S : w = x.work /\ S = DOMAIN rs
    OBVIOUS
  <2>2. w \in Seq(S) /\ w # <<>> /\ p = Head(w) /\ rest = Tail(w)
    BY <1>2, <1>3, <2>1
  <2> QED BY <2>1, <2>2, HeadTailRange, Zenon
<1>10. /\ DOMAIN x.read \subseteq DOMAIN read /\ \A i \in DOMAIN x.read : read[i] = x.read[i]
       /\ \E n \in DOMAIN read : read[n] = st /\ \A i \in DOMAIN read : i = n \/ i \in DOMAIN x.read
  <2>1. PICK S : S = [id : Tasks, status : Statuses]
    OBVIOUS
  <2>2. x.read \in Seq(S)
    BY <1>2, <2>1 DEF Tx
  <2>3. /\ Len(x.read) \in Nat /\ DOMAIN x.read = 1..Len(x.read) /\ DOMAIN read = 1..(Len(x.read) + 1)
        /\ \A i \in DOMAIN x.read : read[i] = x.read[i] /\ read[Len(x.read) + 1] = st
    BY <1>5, <2>2
  <2>4. read[Len(x.read) + 1] = st
    BY <1>5, <2>2
  <2>5. PICK n \in DOMAIN read : n = Len(x.read) + 1
    BY <2>3
  <2>6. \A i \in DOMAIN read : i = n \/ i \in DOMAIN x.read
    BY <2>3, <2>5
  <2> QED BY <2>3, <2>4, <2>5, <2>6
<1>11. p \in Range(x.deps)
  BY <1>2, <1>9 DEF ReadOK
<1>12. ReadOK(y, rs)
  <2>1. \A i \in DOMAIN read : read[i] = st \/ (i \in DOMAIN x.read /\ read[i] = x.read[i])
    BY <1>10
  <2>2. \A i \in DOMAIN y.read : /\ y.read[i].id \in y.locked \cap Range(y.deps)
                                 /\ y.read[i].status = rs[y.read[i].id].status
    BY <1>2, <1>4, <1>7, <1>11, <2>1 DEF ReadOK
  <2>3. \A q \in Range(y.deps) : q \in Range(y.work) \/ \E i \in DOMAIN y.read : y.read[i].id = q
    <3>1. SUFFICES ASSUME NEW q \in Range(x.deps), q \notin Range(rest)
                   PROVE  \E i \in DOMAIN read : read[i].id = q
      BY <1>7
    <3>2. CASE q = p
      BY <1>4, <1>10, <3>2
    <3>3. CASE q # p
      <4>1. PICK i \in DOMAIN x.read : x.read[i].id = q
        BY <1>2, <1>9, <3>1, <3>3 DEF ReadOK
      <4> QED BY <1>10, <4>1
    <3> QED BY <3>2, <3>3
  <2> QED BY <1>2, <1>7, <1>9, <2>2, <2>3 DEF ReadOK
<1>13. GraphTx(y, rows)
  BY <1>1, <1>2, <1>7, <1>12 DEF GraphTx, Submitting
<1> QED BY <1>8, <1>13, GraphStep

\* Replay locks the execution it found, and looks for an earlier replay of it.
LEMMA ReplayGraph ==
  ASSUME SqlInv, GraphInv, isolation = "RC", NEW c \in Clients, LockTarget(c) \/ CheckReplayed(c)
  PROVE  GraphInv'
<1>1. PICK x : x = tx[c]
  OBVIOUS
<1>2. x \in Tx /\ GraphTx(x, rows) /\ x.phase \in {"lock", "check"}
  BY <1>1 DEF SqlInv, GraphInv, LockTarget, CheckReplayed
<1>3. /\ ~x.seen /\ x.deps = <<>> /\ DOMAIN x.writes = {} /\ x.todo = {}
  BY <1>2 DEF GraphTx, Submitting
<1>4. \E y : /\ tx' = [tx EXCEPT ![c] = y] /\ y.phase \in {"check", "insert"}
             /\ ~y.seen /\ y.deps = <<>> /\ DOMAIN y.writes = {} /\ y.todo = {}
  <2>1. CASE LockTarget(c)
    <3>1. PICK y : y = [Locking(x, x.target) EXCEPT !.phase = "check"]
      OBVIOUS
    <3>2. /\ y.phase = "check" /\ y.seen = x.seen /\ y.deps = x.deps /\ y.writes = x.writes /\ y.todo = x.todo
      BY <1>2, <3>1 DEF Locking, Tx
    <3>3. tx' = [tx EXCEPT ![c] = y]
      BY <1>1, <2>1, <3>1 DEF LockTarget
    <3> QED BY <1>3, <3>2, <3>3
  <2>2. CASE CheckReplayed(c)
    <3>1. PICK y : y = [x EXCEPT !.phase = "insert"]
      OBVIOUS
    <3>2. /\ y.phase = "insert" /\ y.seen = x.seen /\ y.deps = x.deps /\ y.writes = x.writes /\ y.todo = x.todo
      BY <1>2, <3>1 DEF Tx
    <3>3. AfterRead(tx[c]) = x
      BY <1>1 DEF AfterRead
    <3>4. tx' = [tx EXCEPT ![c] = [AfterRead(tx[c]) EXCEPT !.phase = "insert"]]
      BY <2>2 DEF CheckReplayed
    <3>5. tx' = [tx EXCEPT ![c] = y]
      BY <3>1, <3>3, <3>4
    <3> QED BY <1>3, <3>2, <3>5
  <2> QED BY <2>1, <2>2
<1>5. PICK y : /\ tx' = [tx EXCEPT ![c] = y] /\ y.phase \in {"check", "insert"}
               /\ ~y.seen /\ y.deps = <<>> /\ DOMAIN y.writes = {} /\ y.todo = {}
  BY <1>4
<1>6. GraphTx(y, rows)
  BY <1>5 DEF GraphTx, Submitting
<1>7. rows' = rows
  BY DEF LockTarget, CheckReplayed
<1> QED BY <1>5, <1>6, <1>7, GraphStep

\* The transaction of a client that is not submitting.
LEMMA WalkingTx ==
  ASSUME SqlInv, GraphInv, NEW c \in Clients, tx[c].phase \notin Submitting,
         NEW x, x = tx[c], NEW rs, rs = rows
  PROVE  /\ ClientOK(x, rs) /\ x \in Tx /\ TableOK(rs) /\ GraphOK(rs) /\ WalkOK(x, rs) /\ ~x.seen
         /\ x.phase \notin Submitting
BY DEF SqlInv, GraphInv, GraphTx, ClientOK

\* childrenOf the next task that became final.
LEMMA NextParentGraph ==
  ASSUME SqlInv, GraphInv, isolation = "RC", NEW c \in Clients, NextParent(c)
  PROVE  GraphInv'
<1>1. PICK x, rs : x = tx[c] /\ rs = rows
  OBVIOUS
<1>2. tx[c].phase \notin Submitting /\ x.todo = {} /\ x.work # <<>>
  BY <1>1 DEF NextParent, Submitting
<1>3. ClientOK(x, rs) /\ x \in Tx /\ WalkOK(x, rs) /\ ~x.seen /\ x.phase \notin Submitting
  BY <1>1, <1>2, WalkingTx
<1>4. PICK p, rest, T : p = Head(x.work) /\ rest = Tail(x.work) /\ T = {t \in DOMAIN rs : p \in Parents(rs[t])}
  OBVIOUS
<1>5. PICK y : y = [x EXCEPT !.work = rest, !.par = p, !.todo = T]
  OBVIOUS
<1>6. /\ y.phase = x.phase /\ y.list = x.list /\ y.par = p /\ y.work = rest /\ y.todo = T
      /\ y.writes = x.writes /\ y.seen = x.seen
  BY <1>3, <1>5 DEF Tx
<1>7. WalkOK(y, rs)
  BY <1>2, <1>3, <1>4, <1>6, NextWalk
<1>8. tx' = [tx EXCEPT ![c] = y] /\ rows' = rows
  <2>1. tx' = [tx EXCEPT ![c] = [AfterRead(tx[c]) EXCEPT
                  !.work = Tail(@), !.par = Head(tx[c].work),
                  !.todo = {t \in DOMAIN rows : Head(tx[c].work) \in Parents(rows[t])}]]
    BY DEF NextParent
  <2>2. AfterRead(tx[c]) = x
    BY <1>1 DEF AfterRead
  <2> QED BY <1>1, <1>4, <1>5, <2>1, <2>2 DEF NextParent
<1>9. GraphTx(y, rows)
  BY <1>1, <1>3, <1>6, <1>7 DEF GraphTx, Submitting
<1> QED BY <1>8, <1>9, GraphStep

\* propagateTx locks a child, reads it and settles it.
LEMMA VisitChildGraph ==
  ASSUME SqlInv, GraphInv, NEW c \in Clients, VisitChild(c)
  PROVE  GraphInv'
<1>1. PICK x, rs : x = tx[c] /\ rs = rows
  OBVIOUS
<1>2. x.todo # {} /\ tx[c].phase \notin Submitting
  BY <1>1 DEF VisitChild, GraphInv, GraphTx
<1>3. /\ ClientOK(x, rs) /\ x \in Tx /\ TableOK(rs) /\ GraphOK(rs) /\ WalkOK(x, rs) /\ ~x.seen
      /\ x.phase \notin Submitting
  BY <1>1, <1>2, WalkingTx
<1>4. PICK t : t = Least(x.todo)
  OBVIOUS
<1>5. t \in x.todo
  BY <1>2, <1>3, <1>4, LeastIn DEF Tx
<1>6. PICK r, s : r = Current(c)[t] /\ s = Current(c)[x.par].status
  OBVIOUS
<1>7. r = Over(x.writes, rs)[t] /\ s = Over(x.writes, rs)[x.par].status
  BY <1>1, <1>6 DEF Current
<1>8. PICK u : u = Settled(s, r)
  OBVIOUS
<1>9. PICK W : W = IF IsFinal(u.status) /\ ~IsFinal(r.status) THEN Append(x.work, t) ELSE x.work
  OBVIOUS
<1>10. PICK z : z = Writing(x, t, u)
  OBVIOUS
<1>11. /\ z.par = x.par /\ z.seen = x.seen /\ z.phase = x.phase /\ z.todo = x.todo /\ z.work = x.work
       /\ z.list = x.list /\ z.writes = With(x.writes, t, u)
  BY <1>3, <1>10, WritingFields
<1>12. "todo" \in DOMAIN z /\ "work" \in DOMAIN z
  BY <1>3, <1>10 DEF Writing, Locking, Tx
<1>13. PICK T : T = x.todo \ {t}
  OBVIOUS
<1>14. PICK y : y = [z EXCEPT !.todo = T, !.work = W]
  OBVIOUS
<1>15. /\ y.phase = x.phase /\ y.list = x.list /\ y.par = x.par /\ y.todo = T /\ y.work = W
       /\ y.writes = With(x.writes, t, u) /\ y.seen = x.seen
  BY <1>11, <1>12, <1>14
<1>16. WalkOK(y, rs)
  BY <1>3, <1>5, <1>7, <1>8, <1>9, <1>13, <1>15, VisitWalk
<1>17. tx' = [tx EXCEPT ![c] = y] /\ rows' = rows
  <2>1. tx' = [tx EXCEPT ![c] = [z EXCEPT
                     !.todo = @ \ {t},
                     !.work = IF IsFinal(u.status) /\ ~IsFinal(r.status) THEN Append(@, t) ELSE @]]
    BY <1>1, <1>4, <1>6, <1>8, <1>10, Zenon DEF VisitChild
  <2> QED BY <1>9, <1>11, <1>13, <1>14, <2>1 DEF VisitChild
<1>18. GraphTx(y, rows)
  BY <1>1, <1>3, <1>15, <1>16 DEF GraphTx, Submitting
<1> QED BY <1>17, <1>18, GraphStep

\* A row of a pass of ReapExpired is written.
LEMMA HandledTx ==
  ASSUME NEW x \in Tx, NEW t, NEW r, x.work = <<>>, x.todo = {}, NEW y, y = Handled(x, t, r)
  PROVE  /\ y.phase = x.phase /\ y.list = x.list \ {t} /\ y.par = x.par /\ y.todo = {}
         /\ y.writes = With(x.writes, t, r) /\ y.seen = x.seen
         /\ y.work = IF IsFinal(r.status) THEN <<t>> ELSE <<>>
<1>1. PICK z : z = Writing(x, t, r)
  OBVIOUS
<1>2. /\ z.par = x.par /\ z.seen = x.seen /\ z.phase = x.phase /\ z.todo = x.todo /\ z.work = x.work
      /\ z.list = x.list /\ z.writes = With(x.writes, t, r)
  BY <1>1, WritingFields
<1>3. "list" \in DOMAIN z /\ "work" \in DOMAIN z
  BY <1>1 DEF Writing, Locking, Tx
<1>4. PICK W, L : L = x.list \ {t} /\ W = IF IsFinal(r.status) THEN <<t>> ELSE <<>>
  OBVIOUS
<1>5. y = [z EXCEPT !.list = L, !.work = W]
  BY <1>1, <1>2, <1>4 DEF Handled
<1> QED BY <1>2, <1>3, <1>4, <1>5

\* Passes 0 and 1.
LEMMA HandledGraph ==
  ASSUME NEW x, NEW rs, ClientOK(x, rs), TableOK(rs), GraphOK(rs), WalkOK(x, rs), ~x.seen,
         x.phase \in {"reap0", "reap1"}, x.work = <<>>, x.todo = {},
         NEW t \in x.list, NEW r, r = Over(x.writes, rs)[t], r.status = "running",
         NEW u, u.status \in {"pending", "failed", "canceled"}, u.dependsOn = r.dependsOn, u.policy = r.policy,
         NEW y, y = Handled(x, t, u)
  PROVE  GraphTx(y, rs)
<1>1. x \in Tx /\ x.phase # "propagate" /\ x.phase \notin Submitting
  BY DEF ClientOK, Submitting
<1>2. /\ y.phase = x.phase /\ y.list = x.list \ {t} /\ y.par = x.par /\ y.todo = {}
      /\ y.writes = With(x.writes, t, u) /\ y.seen = x.seen
      /\ y.work = IF IsFinal(u.status) THEN <<t>> ELSE <<>>
  BY <1>1, HandledTx
<1>3. WalkOK(y, rs)
  <2>1. /\ ClientOK(x, rs) /\ TableOK(rs) /\ GraphOK(rs) /\ WalkOK(x, rs) /\ x.work = <<>> /\ x.todo = {}
        /\ t \in x.list /\ r = Over(x.writes, rs)[t] /\ r.status = "running"
        /\ u.status \in {"pending", "failed", "canceled"} /\ u.dependsOn = r.dependsOn /\ u.policy = r.policy
    OBVIOUS
  <2> QED BY <1>1, <1>2, <2>1, HandleWalk, ZenonT(60)
<1> QED BY <1>1, <1>2, <1>3 DEF GraphTx, Submitting

\* What ends or requeues a task leaves its parents and its policy alone.
LEMMA FinishedGraph ==
  ASSUME NEW r \in Row, NEW s \in Statuses
  PROVE  /\ Finished(r, s).dependsOn = r.dependsOn /\ Finished(r, s).policy = r.policy
         /\ [ClearLease(r) EXCEPT !.status = s].dependsOn = r.dependsOn
         /\ [ClearLease(r) EXCEPT !.status = s].policy = r.policy
         /\ Lost(r).dependsOn = r.dependsOn /\ Lost(r).policy = r.policy
         /\ Lost(r).status \in {"failed", "pending"}
<1>1. /\ Finished(r, s).dependsOn = r.dependsOn /\ Finished(r, s).policy = r.policy
      /\ [ClearLease(r) EXCEPT !.status = s].dependsOn = r.dependsOn
      /\ [ClearLease(r) EXCEPT !.status = s].policy = r.policy
  BY DEF Finished, ClearLease, Row
<1>2. /\ Lost(r).dependsOn = r.dependsOn /\ Lost(r).policy = r.policy
      /\ Lost(r).status \in {"failed", "pending"}
  <2>1. PICK q \in {"failed", "pending"} : q = IF r.leaseLost + 1 >= LeaseLostMax THEN "failed" ELSE "pending"
    OBVIOUS
  <2>2. PICK f : f = Finished(r, q)
    OBVIOUS
  <2>3. f \in Row /\ f.status = q /\ f.dependsOn = r.dependsOn /\ f.policy = r.policy
    BY <2>2, FinishedRow, ZenonT(60) DEF Finished, ClearLease, Row, Statuses
  <2>4. PICK n : n = f.leaseLost + 1
    OBVIOUS
  <2>5. PICK l : l = [f EXCEPT !.leaseLost = n]
    OBVIOUS
  <2>6. l.status = f.status /\ l.dependsOn = f.dependsOn /\ l.policy = f.policy
    BY <2>3, <2>5 DEF Row
  <2>7. Lost(r) = l
    BY <2>1, <2>2, <2>4, <2>5 DEF Lost
  <2> QED BY <2>1, <2>3, <2>6, <2>7
<1> QED BY <1>1, <1>2

\* Passes 0 and 1 of ReapExpired.
LEMMA ReapGraph ==
  ASSUME SqlInv, GraphInv, NEW c \in Clients, ReapFlagged(c) \/ ReapLost(c)
  PROVE  GraphInv'
<1>1. PICK x, rs : x = tx[c] /\ rs = rows
  OBVIOUS
<1>2. /\ tx[c].phase \in {"reap0", "reap1"} /\ Propagated(tx[c]) /\ x.list # {}
      /\ tx[c].phase \notin Submitting
  BY <1>1 DEF ReapFlagged, ReapLost, Handling, Submitting
<1>3. ClientOK(x, rs) /\ x \in Tx /\ TableOK(rs) /\ GraphOK(rs) /\ WalkOK(x, rs) /\ ~x.seen
  BY <1>1, <1>2, WalkingTx
<1>4. PICK t : t = Least(x.list)
  OBVIOUS
<1>5. t \in x.list /\ t \in DOMAIN rs
  <2>1. x.list \in SUBSET Tasks
    BY <1>3 DEF Tx
  <2>2. t \in x.list
    BY <1>2, <1>4, <2>1, LeastIn
  <2> QED BY <1>3, <2>2 DEF ClientOK
<1>6. PICK r : r = Current(c)[t]
  OBVIOUS
<1>7. r \in Row /\ r.status = "running" /\ r = Over(x.writes, rs)[t]
  <2>1. r = Over(x.writes, rs)[t]
    BY <1>1, <1>6 DEF Current
  <2> QED BY <1>1, <1>2, <1>3, <1>5, <2>1, CurrentRow, ZenonT(60) DEF WalkOK, ClientOK
<1>8. \E u : /\ u.status \in {"pending", "failed", "canceled"} /\ u.dependsOn = r.dependsOn
             /\ u.policy = r.policy /\ tx' = [tx EXCEPT ![c] = Handled(tx[c], t, u)]
  <2>1. CASE ReapFlagged(c)
    <3>1. PICK u : u = Finished(r, "canceled")
      OBVIOUS
    <3>2. u.status = "canceled" /\ u.dependsOn = r.dependsOn /\ u.policy = r.policy
      BY <1>7, <3>1, FinishedRow, FinishedGraph DEF Statuses
    <3>3. tx' = [tx EXCEPT ![c] = Handled(tx[c], t, u)]
      BY <1>1, <1>4, <1>6, <2>1, <3>1, Zenon DEF ReapFlagged
    <3> QED BY <3>2, <3>3
  <2>2. CASE ReapLost(c)
    <3>1. PICK u : u = Lost(r)
      OBVIOUS
    <3>2. u.status \in {"failed", "pending"} /\ u.dependsOn = r.dependsOn /\ u.policy = r.policy
      BY <1>7, <3>1, FinishedGraph DEF Statuses
    <3>3. tx' = [tx EXCEPT ![c] = Handled(tx[c], t, u)]
      BY <1>1, <1>4, <1>6, <2>2, <3>1, Zenon DEF ReapLost
    <3> QED BY <3>2, <3>3
  <2> QED BY <2>1, <2>2
<1>9. PICK u : /\ u.status \in {"pending", "failed", "canceled"} /\ u.dependsOn = r.dependsOn
               /\ u.policy = r.policy /\ tx' = [tx EXCEPT ![c] = Handled(tx[c], t, u)]
  BY <1>8
<1>10. rows' = rows
  BY DEF ReapFlagged, ReapLost
<1>11. PICK y : y = Handled(x, t, u)
  OBVIOUS
<1>12. tx' = [tx EXCEPT ![c] = y]
  BY <1>1, <1>9, <1>11
<1>13. u.status \in {"pending", "failed", "canceled"} /\ u.dependsOn = r.dependsOn /\ u.policy = r.policy
  BY <1>9
<1>14. x.phase \in {"reap0", "reap1"} /\ x.work = <<>> /\ x.todo = {}
  BY <1>1, <1>2 DEF Propagated
<1>15. GraphTx(y, rs)
  BY <1>3, <1>5, <1>7, <1>11, <1>13, <1>14, HandledGraph
<1>16. GraphTx(y, rows)
  BY <1>1, <1>15
<1> QED BY <1>10, <1>12, <1>16, GraphStep

\* The second scan, and listBlockedIDs.
LEMMA ScanGraph ==
  ASSUME SqlInv, GraphInv, isolation = "RC", NEW c \in Clients, ScanExpired(c) \/ ScanBlocked(c)
  PROVE  GraphInv'
<1>1. PICK x, rs : x = tx[c] /\ rs = rows
  OBVIOUS
<1>2. tx[c].phase \in {"reap0", "reap1"} /\ tx[c].phase \notin Submitting
  BY DEF ScanExpired, ScanBlocked, PassDone, Submitting
<1>3. x \in Tx /\ WalkOK(x, rs) /\ ~x.seen
  BY <1>1, <1>2, WalkingTx
<1>4. \E y : /\ tx' = [tx EXCEPT ![c] = y] /\ y.phase \in {"reap1", "repair"} /\ y.writes = x.writes
             /\ y.work = x.work /\ y.todo = x.todo /\ y.par = x.par /\ y.seen = x.seen
  <2>1. CASE ScanExpired(c)
    <3>1. PICK E, L : E = Expired(c, x.due) /\ L = x.locked \cup E
      OBVIOUS
    <3>2. PICK y : y = [x EXCEPT !.phase = "reap1", !.list = E, !.locked = L]
      OBVIOUS
    <3>3. /\ y.phase = "reap1" /\ y.writes = x.writes
          /\ y.work = x.work /\ y.todo = x.todo /\ y.par = x.par /\ y.seen = x.seen
      BY <1>3, <3>2 DEF Tx
    <3>4. tx' = [tx EXCEPT ![c] = y]
      BY <1>1, <2>1, <3>1, <3>2 DEF ScanExpired
    <3> QED BY <3>3, <3>4
  <2>2. CASE ScanBlocked(c)
    <3>1. PICK B : B = {t \in DOMAIN ReadView(c) : ReadView(c)[t].status = "blocked"}
      OBVIOUS
    <3>2. PICK y : y = [x EXCEPT !.phase = "repair", !.list = B]
      OBVIOUS
    <3>3. /\ y.phase = "repair" /\ y.writes = x.writes
          /\ y.work = x.work /\ y.todo = x.todo /\ y.par = x.par /\ y.seen = x.seen
      BY <1>3, <3>2 DEF Tx
    <3>4. AfterRead(tx[c]) = x
      BY <1>1 DEF AfterRead
    <3>5. tx' = [tx EXCEPT ![c] = y]
      BY <2>2, <3>1, <3>2, <3>4, Zenon DEF ScanBlocked
    <3> QED BY <3>3, <3>5
  <2> QED BY <2>1, <2>2
<1>5. PICK y : /\ tx' = [tx EXCEPT ![c] = y] /\ y.phase \in {"reap1", "repair"} /\ y.writes = x.writes
               /\ y.work = x.work /\ y.todo = x.todo /\ y.par = x.par /\ y.seen = x.seen
  BY <1>4
<1>6. WalkOK(y, rs)
  BY <1>1, <1>2, <1>3, <1>5, ListWalk
<1>7. GraphTx(y, rows)
  BY <1>1, <1>3, <1>5, <1>6 DEF GraphTx, Submitting
<1>8. rows' = rows
  BY DEF ScanExpired, ScanBlocked
<1> QED BY <1>5, <1>7, <1>8, GraphStep

\* Pass 2: no blocked task needs a repair.
LEMMA RepairGraph ==
  ASSUME SqlInv, GraphInv, NEW c \in Clients, RepairBlocked(c)
  PROVE  GraphInv'
<1>1. PICK x, rs : x = tx[c] /\ rs = rows
  OBVIOUS
<1>2. /\ tx[c].phase = "repair" /\ x.work = <<>> /\ x.todo = {} /\ x.list # {}
      /\ tx[c].phase \notin Submitting /\ rows' = rows
  BY <1>1 DEF RepairBlocked, Handling, Propagated, Submitting
<1>3. /\ ClientOK(x, rs) /\ x \in Tx /\ TableOK(rs) /\ GraphOK(rs) /\ WalkOK(x, rs) /\ ~x.seen
      /\ x.phase = "repair"
  BY <1>1, <1>2, WalkingTx
<1>4. PICK t : t = Least(x.list)
  OBVIOUS
<1>5. t \in x.list /\ t \in DOMAIN rs
  <2>1. x.list \in SUBSET Tasks
    BY <1>3 DEF Tx
  <2>2. t \in x.list
    BY <1>2, <1>4, <2>1, LeastIn
  <2> QED BY <1>3, <2>2 DEF ClientOK
<1>6. PICK r : r = Current(c)[t]
  OBVIOUS
<1>7. r = Over(x.writes, rs)[t] /\ r \in Row
  BY <1>1, <1>3, <1>5, <1>6, CurrentRow DEF Current
<1>8. CASE r.status = "blocked"
  <2>1. PICK dec : dec = DecideOnSubmit(ParentStates(Over(x.writes, rs), r.dependsOn), r.policy)
    OBVIOUS
  <2>2. dec.status = "blocked" /\ dec.pendingParents = r.pendingParents
    BY <1>2, <1>3, <1>5, <1>7, <1>8, <2>1, RepairNoOp
  <2>3. ReadView(c) = Over(x.writes, rs)
    BY <1>1, <1>3 DEF ReadView, Current
  <2>4. Repaired(c, r) = r
    <3>1. Repaired(c, r) = [r EXCEPT !.status = dec.status, !.pendingParents = dec.pendingParents]
      BY <1>8, <2>1, <2>2, <2>3 DEF Repaired
    <3>2. PICK st, n : st = dec.status /\ n = dec.pendingParents
      OBVIOUS
    <3>3. st = r.status /\ n = r.pendingParents
      BY <1>8, <2>2, <3>2
    <3>4. [r EXCEPT !.status = st, !.pendingParents = n] = r
      BY <1>7, <3>3 DEF Row
    <3> QED BY <3>1, <3>2, <3>4
  <2>5. tx' = [tx EXCEPT ![c] = Handled(x, t, r)]
    BY <1>1, <1>4, <1>6, <1>8, <2>4 DEF RepairBlocked
  <2>6. PICK y : y = Handled(x, t, r)
    OBVIOUS
  <2>7. /\ y.phase = x.phase /\ y.par = x.par /\ y.todo = {} /\ y.writes = With(x.writes, t, r)
        /\ y.seen = x.seen /\ y.work = <<>>
    <3>1. ~IsFinal(r.status)
      BY <1>8 DEF IsFinal
    <3>2. /\ y.phase = x.phase /\ y.par = x.par /\ y.todo = {} /\ y.writes = With(x.writes, t, r)
          /\ y.seen = x.seen /\ y.work = IF IsFinal(r.status) THEN <<t>> ELSE <<>>
      <4>1. x \in Tx /\ x.work = <<>> /\ x.todo = {}
        BY <1>2, <1>3
      <4> QED BY <2>6, <4>1, HandledTx
    <3> QED BY <3>1, <3>2
  <2>8. WalkOK(y, rs)
    <3>1. y.todo = x.todo /\ y.work = x.work
      BY <1>2, <2>7
    <3> QED BY <1>3, <1>5, <1>7, <1>8, <2>7, <3>1, SameWalk, ZenonT(60)
  <2>9. GraphTx(y, rows)
    BY <1>1, <1>3, <2>7, <2>8 DEF GraphTx, Submitting
  <2> QED BY <1>2, <2>5, <2>6, <2>9, GraphStep
<1>9. CASE r.status # "blocked"
  <2>1. PICK L : L = x.list \ {t}
    OBVIOUS
  <2>2. PICK y : y = [Locking(x, t) EXCEPT !.list = L]
    OBVIOUS
  <2>3. /\ y.phase = x.phase /\ y.par = x.par /\ y.todo = x.todo /\ y.writes = x.writes
        /\ y.seen = x.seen /\ y.work = x.work
    BY <1>3, <2>2 DEF Locking, Tx
  <2>4. tx' = [tx EXCEPT ![c] = y]
    <3>1. tx' = [tx EXCEPT ![c] = [Locking(x, t) EXCEPT !.list = @ \ {t}]]
      BY <1>1, <1>4, <1>6, <1>9 DEF RepairBlocked
    <3>2. Locking(x, t).list = x.list
      BY <1>3 DEF Locking, Tx
    <3> QED BY <2>1, <2>2, <3>1, <3>2
  <2>5. WalkOK(y, rs)
    BY <1>3, <2>3, ListWalk
  <2>6. GraphTx(y, rows)
    BY <1>1, <1>3, <2>3, <2>5 DEF GraphTx, Submitting
  <2> QED BY <1>2, <2>4, <2>6, GraphStep
<1> QED BY <1>8, <1>9

-------------------------------------------------------------------------------
(* Transactions begin.                                                     *)

\* A connection without a transaction has written nothing.
LEMMA NoTxGraph ==
  ASSUME NEW rs PROVE GraphTx(NoTx, rs)
<1>1. PICK x : x = NoTx
  OBVIOUS
<1>2. /\ x.phase = "none" /\ x.seen = FALSE /\ DOMAIN x.writes = {} /\ x.work = <<>> /\ x.todo = {}
  BY <1>1 DEF NoTx
<1>3. Range(x.work) = {} /\ DOMAIN x.work = {}
  BY <1>2 DEF Range
<1>4. WritesRight(x, rs) /\ Covered(x, rs) /\ WorkOK(x, rs)
  BY <1>2, <1>3 DEF WritesRight, Covered, WorkOK, Ended
<1>5. Accounted(x, rs)
  BY <1>2 DEF Accounted
<1>6. WalkOK(x, rs)
  BY <1>2, <1>4, <1>5 DEF WalkOK
<1>7. GraphTx(x, rs)
  BY <1>2, <1>6 DEF GraphTx, Submitting
<1> QED BY <1>1, <1>7

\* Enqueue begins.
LEMMA BeginEnqueueGraph ==
  ASSUME SqlInv, GraphInv, isolation = "RC", isolation \in DOMAIN Submissions,
         NEW c \in Clients, NEW id \in Tasks, NEW sub \in Submissions[isolation],
         BeginEnqueue(c, id, sub)
  PROVE  GraphInv'
<1>1. PICK x : x = NoTx
  OBVIOUS
<1>2. /\ DOMAIN x.writes = {} /\ x.todo = {} /\ x.seen = FALSE /\ x.read = <<>> /\ x \in Tx
  <2>1. NoTx \in Tx
    BY NoTxOK DEF SqlInv, ClientOK
  <2> QED BY <1>1, <2>1 DEF NoTx
<1> HIDE DEF NoTx
<1>3. PICK deps, policy, key : deps = sub.deps /\ policy = sub.policy /\ key = sub.key
  OBVIOUS
<1>4. PICK y : y = [x EXCEPT !.op = "Enqueue", !.phase = "parents", !.id = id,
                             !.deps = deps, !.policy = policy, !.key = key, !.work = deps]
  OBVIOUS
<1>5. /\ y.phase = "parents" /\ y.deps = deps /\ y.work = deps /\ DOMAIN y.writes = {} /\ y.todo = {}
      /\ y.seen = FALSE /\ y.read = <<>>
  BY <1>2, <1>4 DEF Tx
<1>6. AfterRead(NoTx) = NoTx
  BY DEF AfterRead
<1>7. /\ tx' = [tx EXCEPT ![c] = y] /\ rows' = rows /\ Range(deps) \subseteq DOMAIN rows
  BY <1>1, <1>3, <1>4, <1>6 DEF BeginEnqueue
<1>8. ReadOK(y, rows)
  BY <1>5, <1>7 DEF ReadOK
<1>9. GraphTx(y, rows)
  BY <1>5, <1>8 DEF GraphTx, Submitting
<1> QED BY <1>7, <1>9, GraphStep

\* Replay begins: a new execution waits for nobody.
LEMMA BeginReplayGraph ==
  ASSUME SqlInv, GraphInv, isolation = "RC", NEW c \in Clients, NEW id, NEW target, NEW key,
         BeginReplayID(c, id, target) \/ BeginReplayKey(c, id, key)
  PROVE  GraphInv'
<1>1. PICK x : x = NoTx
  OBVIOUS
<1>2. /\ DOMAIN x.writes = {} /\ x.todo = {} /\ x.seen = FALSE /\ x.deps = <<>> /\ x \in Tx
  <2>1. NoTx \in Tx
    BY NoTxOK DEF SqlInv, ClientOK
  <2> QED BY <1>1, <2>1 DEF NoTx
<1> HIDE DEF NoTx
<1>3. AfterRead(NoTx) = NoTx
  BY DEF AfterRead
<1>4. rows' = rows /\ \E u : tx' = [tx EXCEPT ![c] = Replaying(x, id, u)]
  BY <1>1, <1>3 DEF BeginReplayID, BeginReplayKey
<1>5. PICK u : tx' = [tx EXCEPT ![c] = Replaying(x, id, u)]
  BY <1>4
<1>6. PICK y : y = Replaying(x, id, u)
  OBVIOUS
<1>7. PICK policy, k : policy = rows[u].policy /\ k = rows[u].key
  OBVIOUS
<1>8. y = [x EXCEPT !.op = "Replay", !.phase = "lock", !.id = id, !.target = u,
                    !.policy = policy, !.key = k]
  BY <1>6, <1>7 DEF Replaying
<1>9. y.phase = "lock" /\ DOMAIN y.writes = {} /\ y.todo = {} /\ y.seen = FALSE /\ y.deps = <<>>
  BY <1>2, <1>8 DEF Tx
<1>10. GraphTx(y, rows)
  BY <1>9 DEF GraphTx, Submitting
<1>11. tx' = [tx EXCEPT ![c] = y]
  BY <1>5, <1>6
<1> QED BY <1>4, <1>10, <1>11, GraphStep

\* A task ends: its children come next.
LEMMA FinalWalk ==
  ASSUME NEW y, NEW rs, NEW t \in DOMAIN rs, NEW r, GraphOK(rs), TableOK(rs),
         y.phase = "propagate", y.work = <<t>>, y.todo = {}, DOMAIN y.writes = {t}, y.writes[t] = r,
         r.dependsOn = rs[t].dependsOn, r.policy = rs[t].policy,
         ~IsFinal(rs[t].status), IsFinal(r.status), CanTransition(rs[t].status, r.status),
         r.status # "canceled" => rs[t].status = "running"
  PROVE  WalkOK(y, rs)
<1>1. /\ Range(y.work) = {t} /\ \A i, j \in DOMAIN y.work : y.work[i] = y.work[j] => i = j
  BY DEF Range
<1>2. \A p, v : ~Done(y, p, v)
  BY <1>1 DEF Done
<1>3. Undone(y, rs, t) = OpenIn(rs, t)
  BY <1>2 DEF Undone, OpenIn
<1>4. Ended(y, rs, t) /\ \A p : Ended(y, rs, p) => p = t
  BY DEF Ended
<1>5. Right(rs[t], OpenIn(rs, t), rs) /\ Parents(rs[t]) \subseteq DOMAIN rs /\ Parents(r) = Parents(rs[t])
  BY DEF GraphOK, Parents
<1>6. Right(r, OpenIn(rs, t), Over(y.writes, rs))
  <2>1. CASE r.status = "canceled"
    BY <2>1 DEF Right
  <2>2. CASE r.status # "canceled"
    <3>1. rs[t].status = "running" /\ OpenIn(rs, t) = {}
      BY <1>5, <2>2 DEF Right
    <3>2. t \notin Parents(rs[t])
      BY <3>1 DEF OpenIn
    <3>3. \A p \in Parents(rs[t]) : Over(y.writes, rs)[p] = rs[p]
      BY <1>5, <3>2 DEF Over
    <3>4. r.status \notin {"blocked", "pending"}
      BY DEF IsFinal
    <3> QED BY <1>5, <2>2, <3>1, <3>3, <3>4 DEF Right
  <2> QED BY <2>1, <2>2
<1>7. WritesRight(y, rs)
  BY <1>3, <1>6 DEF WritesRight
<1>8. Covered(y, rs) /\ WorkOK(y, rs)
  BY <1>1, <1>4 DEF Covered, WorkOK
<1>9. Accounted(y, rs)
  <2>1. Mover(y, rs, t)
    <3>1. rs[t].status = "blocked" => r.status = "canceled"
      OBVIOUS
    <3> QED BY <3>1 DEF Mover
  <2> QED BY <2>1 DEF Accounted
<1> QED BY <1>7, <1>8, <1>9 DEF WalkOK

\* Ack, Fail without attempts left, FinishCanceled, and Cancel of a queued task.
LEMMA BeginFinalGraph ==
  ASSUME SqlInv, GraphInv, NEW c \in Clients, NEW t \in DOMAIN rows, NEW r \in Row,
         r.dependsOn = rows[t].dependsOn, r.policy = rows[t].policy,
         ~IsFinal(rows[t].status), IsFinal(r.status), CanTransition(rows[t].status, r.status),
         r.status # "canceled" => rows[t].status = "running",
         BeginFinal(c, t, r)
  PROVE  GraphInv'
<1>1. PICK x, rs : x = NoTx /\ rs = rows
  OBVIOUS
<1>2. x.writes = <<>> /\ x.todo = {} /\ x.seen = FALSE /\ x \in Tx
  <2>1. NoTx \in Tx
    BY NoTxOK DEF SqlInv, ClientOK
  <2> QED BY <1>1, <2>1 DEF NoTx
<1> HIDE DEF NoTx
<1>3. PICK z : z = Writing(x, t, r)
  OBVIOUS
<1>4. z.seen = x.seen /\ z.todo = x.todo /\ z.writes = With(x.writes, t, r)
      /\ {"op", "phase", "work"} \subseteq DOMAIN z
  <2>1. z.seen = x.seen /\ z.todo = x.todo /\ z.writes = With(x.writes, t, r)
    BY <1>2, <1>3, WritingFields
  <2>2. {"op", "phase", "work"} \subseteq DOMAIN z
    BY <1>2, <1>3 DEF Writing, Locking, Tx
  <2> QED BY <2>1, <2>2
<1>5. PICK y : y = [z EXCEPT !.op = "Final", !.phase = "propagate", !.work = <<t>>]
  OBVIOUS
<1>6. /\ y.phase = "propagate" /\ y.work = <<t>> /\ y.todo = {} /\ y.seen = FALSE
      /\ y.writes = With(x.writes, t, r)
  BY <1>2, <1>4, <1>5
<1>7. DOMAIN y.writes = {t} /\ y.writes[t] = r
  BY <1>2, <1>6 DEF With
<1>8. tx' = [tx EXCEPT ![c] = y] /\ rows' = rows
  BY <1>1, <1>3, <1>5 DEF BeginFinal
<1>9. WalkOK(y, rs)
  <2>1. /\ t \in DOMAIN rs /\ GraphOK(rs) /\ TableOK(rs)
        /\ r.dependsOn = rs[t].dependsOn /\ r.policy = rs[t].policy
        /\ ~IsFinal(rs[t].status) /\ IsFinal(r.status) /\ CanTransition(rs[t].status, r.status)
        /\ r.status # "canceled" => rs[t].status = "running"
    BY <1>1 DEF SqlInv, GraphInv
  <2> QED BY <1>6, <1>7, <2>1, FinalWalk
<1>10. GraphTx(y, rows)
  BY <1>1, <1>6, <1>9 DEF GraphTx, Submitting
<1> QED BY <1>8, <1>10, GraphStep

\* A task that runs, or is queued, or waits, may end.
LEMMA FinishGraph ==
  ASSUME SqlInv, GraphInv, NEW c \in Clients, NEW t, NEW token, NEW s \in {"completed", "failed", "canceled"},
         Finish(c, t, token, s)
  PROVE  GraphInv'
<1>1. /\ t \in DOMAIN rows /\ rows[t] \in Row /\ rows[t].status = "running" /\ s \in Statuses /\ IsFinal(s)
  BY DEF Finish, HoldsLease, SqlInv, TableOK, Statuses, IsFinal
<1>2. PICK old, r : old = rows[t] /\ r = Finished(old, s)
  OBVIOUS
<1>3. r \in Row /\ r.status = s /\ r.dependsOn = rows[t].dependsOn /\ r.policy = rows[t].policy
  BY <1>1, <1>2, FinishedRow, FinishedGraph
<1>4. ~IsFinal(rows[t].status) /\ IsFinal(r.status) /\ CanTransition(rows[t].status, r.status)
  BY <1>1, <1>3 DEF IsFinal, CanTransition, legalTransitions, Statuses
<1>5. BeginFinal(c, t, r)
  BY <1>2 DEF Finish
<1> QED BY <1>1, <1>3, <1>4, <1>5, BeginFinalGraph

\* Cancel of a task that waits or is queued.
LEMMA CancelQueuedGraph ==
  ASSUME SqlInv, GraphInv, NEW c \in Clients, NEW t, CancelQueued(c, t)
  PROVE  GraphInv'
<1>1. /\ t \in DOMAIN rows /\ rows[t] \in Row /\ rows[t].status \in {"blocked", "pending", "retrying"}
  BY DEF CancelQueued, SqlInv, TableOK
<1>2. PICK old, r : old = rows[t] /\ r = [ClearLease(old) EXCEPT !.status = "canceled"]
  OBVIOUS
<1>3. r \in Row /\ r.status = "canceled" /\ r.dependsOn = rows[t].dependsOn /\ r.policy = rows[t].policy
  BY <1>1, <1>2 DEF ClearLease, Row, NoToken, Statuses
<1>4. ~IsFinal(rows[t].status) /\ IsFinal(r.status) /\ CanTransition(rows[t].status, r.status)
  BY <1>1, <1>3 DEF IsFinal, CanTransition, legalTransitions, Statuses
<1>5. BeginFinal(c, t, r)
  BY <1>2 DEF CancelQueued
<1> QED BY <1>1, <1>3, <1>4, <1>5, BeginFinalGraph

\* ReapExpired begins with tasks that run.
LEMMA BeginReapGraph ==
  ASSUME SqlInv, GraphInv, NEW c \in Clients, BeginReap(c)
  PROVE  GraphInv'
<1>1. PICK x, rs : x = NoTx /\ rs = rows
  OBVIOUS
<1>2. /\ x.writes = <<>> /\ x.todo = {} /\ x.seen = FALSE /\ x \in Tx /\ x.phase = "none"
      /\ WalkOK(x, rs) /\ tx[c] = x
  <2>1. NoTx \in Tx
    BY NoTxOK DEF SqlInv, ClientOK
  <2>2. NoTx.phase = "none"
    BY DEF NoTx
  <2>3. GraphTx(NoTx, rows)
    BY NoTxGraph
  <2>4. WalkOK(NoTx, rows)
    BY <2>2, <2>3 DEF GraphTx, Submitting
  <2> QED BY <1>1, <2>1, <2>4 DEF NoTx, BeginReap
<1> HIDE DEF NoTx
<1>3. PICK E : E = Expired(c, late)
  OBVIOUS
<1>4. PICK F, L, due : /\ F = {t \in E : rows[t].cancelRequested} /\ due = late
                       /\ L = IF isolation = "RR" THEN E ELSE F
  OBVIOUS
<1>5. PICK y : y = [x EXCEPT !.op = "Reap", !.phase = "reap0", !.due = due, !.list = F, !.locked = L]
  OBVIOUS
<1>6. /\ y.phase = "reap0" /\ y.list = F /\ y.writes = x.writes /\ y.work = x.work /\ y.todo = x.todo
      /\ y.par = x.par /\ y.seen = FALSE
  BY <1>2, <1>5 DEF Tx
<1>7. tx' = [tx EXCEPT ![c] = y] /\ rows' = rows
  BY <1>1, <1>3, <1>4, <1>5, Zenon DEF BeginReap
<1>8. \A t \in y.list : Over(y.writes, rs)[t].status = "running"
  BY <1>1, <1>2, <1>3, <1>4, <1>6 DEF Expired, Current
<1>9. WalkOK(y, rs)
  BY <1>2, <1>6, <1>8, ListWalk
<1>10. GraphTx(y, rows)
  BY <1>1, <1>6, <1>9 DEF GraphTx, Submitting
<1> QED BY <1>7, <1>10, GraphStep

\* A transaction given up.
LEMMA RollbackGraph ==
  ASSUME SqlInv, GraphInv, NEW c \in Clients, Rollback(c)
  PROVE  GraphInv'
<1>1. PICK y : y = NoTx
  OBVIOUS
<1>2. GraphTx(y, rows)
  BY <1>1, NoTxGraph
<1>3. tx' = [tx EXCEPT ![c] = y] /\ rows' = rows
  BY <1>1 DEF Rollback
<1> QED BY <1>2, <1>3, GraphStep

-------------------------------------------------------------------------------
(* The transactions that lock one row.                                     *)

\* A reaper that finds a lease later has written what it has written.
LEMMA DueGraph ==
  ASSUME NEW x, NEW rs, NEW t, x \in Tx, GraphTx(x, rs)
  PROVE  GraphTx(DueLess(x, t), rs)
<1>1. PICK y : y = DueLess(x, t)
  OBVIOUS
<1>2. /\ y.phase = x.phase /\ y.list = x.list /\ y.writes = x.writes /\ y.work = x.work /\ y.todo = x.todo
      /\ y.par = x.par /\ y.seen = x.seen /\ y.deps = x.deps /\ y.read = x.read /\ y.locked = x.locked
  BY <1>1 DEF DueLess, Tx
<1>3. x.phase = "parents" => ReadOK(y, rs)
  BY <1>2 DEF GraphTx, ReadOK
<1>4. x.phase \notin Submitting => WalkOK(y, rs)
  <2>1. SUFFICES ASSUME WalkOK(x, rs) PROVE WalkOK(y, rs)
    BY DEF GraphTx
  <2>2. \A q, v : Done(y, q, v) <=> Done(x, q, v)
    BY <1>2 DEF Done
  <2>3. \A v : Undone(y, rs, v) = Undone(x, rs, v)
    BY <2>2 DEF Undone
  <2>4. \A q : Ended(y, rs, q) <=> Ended(x, rs, q)
    BY <1>2 DEF Ended
  <2>5. WritesRight(y, rs)
    BY <1>2, <2>1, <2>3 DEF WalkOK, WritesRight
  <2>6. Covered(y, rs) /\ WorkOK(y, rs)
    BY <1>2, <2>1, <2>4 DEF WalkOK, Covered, WorkOK
  <2>7. Accounted(y, rs)
    <3>1. Accounted(x, rs)
      BY <2>1 DEF WalkOK
    <3>2. \A v : (Mover(y, rs, v) <=> Mover(x, rs, v)) /\ (Follows(y, rs, v) <=> Follows(x, rs, v))
      BY <1>2 DEF Mover, Follows
    <3> QED BY <1>2, <3>1, <3>2 DEF Accounted
  <2> QED BY <1>2, <2>1, <2>5, <2>6, <2>7 DEF WalkOK
<1>5. GraphTx(y, rs)
  BY <1>2, <1>3, <1>4 DEF GraphTx
<1> QED BY <1>1, <1>5

\* A task that lives on does not concern the others.
LEMMA LiveGraph ==
  ASSUME NEW rs, NEW new, NEW t \in DOMAIN rs, GraphOK(rs), DOMAIN new = DOMAIN rs,
         \A u \in DOMAIN rs : u # t => new[u] = rs[u],
         new[t].dependsOn = rs[t].dependsOn, new[t].policy = rs[t].policy,
         rs[t].status \in {"pending", "retrying", "running"}, new[t].status \in {"pending", "retrying", "running"}
  PROVE  GraphOK(new)
<1>1. \A u \in DOMAIN rs : /\ Parents(new[u]) = Parents(rs[u]) /\ Parents(rs[u]) \subseteq DOMAIN rs
                           /\ IsFinal(new[u].status) <=> IsFinal(rs[u].status)
                           /\ ParentBroke(new[u].status) <=> ParentBroke(rs[u].status)
  BY DEF Parents, GraphOK, IsFinal, ParentBroke
<1>2. \A u \in DOMAIN rs : OpenIn(new, u) = OpenIn(rs, u)
  BY <1>1 DEF OpenIn
<1>3. ASSUME NEW u \in DOMAIN rs PROVE Right(new[u], OpenIn(rs, u), new)
  <2>1. Right(rs[u], OpenIn(rs, u), rs)
    BY DEF GraphOK
  <2>2. CASE u # t
    BY <1>1, <2>1, <2>2 DEF Right
  <2>3. CASE u = t
    BY <1>1, <2>1, <2>3 DEF Right
  <2> QED BY <2>2, <2>3
<1> QED BY <1>1, <1>2, <1>3 DEF GraphOK

\* One row that nobody has locked is written.
LEMMA RowGraph ==
  ASSUME SqlInv, GraphInv, NEW t \in DOMAIN rows, NEW r \in Row, Unlocked(t),
         r.dependsOn = rows[t].dependsOn, r.policy = rows[t].policy,
         rows[t].status \in {"pending", "retrying", "running"}, r.status \in {"pending", "retrying", "running"},
         rows' = [rows EXCEPT ![t] = r],
         tx' = tx \/ tx' = [c \in Clients |-> [tx[c] EXCEPT !.due = @ \ {t}]]
  PROVE  GraphInv'
<1>1. PICK rs, new : rs = rows /\ new = rows'
  OBVIOUS
<1>2. /\ DOMAIN new = DOMAIN rs /\ new[t] = r /\ \A u \in DOMAIN rs : u # t => new[u] = rs[u]
      /\ t \in DOMAIN rs /\ GraphOK(rs)
  BY <1>1 DEF SqlInv, TableOK, GraphInv
<1>3. /\ new[t].dependsOn = rs[t].dependsOn /\ new[t].policy = rs[t].policy
      /\ rs[t].status \in {"pending", "retrying", "running"} /\ new[t].status \in {"pending", "retrying", "running"}
  BY <1>1, <1>2
<1>4. GraphOK(new)
  BY <1>2, <1>3, LiveGraph
<1>5. \A u \in DOMAIN rs : /\ u \in DOMAIN new /\ new[u].dependsOn = rs[u].dependsOn /\ new[u].policy = rs[u].policy
                           /\ IsFinal(rs[u].status) => new[u].status = rs[u].status
                           /\ IsFinal(new[u].status) <=> IsFinal(rs[u].status)
  BY <1>2, <1>3 DEF IsFinal
<1>6. ASSUME NEW c \in Clients PROVE GraphTx(tx'[c], rows')
  <2>1. PICK x : x = tx[c]
    OBVIOUS
  <2>2. ClientOK(x, rs) /\ x \in Tx /\ GraphTx(x, rs) /\ t \notin x.locked
    BY <1>1, <2>1 DEF SqlInv, GraphInv, Unlocked, ClientOK
  <2>3. \A u \in DOMAIN rs : u \in x.locked => new[u] = rs[u]
    BY <1>2, <2>2
  <2>4. \A u \in x.locked : \A p \in Parents(rs[u]) : IsFinal(new[p].status) => IsFinal(rs[p].status)
    <3>1. \A u \in x.locked : u \in DOMAIN rs /\ Parents(rs[u]) \subseteq DOMAIN rs
      BY <1>2, <2>2 DEF ClientOK, GraphOK
    <3> QED BY <1>5, <3>1
  <2>5. \A u \in DOMAIN new \ DOMAIN rs : Parents(new[u]) \cap x.locked = {}
    BY <1>2
  <2>6. GraphTx(x, new)
    BY <1>2, <1>5, <2>2, <2>3, <2>4, <2>5, GraphTxStable
  <2>7. GraphTx(DueLess(x, t), new)
    BY <2>2, <2>6, DueGraph
  <2>8. tx'[c] = x \/ tx'[c] = DueLess(x, t)
    BY <2>1 DEF DueLess
  <2> QED BY <1>1, <2>6, <2>7, <2>8
<1> QED BY <1>1, <1>4, <1>6 DEF GraphInv

\* A one-row transaction writes r to row t: a task that lives on.
RowWrite(t, r) ==
  /\ t \in DOMAIN rows /\ r \in Row /\ Unlocked(t)
  /\ r.dependsOn = rows[t].dependsOn /\ r.policy = rows[t].policy
  /\ rows[t].status \in {"pending", "retrying", "running"} /\ r.status \in {"pending", "retrying", "running"}
  /\ r.status # rows[t].status => CanTransition(rows[t].status, r.status)
  /\ rows' = [rows EXCEPT ![t] = r]
  /\ tx' = tx \/ tx' = [c \in Clients |-> [tx[c] EXCEPT !.due = @ \ {t}]]

\* tryClaim.
LEMMA ClaimWrites ==
  ASSUME SqlInv, NEW t, Claim(t)
  PROVE  \E r : RowWrite(t, r)
<1>1. t \in DOMAIN rows /\ Unlocked(t) /\ Queued(rows[t].status) /\ rows[t] \in Row /\ lastToken \in Nat
  BY DEF Claim, SqlInv, TableOK
<1>2. PICK old, n : old = rows[t] /\ n = lastToken + 1
  OBVIOUS
<1>3. PICK r : r = [old EXCEPT !.status = "running", !.leaseToken = n]
  OBVIOUS
<1>4. n \in Nat /\ old \in Row
  BY <1>1, <1>2
<1>5. r \in Row /\ r.dependsOn = old.dependsOn /\ r.policy = old.policy /\ r.status = "running"
  BY <1>3, <1>4 DEF Row, Statuses
<1>6. old.status \in {"pending", "retrying"} /\ CanTransition(old.status, r.status)
  BY <1>1, <1>2, <1>5 DEF Queued, CanTransition, legalTransitions, Statuses
<1>7. /\ rows' = [rows EXCEPT ![t] = r]
      /\ tx' = [c \in Clients |-> [tx[c] EXCEPT !.due = @ \ {t}]]
  BY <1>2, <1>3 DEF Claim, Set, Renewed
<1> QED BY <1>1, <1>2, <1>5, <1>6, <1>7 DEF RowWrite

\* Heartbeat: the row stays as it is.
LEMMA HeartbeatWrites ==
  ASSUME SqlInv, NEW t, NEW token, Heartbeat(t, token)
  PROVE  \E r : RowWrite(t, r)
<1>1. t \in DOMAIN rows /\ Unlocked(t) /\ rows[t] \in Row /\ rows[t].status = "running"
  BY DEF Heartbeat, HoldsLease, SqlInv, TableOK
<1>2. PICK r : r = rows[t]
  OBVIOUS
<1>3. /\ rows' = [rows EXCEPT ![t] = r]
      /\ tx' = [c \in Clients |-> [tx[c] EXCEPT !.due = @ \ {t}]]
  BY <1>2 DEF Heartbeat, Renewed, SqlInv, TableOK
<1> QED BY <1>1, <1>2, <1>3 DEF RowWrite

\* Requeue, a failure with attempts left, and Cancel of a running task.
LEMMA RunningWrites ==
  ASSUME SqlInv, NEW t, NEW token,
         Requeue(t, token) \/ FailRetry(t, token) \/ CancelRunning(t)
  PROVE  \E r : RowWrite(t, r)
<1>1. t \in DOMAIN rows /\ Unlocked(t) /\ rows[t] \in Row /\ rows[t].status = "running" /\ tx' = tx
  BY DEF Requeue, FailRetry, CancelRunning, HoldsLease, SqlInv, TableOK
<1>2. PICK old : old = rows[t]
  OBVIOUS
<1>3. \E r \in Row : /\ rows' = [rows EXCEPT ![t] = r]
                     /\ r.dependsOn = old.dependsOn /\ r.policy = old.policy
                     /\ r.status \in {"pending", "retrying", "running"}
  <2>1. CASE Requeue(t, token)
    <3>1. PICK r : r = Finished(old, "pending")
      OBVIOUS
    <3>2. r \in Row /\ r.dependsOn = old.dependsOn /\ r.policy = old.policy /\ r.status = "pending"
      BY <1>1, <1>2, <3>1 DEF Finished, ClearLease, Row, NoToken, Statuses
    <3> QED BY <1>2, <2>1, <3>1, <3>2 DEF Requeue, Set
  <2>2. CASE FailRetry(t, token)
    <3>1. PICK r : r = [ClearLease(old) EXCEPT !.status = "retrying"]
      OBVIOUS
    <3>2. r \in Row /\ r.dependsOn = old.dependsOn /\ r.policy = old.policy /\ r.status = "retrying"
      BY <1>1, <1>2, <3>1 DEF ClearLease, Row, NoToken, Statuses
    <3> QED BY <1>2, <2>2, <3>1, <3>2 DEF FailRetry, Set
  <2>3. CASE CancelRunning(t)
    <3>1. PICK r : r = [old EXCEPT !.cancelRequested = TRUE]
      OBVIOUS
    <3>2. r \in Row /\ r.dependsOn = old.dependsOn /\ r.policy = old.policy /\ r.status = "running"
      BY <1>1, <1>2, <3>1 DEF Row
    <3> QED BY <1>2, <2>3, <3>1, <3>2 DEF CancelRunning, Set
  <2> QED BY <2>1, <2>2, <2>3
<1>4. PICK r \in Row : /\ rows' = [rows EXCEPT ![t] = r]
                       /\ r.dependsOn = old.dependsOn /\ r.policy = old.policy
                       /\ r.status \in {"pending", "retrying", "running"}
  BY <1>3
<1>5. r.status # rows[t].status => CanTransition(rows[t].status, r.status)
  BY <1>1, <1>4 DEF CanTransition, legalTransitions, Statuses
<1> QED BY <1>1, <1>2, <1>4, <1>5 DEF RowWrite

\* All of them.
LEMMA OneRowWrites ==
  ASSUME SqlInv, OneRow
  PROVE  (rows' = rows /\ tx' = tx) \/ \E t, r : RowWrite(t, r)
<1>1. ASSUME NEW t, Expire(t) PROVE rows' = rows /\ tx' = tx
  BY <1>1 DEF Expire
<1> QED BY <1>1, ClaimWrites, HeartbeatWrites, RunningWrites DEF OneRow

\* They keep the graph right.
LEMMA OneRowGraph ==
  ASSUME SqlInv, GraphInv, OneRow
  PROVE  GraphInv'
<1>1. CASE rows' = rows /\ tx' = tx
  BY <1>1 DEF GraphInv
<1>2. ASSUME NEW t, NEW r, RowWrite(t, r) PROVE GraphInv'
  BY <1>2, RowGraph DEF RowWrite
<1> QED BY <1>1, <1>2, OneRowWrites

-------------------------------------------------------------------------------
(* Commits.                                                                *)

\* A commit after the last child was settled leaves every row in agreement with
\* its parents.
LEMMA CommitView ==
  ASSUME NEW x, NEW rs, NEW new, ClientOK(x, rs), GraphOK(rs), WalkOK(x, rs),
         x.work = <<>>, x.todo = {}, new = Over(x.writes, rs)
  PROVE  /\ GraphOK(new) /\ DOMAIN new = DOMAIN rs
         /\ \A t \in DOMAIN rs : /\ new[t].dependsOn = rs[t].dependsOn /\ new[t].policy = rs[t].policy
                                 /\ IsFinal(rs[t].status) => new[t].status = rs[t].status
<1>1. DOMAIN x.writes \subseteq DOMAIN rs
  BY DEF ClientOK
<1>2. DOMAIN new = DOMAIN rs
  BY <1>1 DEF Over
<1>3. \A t \in DOMAIN rs : /\ Right(new[t], Undone(x, rs, t), new)
                           /\ new[t].dependsOn = rs[t].dependsOn /\ new[t].policy = rs[t].policy
                           /\ IsFinal(rs[t].status) => new[t].status = rs[t].status
  BY ViewRight
<1>4. \A t \in DOMAIN rs : Parents(new[t]) = Parents(rs[t])
  BY <1>3 DEF Parents
<1>5. \A t \in DOMAIN rs : Undone(x, rs, t) = OpenIn(new, t)
  <2>1. \A t \in DOMAIN rs : Undone(x, rs, t) = {p \in Parents(rs[t]) : ~IsFinal(new[p].status)}
    BY NothingLeft
  <2> QED BY <1>4, <2>1 DEF OpenIn
<1>6. \A t \in DOMAIN rs : Parents(rs[t]) \subseteq DOMAIN rs
  BY DEF GraphOK
<1>7. GraphOK(new)
  BY <1>2, <1>3, <1>4, <1>5, <1>6 DEF GraphOK
<1> QED BY <1>2, <1>3, <1>7

\* The children of the tasks that ended in x were locked by x.
LEMMA CommitLocked ==
  ASSUME NEW x, NEW rs, NEW new, ClientOK(x, rs), GraphOK(rs), WalkOK(x, rs),
         x.work = <<>>, x.todo = {}, new = Over(x.writes, rs),
         NEW t \in DOMAIN rs, t \notin x.locked, NEW p \in Parents(rs[t]), IsFinal(new[p].status)
  PROVE  IsFinal(rs[p].status)
<1>1. p \in DOMAIN rs /\ DOMAIN x.writes \subseteq x.locked /\ Range(x.work) = {}
  BY DEF GraphOK, ClientOK, Range
<1>2. CASE p \notin DOMAIN x.writes
  BY <1>1, <1>2 DEF Over
<1>3. CASE p \in DOMAIN x.writes
  <2>1. new[p] = x.writes[p]
    BY <1>1, <1>3 DEF Over
  <2>2. ~Ended(x, rs, p)
    BY <1>1 DEF WalkOK, Covered
  <2> QED BY <1>3, <2>1, <2>2 DEF Ended
<1> QED BY <1>2, <1>3

\* The end of a transaction: the others do not notice, if the graph is right and
\* they have locked no child of what has ended and no parent of what is new.
LEMMA CommitKeepsGraph ==
  ASSUME SqlInv, GraphInv, NEW c \in Clients, tx' = [tx EXCEPT ![c] = NoTx], GraphOK(rows'),
         \A t \in DOMAIN rows :
           /\ t \in DOMAIN rows'
           /\ rows'[t].dependsOn = rows[t].dependsOn /\ rows'[t].policy = rows[t].policy
           /\ IsFinal(rows[t].status) => rows'[t].status = rows[t].status,
         \A d \in Clients : d # c =>
           /\ \A t \in tx[d].locked :
                /\ rows'[t] = rows[t]
                /\ \A p \in Parents(rows[t]) : IsFinal(rows'[p].status) => IsFinal(rows[p].status)
           /\ \A t \in DOMAIN rows' \ DOMAIN rows : Parents(rows'[t]) \cap tx[d].locked = {}
  PROVE  GraphInv'
<1>1. PICK y, rs, new : y = NoTx /\ rs = rows /\ new = rows'
  OBVIOUS
<1> HIDE DEF NoTx
<1>2. tx'[c] = y /\ \A d \in Clients : d # c => tx'[d] = tx[d]
  BY <1>1 DEF SqlInv
<1>3. GraphTx(y, new)
  BY <1>1, NoTxGraph
<1>4. ASSUME NEW d \in Clients, d # c PROVE GraphTx(tx[d], new)
  <2>1. PICK x : x = tx[d]
    OBVIOUS
  <2>2. ClientOK(x, rs) /\ GraphTx(x, rs) /\ GraphOK(rs)
    BY <1>1, <2>1 DEF SqlInv, GraphInv
  <2>3. \A t \in DOMAIN rs : /\ t \in DOMAIN new
                             /\ new[t].dependsOn = rs[t].dependsOn /\ new[t].policy = rs[t].policy
                             /\ IsFinal(rs[t].status) => new[t].status = rs[t].status
                             /\ t \in x.locked => new[t] = rs[t]
    BY <1>1, <1>4, <2>1
  <2>4. \A t \in x.locked : \A p \in Parents(rs[t]) : IsFinal(new[p].status) => IsFinal(rs[p].status)
    BY <1>1, <1>4, <2>1
  <2>5. \A t \in DOMAIN new \ DOMAIN rs : Parents(new[t]) \cap x.locked = {}
    BY <1>1, <1>4, <2>1
  <2>6. GraphTx(x, new)
    BY <2>2, <2>3, <2>4, <2>5, GraphTxStable
  <2> QED BY <2>1, <2>6
<1>5. \A d \in Clients : GraphTx(tx'[d], new)
  BY <1>2, <1>3, <1>4
<1> QED BY <1>1, <1>5 DEF GraphInv

\* The end of a task, or of a pass over all, is committed.
LEMMA CommitGraph ==
  ASSUME SqlInv, GraphInv, NEW c \in Clients, Commit(c)
  PROVE  GraphInv'
<1>1. PICK x, rs, new : x = tx[c] /\ rs = rows /\ new = rows'
  OBVIOUS
<1>2. /\ ClientOK(x, rs) /\ GraphOK(rs) /\ new = Over(x.writes, rs) /\ WalkOK(x, rs)
      /\ x.work = <<>> /\ x.todo = {}
  BY <1>1 DEF SqlInv, GraphInv, GraphTx, Submitting, Commit, Propagated
<1>3. /\ GraphOK(new) /\ DOMAIN new = DOMAIN rs
      /\ \A t \in DOMAIN rs : /\ new[t].dependsOn = rs[t].dependsOn /\ new[t].policy = rs[t].policy
                              /\ IsFinal(rs[t].status) => new[t].status = rs[t].status
  BY <1>2, CommitView
<1>4. ASSUME NEW d \in Clients, d # c, NEW t \in tx[d].locked
      PROVE  /\ new[t] = rs[t]
             /\ \A p \in Parents(rs[t]) : IsFinal(new[p].status) => IsFinal(rs[p].status)
  <2>1. tx[d].locked \cap x.locked = {} /\ t \in DOMAIN rs /\ DOMAIN x.writes \subseteq x.locked
    BY <1>1, <1>2, <1>4 DEF SqlInv, Apart, ClientOK
  <2>2. t \notin x.locked /\ t \notin DOMAIN x.writes
    BY <2>1
  <2>3. new[t] = rs[t]
    BY <1>2, <2>1, <2>2 DEF Over
  <2> QED BY <1>2, <2>1, <2>2, <2>3, CommitLocked
<1>5. tx' = [tx EXCEPT ![c] = NoTx]
  BY DEF Commit
<1> HIDE DEF NoTx
<1>6. \A d \in Clients : d # c =>
        /\ \A t \in tx[d].locked :
             /\ rows'[t] = rows[t]
             /\ \A p \in Parents(rows[t]) : IsFinal(rows'[p].status) => IsFinal(rows[p].status)
        /\ \A t \in DOMAIN rows' \ DOMAIN rows : Parents(rows'[t]) \cap tx[d].locked = {}
  BY <1>1, <1>3, <1>4
<1> QED BY <1>1, <1>3, <1>5, <1>6, CommitKeepsGraph, ZenonT(60)

\* What DecideOnSubmit says of parents that were read and are still so.
LEMMA SubmitRight ==
  ASSUME NEW x, NEW rs, NEW dec, ReadOK(x, rs), x.work = <<>>,
         dec = DecideOnSubmit(x.read, x.policy)
  PROVE  /\ NotFinal(x.read) = {p \in Range(x.deps) : ~IsFinal(rs[p].status)}
         /\ (\E i \in DOMAIN x.read : ParentBroke(x.read[i].status))
              <=> \E p \in Range(x.deps) : ParentBroke(rs[p].status)
         /\ Range(x.deps) \subseteq x.locked
<1>1. Range(x.work) = {}
  BY DEF Range
<1>2. /\ \A i \in DOMAIN x.read : /\ x.read[i].id \in x.locked /\ x.read[i].id \in Range(x.deps)
                                  /\ x.read[i].status = rs[x.read[i].id].status
      /\ \A p \in Range(x.deps) : \E i \in DOMAIN x.read : x.read[i].id = p
  BY <1>1 DEF ReadOK
<1>3. NotFinal(x.read) = {p \in Range(x.deps) : ~IsFinal(rs[p].status)}
  BY <1>2 DEF NotFinal
<1> QED BY <1>2, <1>3

\* A row is inserted that agrees with its parents, which its transaction has locked.
LEMMA InsertKeepsGraph ==
  ASSUME SqlInv, GraphInv, NEW c \in Clients, NEW dec, InsertRow(c, dec), tx[c].id # NoID,
         Range(tx[c].deps) \subseteq tx[c].locked, Range(tx[c].deps) \subseteq DOMAIN rows,
         Right(NewRow(dec, tx[c]), {p \in Range(tx[c].deps) : ~IsFinal(rows[p].status)}, rows)
  PROVE  GraphInv'
<1>1. PICK x, rs, new : x = tx[c] /\ rs = rows /\ new = rows'
  OBVIOUS
<1>2. PICK id, r : id = x.id /\ r = NewRow(dec, x)
  OBVIOUS
<1>3. /\ ClientOK(x, rs) /\ GraphOK(rs) /\ id \notin DOMAIN rs /\ new = With(rs, id, r)
      /\ Parents(r) = Range(x.deps)
      /\ Right(r, {p \in Parents(r) : ~IsFinal(rs[p].status)}, rs)
      /\ Parents(r) \subseteq x.locked /\ Parents(r) \subseteq DOMAIN rs
  BY <1>1, <1>2 DEF SqlInv, GraphInv, ClientOK, InsertRow, NewRow, Parents
<1>4. /\ DOMAIN new = DOMAIN rs \cup {id} /\ new[id] = r /\ \A t \in DOMAIN rs : new[t] = rs[t]
  BY <1>3 DEF With
<1>5. \A t \in DOMAIN rs : Parents(rs[t]) \subseteq DOMAIN rs /\ Right(rs[t], OpenIn(rs, t), rs)
  BY <1>3 DEF GraphOK
<1>6. \A t \in DOMAIN rs : OpenIn(new, t) = OpenIn(rs, t)
  BY <1>4, <1>5 DEF OpenIn
<1>7. \A t \in DOMAIN rs : Right(new[t], OpenIn(new, t), new)
  BY <1>4, <1>5, <1>6 DEF Right
<1>8. OpenIn(new, id) = {p \in Parents(r) : ~IsFinal(rs[p].status)}
  BY <1>3, <1>4 DEF OpenIn
<1>9. Right(new[id], OpenIn(new, id), new)
  BY <1>3, <1>4, <1>8 DEF Right
<1>10. GraphOK(new)
  BY <1>3, <1>4, <1>5, <1>7, <1>9 DEF GraphOK
<1>11. ASSUME NEW d \in Clients, d # c
       PROVE  /\ \A t \in tx[d].locked :
                   /\ new[t] = rs[t]
                   /\ \A p \in Parents(rs[t]) : IsFinal(new[p].status) => IsFinal(rs[p].status)
              /\ \A t \in DOMAIN new \ DOMAIN rs : Parents(new[t]) \cap tx[d].locked = {}
  <2>1. tx[d].locked \cap x.locked = {} /\ tx[d].locked \subseteq DOMAIN rs
    BY <1>1, <1>11 DEF SqlInv, Apart, ClientOK
  <2>2. \A t \in tx[d].locked : new[t] = rs[t]
    BY <1>4, <2>1
  <2>3. \A t \in tx[d].locked : \A p \in Parents(rs[t]) : new[p] = rs[p]
    BY <1>4, <1>5, <2>1
  <2>4. \A t \in DOMAIN new \ DOMAIN rs : Parents(new[t]) \cap tx[d].locked = {}
    BY <1>3, <1>4, <2>1
  <2> QED BY <2>2, <2>3, <2>4
<1>12. tx' = [tx EXCEPT ![c] = NoTx]
  BY DEF InsertRow
<1> HIDE DEF NoTx
<1>13. \A t \in DOMAIN rows :
           /\ t \in DOMAIN rows'
           /\ rows'[t].dependsOn = rows[t].dependsOn /\ rows'[t].policy = rows[t].policy
           /\ IsFinal(rows[t].status) => rows'[t].status = rows[t].status
  BY <1>1, <1>4
<1>14. \A d \in Clients : d # c =>
        /\ \A t \in tx[d].locked :
             /\ rows'[t] = rows[t]
             /\ \A p \in Parents(rows[t]) : IsFinal(rows'[p].status) => IsFinal(rows[p].status)
        /\ \A t \in DOMAIN rows' \ DOMAIN rows : Parents(rows'[t]) \cap tx[d].locked = {}
  BY <1>1, <1>11
<1>15. GraphOK(rows')
  BY <1>1, <1>10
<1> QED BY <1>12, <1>13, <1>14, <1>15, CommitKeepsGraph

\* Enqueue's INSERT: the statuses it decided on are those of the locked parents.
LEMMA InsertGraph ==
  ASSUME SqlInv, GraphInv, NEW c \in Clients, Insert(c)
  PROVE  GraphInv'
<1>1. PICK x, rs : x = tx[c] /\ rs = rows
  OBVIOUS
<1>2. ReadOK(x, rs) /\ x.work = <<>> /\ x.id # NoID
  BY <1>1 DEF SqlInv, GraphInv, GraphTx, ClientOK, Insert
<1>3. PICK dec : dec = DecideOnSubmit(x.read, x.policy)
  OBVIOUS
<1>4. PICK U : U = {p \in Range(x.deps) : ~IsFinal(rs[p].status)}
  OBVIOUS
<1>5. /\ NotFinal(x.read) = U /\ Range(x.deps) \subseteq x.locked /\ Range(x.deps) \subseteq DOMAIN rs
      /\ (\E i \in DOMAIN x.read : ParentBroke(x.read[i].status))
              <=> \E p \in Range(x.deps) : ParentBroke(rs[p].status)
  BY <1>2, <1>3, <1>4, SubmitRight, ZenonT(60) DEF ReadOK
<1>6. PICK r : r = NewRow(dec, x)
  OBVIOUS
<1>7. /\ r.status = dec.status /\ r.pendingParents = dec.pendingParents /\ r.policy = x.policy
      /\ Parents(r) = Range(x.deps)
  BY <1>6 DEF NewRow, Parents
<1>8. /\ dec.status = "blocked" => dec.pendingParents = Cardinality(U) /\ U # {}
      /\ dec.status \notin {"blocked", "canceled"} => U = {}
      /\ dec.status # "canceled" /\ x.policy = "fail_fast" =>
           \A p \in Range(x.deps) : ~ParentBroke(rs[p].status)
  BY <1>3, <1>5 DEF DecideOnSubmit, PendingCount
<1>9. Right(r, U, rs)
  BY <1>7, <1>8 DEF Right
<1>10. InsertRow(c, dec)
  BY <1>1, <1>3 DEF Insert
<1>11. /\ tx[c].id # NoID /\ Range(tx[c].deps) \subseteq tx[c].locked /\ Range(tx[c].deps) \subseteq DOMAIN rows
       /\ Right(NewRow(dec, tx[c]), {p \in Range(tx[c].deps) : ~IsFinal(rows[p].status)}, rows)
  BY <1>1, <1>2, <1>4, <1>5, <1>6, <1>9
<1> QED BY <1>10, <1>11, InsertKeepsGraph

\* Replay's INSERT: the new execution has no parents.
LEMMA InsertReplayGraph ==
  ASSUME SqlInv, GraphInv, NEW c \in Clients, InsertReplay(c)
  PROVE  GraphInv'
<1>1. PICK x, rs : x = tx[c] /\ rs = rows
  OBVIOUS
<1>2. x.deps = <<>> /\ x.id # NoID
  BY <1>1 DEF SqlInv, GraphInv, GraphTx, ClientOK, InsertReplay, Submitting
<1>3. PICK dec : dec = [status |-> "pending", pendingParents |-> 0]
  OBVIOUS
<1>4. Range(x.deps) = {}
  BY <1>2 DEF Range
<1>5. PICK r : r = NewRow(dec, x)
  OBVIOUS
<1>6. r.status = "pending" /\ Parents(r) = {}
  BY <1>3, <1>4, <1>5 DEF NewRow, Parents
<1>7. Right(r, {}, rs)
  BY <1>6 DEF Right
<1>8. {p \in Range(x.deps) : ~IsFinal(rs[p].status)} = {}
  BY <1>4
<1>9. InsertRow(c, dec)
  BY <1>3 DEF InsertReplay
<1>10. /\ tx[c].id # NoID /\ Range(tx[c].deps) \subseteq tx[c].locked /\ Range(tx[c].deps) \subseteq DOMAIN rows
       /\ Right(NewRow(dec, tx[c]), {p \in Range(tx[c].deps) : ~IsFinal(rows[p].status)}, rows)
  BY <1>1, <1>2, <1>4, <1>5, <1>7, <1>8
<1> QED BY <1>9, <1>10, InsertKeepsGraph

-------------------------------------------------------------------------------
(* No wake-up is lost at READ COMMITTED.                                   *)

\* What the steps assume and keep: the locks, the graph and the level.
GraphHere == SqlInv /\ GraphInv /\ isolation \in DOMAIN Submissions /\ isolation = "RC"

\* An empty table.
LEMMA SqlInit_Graph ==
  ASSUME SqlInit PROVE GraphInv
<1>1. GraphOK(rows)
  BY DEF SqlInit, GraphOK
<1>2. \A c \in Clients : GraphTx(NoTx, rows)
  BY NoTxGraph
<1> HIDE DEF NoTx
<1> QED BY <1>1, <1>2 DEF SqlInit, GraphInv

\* Every statement of every client keeps the graph right.
LEMMA SqlNext_Graph ==
  ASSUME GraphHere, SqlNext
  PROVE  GraphInv'
<1>1. CASE OneRow
  BY <1>1, OneRowGraph DEF GraphHere
<1>2. ASSUME NEW c \in Clients, Begin(c) PROVE GraphInv'
  BY <1>2, BeginEnqueueGraph, BeginReplayGraph, FinishGraph, CancelQueuedGraph, BeginReapGraph
  DEF Begin, GraphHere
<1>3. ASSUME NEW c \in Clients, Step(c) PROVE GraphInv'
  BY <1>3, LockParentGraph, InsertGraph, ReplayGraph, InsertReplayGraph, NextParentGraph, VisitChildGraph,
     ReapGraph, ScanGraph, RepairGraph, CommitGraph DEF Step, GraphHere
<1>4. ASSUME NEW c \in Clients, Rollback(c) PROVE GraphInv'
  BY <1>4, RollbackGraph DEF GraphHere
<1> QED BY <1>1, <1>2, <1>3, <1>4 DEF SqlNext

\* The invariant of the SQL broker at READ COMMITTED.
LEMMA GraphInvariant ==
  SqlSpec /\ isolation = "RC" => []GraphHere
<1>1. SqlInit /\ isolation = "RC" => GraphHere
  BY SqlInit_Inv, SqlInit_Graph DEF SqlInit, GraphHere
<1>2. GraphHere /\ [SqlNext]_sqlVars => GraphHere'
  <2>1. CASE UNCHANGED sqlVars
    BY <2>1 DEF sqlVars, SqlInv, SqlChainsLinear, GraphInv, GraphHere
  <2>2. CASE GraphHere /\ SqlNext
    <3>1. SqlInv'
      BY <2>2, SqlNext_Inv DEF GraphHere
    <3>2. GraphInv'
      BY <2>2, SqlNext_Graph
    <3>3. isolation' = isolation
      BY <2>2 DEF SqlNext
    <3> QED BY <2>2, <3>1, <3>2, <3>3 DEF GraphHere
  <2> QED BY <2>1, <2>2
<1> QED BY <1>1, <1>2, PTL DEF SqlSpec

\* No wake-up is lost and none comes early at READ COMMITTED (PostgreSQL's
\* default), for any number of tasks and clients: however enqueues, ends, their
\* cascades, reaps and rollbacks interleave, in the committed table a blocked
\* task has exactly as many open parents as its pending_parents says, at least
\* one (Enqueue's and propagateTx's FOR UPDATE).
THEOREM NoWakeupLost == SqlSpec /\ isolation = "RC" => []SqlPendingExact
<1>1. GraphHere => SqlPendingExact
  BY DEF GraphHere, GraphInv, GraphOK, Right, SqlPendingExact, OpenParents, OpenIn
<1> QED BY <1>1, GraphInvariant, PTL

-------------------------------------------------------------------------------
(* At READ COMMITTED every commit is a step of the lifecycle.              *)

\* The vocabulary the abstract specification shares with the broker.
LEMMA LifecycleWords ==
  /\ \A s : Lifecycle!IsFinal(s) <=> IsFinal(s)
  /\ \A s : Lifecycle!ParentBroke(s) <=> ParentBroke(s)
  /\ \A s1, s2 : Lifecycle!CanTransition(s1, s2) <=> CanTransition(s1, s2)
  /\ Lifecycle!Policies = Policies
  BY DEF Lifecycle!IsFinal, IsFinal, Lifecycle!ParentBroke, ParentBroke,
         Lifecycle!CanTransition, CanTransition, Lifecycle!legalTransitions, legalTransitions,
         Lifecycle!Statuses, Statuses, Lifecycle!Policies, Policies

\* The status the parents P dictate, read from the rows.
RowVerdict(P, pol, rs) ==
  IF pol = "fail_fast" /\ \E p \in P : ParentBroke(rs[p].status) THEN "canceled"
  ELSE IF \E p \in P : ~IsFinal(rs[p].status) THEN "blocked"
  ELSE "pending"

\* It is the abstract one.
LEMMA RowVerdictMapped ==
  ASSUME NEW rs, NEW P, P \subseteq DOMAIN rs, NEW pol
  PROVE  Lifecycle!Verdict(P, pol, [t \in DOMAIN rs |-> rs[t].status]) = RowVerdict(P, pol, rs)
<1> DEFINE st == [t \in DOMAIN rs |-> rs[t].status]
<1>1. \A p \in P : st[p] = rs[p].status
  OBVIOUS
<1> HIDE DEF st
<1>2. Lifecycle!Verdict(P, pol, st) = RowVerdict(P, pol, rs)
  BY <1>1, LifecycleWords DEF Lifecycle!Verdict, RowVerdict
<1> QED BY <1>2 DEF st

\* A row that agrees with its parents has the status they dictate.
LEMMA RightVerdict ==
  ASSUME NEW rs, GraphOK(rs), NEW t \in DOMAIN rs,
         \/ rs[t].status \in {"blocked", "pending"}
         \/ /\ rs[t].status = "canceled" /\ rs[t].policy = "fail_fast"
            /\ \E p \in Parents(rs[t]) : ParentBroke(rs[p].status)
  PROVE  rs[t].status = RowVerdict(Parents(rs[t]), rs[t].policy, rs)
<1>1. Right(rs[t], OpenIn(rs, t), rs)
  BY DEF GraphOK
<1>2. rs[t].status # "canceled" /\ rs[t].policy = "fail_fast" =>
        \A p \in Parents(rs[t]) : ~ParentBroke(rs[p].status)
  BY <1>1 DEF Right, OpenIn, ParentBroke, IsFinal
<1>3. CASE rs[t].status = "blocked"
  BY <1>1, <1>2, <1>3 DEF Right, OpenIn, RowVerdict
<1>4. CASE rs[t].status = "pending"
  BY <1>1, <1>2, <1>4 DEF Right, OpenIn, RowVerdict
<1>5. CASE rs[t].status = "canceled"
  BY <1>5 DEF RowVerdict
<1> QED BY <1>3, <1>4, <1>5

\* Task t follows its parents from table rs to table new.
FollowsParents(rs, new, t) ==
  \/ new[t].status = rs[t].status
  \/ rs[t].status = "blocked" /\ new[t].status = "pending"
  \/ /\ rs[t].status = "blocked" /\ new[t].status = "canceled" /\ rs[t].policy = "fail_fast"
     /\ \E p \in Parents(rs[t]) : ParentBroke(new[p].status)

\* A commit that moves the tasks of X by themselves, and any other only as a
\* consequence, is an abstract Move.
LEMMA SqlMoveMapped ==
  ASSUME GraphOK(rows), GraphOK(rows'), DOMAIN rows' = DOMAIN rows, NEW X, X \subseteq DOMAIN rows,
         \A t \in DOMAIN rows : /\ rows'[t].dependsOn = rows[t].dependsOn
                                /\ rows'[t].policy = rows[t].policy,
         \A t \in X : /\ CanTransition(rows[t].status, rows'[t].status)
                      /\ rows[t].status = "blocked" => rows'[t].status = "canceled",
         \A t \in DOMAIN rows \ X : FollowsParents(rows, rows', t)
  PROVE  Lifecycle!Move(X)
<1> DEFINE D == DOMAIN rows
           st(rs) == [t \in DOMAIN rs |-> rs[t].status]
           pa(rs) == [t \in DOMAIN rs |-> Parents(rs[t])]
           po(rs) == [t \in DOMAIN rs |-> rs[t].policy]
<1>1. \A t \in D : Parents(rows'[t]) = Parents(rows[t]) /\ Parents(rows[t]) \subseteq D
  BY DEF Parents, GraphOK
<1>2. pa(rows') = pa(rows) /\ po(rows') = po(rows)
  BY <1>1
<1>3. ASSUME NEW t \in D \ X
      PROVE  rows'[t].status = IF rows[t].status = "blocked"
                               THEN Lifecycle!Verdict(Parents(rows[t]), rows[t].policy, st(rows'))
                               ELSE rows[t].status
  <2>1. CASE rows[t].status # "blocked"
    BY <2>1 DEF FollowsParents
  <2>2. CASE rows[t].status = "blocked"
    <3>1. PICK new : new = rows'
      OBVIOUS
    <3>2. /\ GraphOK(new) /\ t \in DOMAIN new
          /\ \/ new[t].status \in {"blocked", "pending"}
             \/ /\ new[t].status = "canceled" /\ new[t].policy = "fail_fast"
                /\ \E p \in Parents(new[t]) : ParentBroke(new[p].status)
      BY <1>1, <2>2, <3>1 DEF FollowsParents
    <3>3. new[t].status = RowVerdict(Parents(new[t]), new[t].policy, new)
      BY <3>2, RightVerdict
    <3>4. Lifecycle!Verdict(Parents(rows[t]), rows[t].policy, st(new))
            = RowVerdict(Parents(rows[t]), rows[t].policy, new)
      <4>1. Parents(rows[t]) \subseteq DOMAIN new
        BY <1>1, <3>1
      <4> QED BY <4>1, RowVerdictMapped
    <3> QED BY <1>1, <2>2, <3>1, <3>3, <3>4
  <2> QED BY <2>1, <2>2
<1>4. DOMAIN st(rows) = D /\ DOMAIN st(rows') = D
      /\ \A t \in D : /\ st(rows)[t] = rows[t].status /\ st(rows')[t] = rows'[t].status
                      /\ pa(rows)[t] = Parents(rows[t]) /\ po(rows)[t] = rows[t].policy
  OBVIOUS
<1> HIDE DEF st, pa, po
<1>5. \A t \in D \ X :
        st(rows')[t] = IF st(rows)[t] = "blocked"
                       THEN Lifecycle!Verdict(pa(rows)[t], po(rows)[t], st(rows'))
                       ELSE st(rows)[t]
  BY <1>3, <1>4
<1>6. \A t \in X : /\ Lifecycle!CanTransition(st(rows)[t], st(rows')[t])
                   /\ st(rows)[t] = "blocked" => st(rows')[t] = "canceled"
  BY <1>4, LifecycleWords
<1> QED BY <1>2, <1>4, <1>5, <1>6, Zenon DEF Lifecycle!Move, Lifecycle!Consequences, st, pa, po

\* A Move of one task, or of none, is a step of the lifecycle.
LEMMA SqlMoveIsNext ==
  /\ \A t \in DOMAIN rows : Lifecycle!Move({t}) => Lifecycle!Next
  /\ Lifecycle!Move({}) => Lifecycle!Next
<1>1. DOMAIN [t \in DOMAIN rows |-> rows[t].status] = DOMAIN rows
  OBVIOUS
<1>2. Lifecycle!Move({}) => Lifecycle!Expire({})
  BY DEF Lifecycle!Expire
<1> QED BY <1>1, <1>2 DEF Lifecycle!Next

\* A transaction on one row: the task moves on its own account, or not at all.
LEMMA RowMapped ==
  ASSUME GraphHere, GraphInv', NEW t, NEW r, RowWrite(t, r)
  PROVE  Lifecycle!Next
<1>1. /\ DOMAIN rows' = DOMAIN rows /\ rows'[t] = r /\ t \in DOMAIN rows
      /\ \A u \in DOMAIN rows : u # t => rows'[u] = rows[u]
  BY DEF RowWrite, GraphHere, SqlInv, TableOK
<1>2. \A u \in DOMAIN rows : rows'[u].dependsOn = rows[u].dependsOn /\ rows'[u].policy = rows[u].policy
  BY <1>1 DEF RowWrite
<1>3. GraphOK(rows) /\ GraphOK(rows')
  BY DEF GraphHere, GraphInv
<1>4. CASE r.status = rows[t].status
  <2>1. \A u \in DOMAIN rows \ {} : FollowsParents(rows, rows', u)
    BY <1>1, <1>4 DEF FollowsParents
  <2>2. Lifecycle!Move({})
    BY <1>1, <1>2, <1>3, <2>1, SqlMoveMapped
  <2> QED BY <2>2, SqlMoveIsNext
<1>5. CASE r.status # rows[t].status
  <2>1. \A u \in DOMAIN rows \ {t} : FollowsParents(rows, rows', u)
    BY <1>1 DEF FollowsParents
  <2>2. \A u \in {t} : /\ CanTransition(rows[u].status, rows'[u].status)
                       /\ rows[u].status = "blocked" => rows'[u].status = "canceled"
    BY <1>1, <1>5 DEF RowWrite
  <2>3. {t} \subseteq DOMAIN rows
    BY <1>1
  <2>4. Lifecycle!Move({t})
    BY <1>1, <1>2, <1>3, <2>1, <2>2, <2>3, SqlMoveMapped
  <2> QED BY <1>1, <2>4, SqlMoveIsNext
<1> QED BY <1>4, <1>5

\* The commit of a task's end, with its cascade, moves that task and what waits
\* for it; that of a ReapExpired the tasks whose leases ran out.
LEMMA CommitMapped ==
  ASSUME GraphHere, GraphInv', NEW c \in Clients, Commit(c)
  PROVE  Lifecycle!Next
<1>1. PICK x, rs, new : x = tx[c] /\ rs = rows /\ new = rows'
  OBVIOUS
<1>2. /\ ClientOK(x, rs) /\ GraphOK(rs) /\ new = Over(x.writes, rs) /\ WalkOK(x, rs)
      /\ x.work = <<>> /\ x.todo = {} /\ x.phase \in {"propagate", "repair"}
  BY <1>1 DEF GraphHere, SqlInv, GraphInv, GraphTx, Submitting, Commit, Propagated
<1>3. /\ GraphOK(new) /\ DOMAIN new = DOMAIN rs
      /\ \A t \in DOMAIN rs : /\ new[t].dependsOn = rs[t].dependsOn /\ new[t].policy = rs[t].policy
                              /\ IsFinal(rs[t].status) => new[t].status = rs[t].status
  BY <1>2, CommitView
<1>4. PICK X \in SUBSET DOMAIN x.writes :
        /\ x.phase = "propagate" => \E t \in X : X = {t}
        /\ \A t \in X : Mover(x, rs, t)
        /\ \A t \in DOMAIN x.writes \ X : Follows(x, rs, t)
  BY <1>2 DEF WalkOK, Accounted
<1>5. DOMAIN x.writes \subseteq DOMAIN rs /\ X \subseteq DOMAIN rs
  BY <1>2 DEF ClientOK
<1>6. /\ \A t \in DOMAIN x.writes : new[t] = x.writes[t]
      /\ \A t \in DOMAIN rs \ DOMAIN x.writes : new[t] = rs[t]
  BY <1>2, <1>5 DEF Over
<1>7. \A t \in X : /\ CanTransition(rs[t].status, new[t].status)
                   /\ rs[t].status = "blocked" => new[t].status = "canceled"
                   /\ x.phase = "repair" =>
                        rs[t].status = "running" /\ new[t].status \in {"pending", "failed", "canceled"}
  BY <1>4, <1>6 DEF Mover
<1>8. \A t \in DOMAIN rs \ X : FollowsParents(rs, new, t)
  BY <1>4, <1>6 DEF Follows, FollowsParents
<1>9. Lifecycle!Move(X)
  BY <1>1, <1>2, <1>3, <1>5, <1>7, <1>8, SqlMoveMapped
<1>10. CASE x.phase = "propagate"
  BY <1>1, <1>4, <1>5, <1>9, <1>10, SqlMoveIsNext
<1>11. CASE x.phase = "repair"
  <2> DEFINE st(q) == [t \in DOMAIN q |-> q[t].status]
  <2>1. \A t \in X : st(rows)[t] = rows[t].status /\ st(rows')[t] = rows'[t].status
    BY <1>1, <1>3, <1>5
  <2>2. DOMAIN st(rows) = DOMAIN rows /\ X \in SUBSET DOMAIN rows
    BY <1>1, <1>5
  <2>3. \A t \in X : rows[t].status = "running" /\ rows'[t].status \in {"pending", "failed", "canceled"}
    BY <1>1, <1>7, <1>11
  <2> HIDE DEF st
  <2>4. \A t \in X : st(rows)[t] = "running" /\ st(rows')[t] \in {"pending", "failed", "canceled"}
    BY <2>1, <2>3
  <2>5. Lifecycle!Expire(X)
    BY <1>9, <2>4 DEF Lifecycle!Expire, st
  <2>6. \E Y \in SUBSET DOMAIN st(rows) : Lifecycle!Expire(Y)
    BY <2>2, <2>5
  <2> QED BY <2>6 DEF Lifecycle!Next, st
<1> QED BY <1>2, <1>10, <1>11

\* A row is inserted with the status its parents dictate.
LEMMA InsertMapped ==
  ASSUME GraphHere, NEW c \in Clients, NEW dec, InsertRow(c, dec), tx[c].id # NoID,
         Range(tx[c].deps) \subseteq DOMAIN rows,
         dec.status = RowVerdict(Range(tx[c].deps), tx[c].policy, rows)
  PROVE  Lifecycle!Next
<1> DEFINE st(rs) == [t \in DOMAIN rs |-> rs[t].status]
           pa(rs) == [t \in DOMAIN rs |-> Parents(rs[t])]
           po(rs) == [t \in DOMAIN rs |-> rs[t].policy]
           D == DOMAIN rows
<1>1. PICK x : x = tx[c]
  OBVIOUS
<1>2. PICK id, r : id = x.id /\ r = NewRow(dec, x)
  OBVIOUS
<1>3. /\ id \in Tasks \ D /\ x.policy \in Policies
  BY <1>1, <1>2 DEF GraphHere, SqlInv, ClientOK, Tx
<1>4. r.status = dec.status /\ Parents(r) = Range(x.deps) /\ r.policy = x.policy
  BY <1>2 DEF NewRow, Parents
<1>5. /\ DOMAIN rows' = D \cup {id} /\ rows'[id] = r
      /\ \A t \in D : rows'[t] = rows[t]
  BY <1>1, <1>2, <1>3 DEF InsertRow, With
<1>6. /\ DOMAIN st(rows) = D /\ DOMAIN st(rows') = D \cup {id}
      /\ DOMAIN pa(rows') = D \cup {id} /\ DOMAIN po(rows') = D \cup {id}
      /\ \A t \in D : /\ st(rows)[t] = rows[t].status
                      /\ pa(rows)[t] = Parents(rows[t]) /\ po(rows)[t] = rows[t].policy
      /\ \A t \in D \cup {id} : /\ st(rows')[t] = rows'[t].status
                                /\ pa(rows')[t] = Parents(rows'[t]) /\ po(rows')[t] = rows'[t].policy
  BY <1>5
<1>7. Lifecycle!Verdict(Parents(r), r.policy, st(rows)) = r.status
  <2>1. Parents(r) \subseteq DOMAIN rows
    BY <1>1, <1>4
  <2>2. Lifecycle!Verdict(Parents(r), r.policy, st(rows)) = RowVerdict(Parents(r), r.policy, rows)
    BY <2>1, RowVerdictMapped
  <2> QED BY <1>1, <1>4, <2>2
<1> HIDE DEF st, pa, po
<1>8. /\ st(rows')[id] = Lifecycle!Verdict(pa(rows')[id], po(rows')[id], st(rows))
      /\ pa(rows')[id] \subseteq D
      /\ po(rows')[id] \in Lifecycle!Policies
  BY <1>1, <1>3, <1>4, <1>5, <1>6, <1>7, LifecycleWords
<1>9. \A t \in D : /\ st(rows')[t] = st(rows)[t]
                   /\ pa(rows')[t] = pa(rows)[t]
                   /\ po(rows')[t] = po(rows)[t]
  BY <1>5, <1>6
<1>10. Lifecycle!Create(id)
  BY <1>3, <1>6, <1>8, <1>9, Zenon DEF Lifecycle!Create, st, pa, po
<1>11. id \in Tasks
  BY <1>3
<1> QED BY <1>10, <1>11, Zenon DEF Lifecycle!Next

\* Enqueue's INSERT, and Replay's.
LEMMA InsertsMapped ==
  ASSUME GraphHere, NEW c \in Clients, Insert(c) \/ InsertReplay(c)
  PROVE  Lifecycle!Next
<1>1. PICK x, rs : x = tx[c] /\ rs = rows
  OBVIOUS
<1>2. CASE Insert(c)
  <2>1. ReadOK(x, rs) /\ x.work = <<>> /\ x.id # NoID
    BY <1>1, <1>2 DEF GraphHere, SqlInv, GraphInv, GraphTx, ClientOK, Insert
  <2>2. PICK dec : dec = DecideOnSubmit(x.read, x.policy)
    OBVIOUS
  <2>3. /\ NotFinal(x.read) = {p \in Range(x.deps) : ~IsFinal(rs[p].status)}
        /\ Range(x.deps) \subseteq DOMAIN rs
        /\ (\E i \in DOMAIN x.read : ParentBroke(x.read[i].status))
                <=> \E p \in Range(x.deps) : ParentBroke(rs[p].status)
    BY <2>1, <2>2, SubmitRight, ZenonT(60) DEF ReadOK
  <2>4. dec.status = RowVerdict(Range(x.deps), x.policy, rs)
    BY <2>2, <2>3 DEF DecideOnSubmit, RowVerdict
  <2>5. InsertRow(c, dec)
    BY <1>1, <1>2, <2>2 DEF Insert
  <2>6. /\ tx[c].id # NoID /\ Range(tx[c].deps) \subseteq DOMAIN rows
        /\ dec.status = RowVerdict(Range(tx[c].deps), tx[c].policy, rows)
    BY <1>1, <2>1, <2>3, <2>4
  <2> QED BY <2>5, <2>6, InsertMapped
<1>3. CASE InsertReplay(c)
  <2>1. x.deps = <<>> /\ x.id # NoID
    BY <1>1, <1>3 DEF GraphHere, SqlInv, GraphInv, GraphTx, ClientOK, InsertReplay, Submitting
  <2>2. PICK dec : dec = [status |-> "pending", pendingParents |-> 0]
    OBVIOUS
  <2>3. Range(x.deps) = {}
    BY <2>1 DEF Range
  <2>4. dec.status = RowVerdict(Range(x.deps), x.policy, rs)
    BY <2>2, <2>3 DEF RowVerdict
  <2>5. InsertRow(c, dec)
    BY <1>3, <2>2 DEF InsertReplay
  <2>6. /\ tx[c].id # NoID /\ Range(tx[c].deps) \subseteq DOMAIN rows
        /\ dec.status = RowVerdict(Range(tx[c].deps), tx[c].policy, rows)
    BY <1>1, <2>1, <2>3, <2>4
  <2> QED BY <2>5, <2>6, InsertMapped
<1> QED BY <1>2, <1>3

\* The statements that commit nothing.
LEMMA OtherSteps ==
  ASSUME NEW c \in Clients,
         \/ Begin(c) \/ Rollback(c) \/ LockParent(c) \/ LockTarget(c) \/ CheckReplayed(c) \/ NextParent(c)
         \/ VisitChild(c) \/ ReapFlagged(c) \/ ScanExpired(c) \/ ReapLost(c) \/ ScanBlocked(c)
         \/ RepairBlocked(c)
  PROVE  rows' = rows
<1>1. CASE Begin(c)
  <2>1. ASSUME NEW id, NEW sub, BeginEnqueue(c, id, sub) PROVE rows' = rows
    BY <2>1, Zenon DEF BeginEnqueue
  <2>2. ASSUME NEW id, NEW u, BeginReplayID(c, id, u) PROVE rows' = rows
    BY <2>2, Zenon DEF BeginReplayID
  <2>3. ASSUME NEW id, NEW key, BeginReplayKey(c, id, key) PROVE rows' = rows
    BY <2>3, Zenon DEF BeginReplayKey
  <2>4. ASSUME NEW t, NEW token, NEW s, Finish(c, t, token, s) PROVE rows' = rows
    BY <2>4, Zenon DEF Finish, BeginFinal
  <2>5. ASSUME NEW t, CancelQueued(c, t) PROVE rows' = rows
    BY <2>5, Zenon DEF CancelQueued, BeginFinal
  <2>6. CASE BeginReap(c)
    BY <2>6, Zenon DEF BeginReap
  <2> QED BY <1>1, <2>1, <2>2, <2>3, <2>4, <2>5, <2>6 DEF Begin
<1>2. CASE Rollback(c) \/ LockParent(c) \/ LockTarget(c) \/ CheckReplayed(c) \/ NextParent(c)
  BY <1>2, Zenon DEF Rollback, LockParent, LockTarget, CheckReplayed, NextParent
<1>3. CASE VisitChild(c) \/ ReapFlagged(c) \/ ScanExpired(c)
  BY <1>3, Zenon DEF VisitChild, ReapFlagged, ScanExpired
<1>4. CASE ReapLost(c) \/ ScanBlocked(c) \/ RepairBlocked(c)
  BY <1>4, Zenon DEF ReapLost, ScanBlocked, RepairBlocked
<1> QED BY <1>1, <1>2, <1>3, <1>4

\* Every step of the broker is a step of the lifecycle, or none.
LEMMA SqlNextMapped ==
  ASSUME GraphHere, GraphHere', [SqlNext]_sqlVars
  PROVE  Lifecycle!Next \/ rows' = rows
<1>1. GraphInv'
  BY DEF GraphHere
<1>2. CASE UNCHANGED sqlVars
  BY <1>2 DEF sqlVars
<1>3. CASE OneRow
  BY <1>1, <1>3, OneRowWrites, RowMapped DEF GraphHere
<1>4. ASSUME NEW c \in Clients, Begin(c) \/ Step(c) \/ Rollback(c) PROVE Lifecycle!Next \/ rows' = rows
  BY <1>1, <1>4, CommitMapped, InsertsMapped, OtherSteps DEF Step
<1> QED BY <1>2, <1>3, <1>4 DEF SqlNext

\* At READ COMMITTED the SQL broker implements the lifecycle the in-memory broker
\* implements: however the statements of its transactions interleave, each commit
\* moves one task (or the overdue ones) along the legal transitions and settles,
\* in the same commit, all that waits for it.
THEOREM SqlImplements == SqlSpec /\ isolation = "RC" => SqlImplementsLifecycle
<1>1. SqlInit => Lifecycle!Init
  <2>1. SUFFICES ASSUME SqlInit PROVE Lifecycle!Init
    OBVIOUS
  <2>2. DOMAIN rows = {}
    BY <2>1 DEF SqlInit
  <2> QED BY <2>2 DEF Lifecycle!Init
<1>2. GraphHere /\ GraphHere' /\ [SqlNext]_sqlVars => [Lifecycle!Next]_(Lifecycle!vars)
  <2>1. SUFFICES ASSUME GraphHere, GraphHere', [SqlNext]_sqlVars, rows' = rows
                 PROVE  UNCHANGED (Lifecycle!vars)
    BY SqlNextMapped
  <2> QED BY <2>1 DEF Lifecycle!vars
<1> QED BY <1>1, <1>2, GraphInvariant, PTL DEF SqlSpec, SqlImplementsLifecycle, Lifecycle!Spec
===============================================================================
