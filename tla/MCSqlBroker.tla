---------------------------- MODULE MCSqlBroker ----------------------------
(* Instances of SqlBroker for TLC. *)
EXTENDS SqlBroker, TLC

Ask(deps, policy) == [deps |-> deps, policy |-> policy, key |-> NoKey]
Keyed(key) == [deps |-> <<>>, policy |-> "fail_fast", key |-> key]

Root   == {Ask(<<>>, "fail_fast")}
Join   == Root \cup {Ask(<<1, 2>>, "ignore_parent_failure")}
Graphs == Join \cup {Ask(<<2, 1>>, "fail_fast"), Ask(<<1>>, "fail_fast"), Ask(<<2>>, "fail_fast")}

Chain  == {Keyed(k) : k \in Keys}

\* Keys and replays under both levels, dependencies under READ COMMITTED: the
\* repair of blocked tasks under REPEATABLE READ is MCSqlRepair's question.
RootRC == [RC |-> Root]
JoinRR == [RR |-> Join]
Mixed  == [RC |-> Graphs \cup Chain, RR |-> Chain]

ClientSymmetry == Permutations(Clients)
=============================================================================
