---------------------------- MODULE MCSqliteBroker ----------------------------
(* Instances of SqliteBroker for TLC. *)
EXTENDS SqliteBroker

TTLs == [q \in Queues |-> 1]

Ask(deps, policy, key) == [deps |-> deps, policy |-> policy, key |-> key]

\* A task alone; one with a key below the first, named twice; one below both.
Asked ==
  {Ask(<<>>, "fail_fast", NoKey), Ask(<<1, 2>>, "ignore_parent_failure", NoKey)}
    \cup {Ask(<<1, 1>>, "fail_fast", k) : k \in Keys}
===============================================================================
