----------------------------- MODULE MCPropagation -----------------------------
(* Instances of Propagation for TLC.                                       *)
EXTENDS Propagation

TTLs == [q \in Queues |-> 1]

\* Chains, forks and joins over three tasks; the first parent is named twice,
\* and a task without parents may have a key.
SmallGraphs ==
  [deps : {<<1, 1>>, <<2>>, <<1, 2>>}, policy : Policies, key : {NoKey}]
    \cup [deps : {<<>>}, policy : {"fail_fast"}, key : Keys \cup {NoKey}]
===============================================================================
