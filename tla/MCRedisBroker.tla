---------------------------- MODULE MCRedisBroker ----------------------------
(* Instances of RedisBroker for TLC. *)
EXTENDS RedisBroker

TTLs == [q \in Queues |-> 1]

\* A task alone or below the first, with or without a key.
Chains == [deps : {<<>>, <<1>>}, policy : Policies, key : Keys \cup {NoKey}]
==============================================================================
