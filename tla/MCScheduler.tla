---------------------------- MODULE MCScheduler ----------------------------
(* Instances of Scheduler for TLC. *)
EXTENDS Scheduler

\* Every lease lasts one unit of time.
TTLs == [q \in Queues |-> 1]
\* A plain error, an ErrThrottled, and an ErrSkipRetry around an ErrThrottled.
SomeErrors == {{}, {"throttled"}, {"skip", "throttled"}}
PlainError == {{}}
OneTask == [deps : {<<>>}, policy : {"fail_fast"}, key : {NoKey}]
=============================================================================
