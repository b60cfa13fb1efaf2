----------------------------- MODULE MCLifecycle -----------------------------
(***************************************************************************)
(* Small instances of the lifecycle.  A unit of time is the shortest retry *)
(* delay, and the longest delay is four of them.                           *)
(***************************************************************************)
EXTENDS LifecycleInvariant

Policy == INSTANCE Scheduler WITH Hour <- 1

MCPolicy == [renewBefore |-> 2, retryMin |-> 1, retryMax |-> 4, jitterMax |-> 0]

MCRetryDelay(attempt) == Policy!RetryDelay(MCPolicy, attempt)
MCJitters == Policy!JitterRange(MCPolicy)
=============================================================================
