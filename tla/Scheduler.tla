------------------------------ MODULE Scheduler ------------------------------
(***************************************************************************)
(* The renewal policy of src/internal/scheduler/policy.go.  A policy p is  *)
(* a record of durations, all in one unit of time.                         *)
(***************************************************************************)
EXTENDS Integers

CONSTANT Hour    \* time units in an hour

ASSUME HourAssumption == Hour \in Nat \ {0}

\* Policy: durations are integers.
Durations == [renewBefore : Int, retryMin : Int, retryMax : Int, jitterMax : Int]

\* Policy.Validate
ValidPolicy(p) ==
  /\ p \in Durations
  /\ p.renewBefore \in (48 * Hour)..(96 * Hour)
  /\ p.retryMin > 0 /\ p.retryMax >= p.retryMin /\ p.jitterMax >= 0

\* Policy.jitter is a hash of the address and the expiry modulo JitterMax.
JitterRange(p) == IF p.jitterMax <= 0 THEN {0} ELSE 0..(p.jitterMax - 1)

NextRenewal(p, expiresAt, jitter) == expiresAt - p.renewBefore + jitter

Due(now, nextRenewal) == now >= nextRenewal

\* Mutant: the first retry already waits twice as long.
RetryDelayLate(p, attempt) ==
  IF p.retryMin * 2^(attempt + 1) >= p.retryMax THEN p.retryMax
  ELSE p.retryMin * 2^(attempt + 1)

\* Mutant: the delay has no limit.
RetryDelayUncapped(p, attempt) == p.retryMin * 2^attempt

\* The sequence a, step[a], step[step[a]], ...
Iterated(a, step) ==
  LET f[i \in Nat] == IF i = 0 THEN a ELSE step[f[i - 1]]
  IN f

\* An iteration of the loop of Policy.RetryDelay, which stays at retryMax once
\* the loop has returned it.
Longer(p) ==
  [delay \in Nat |-> IF delay >= p.retryMax \div 2 THEN p.retryMax ELSE 2 * delay]

RetryDelay(p, attempt) ==
  LET delay == Iterated(p.retryMin, Longer(p))[attempt]
  IN IF delay > p.retryMax THEN p.retryMax ELSE delay
=============================================================================
