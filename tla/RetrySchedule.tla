---------------------------- MODULE RetrySchedule ----------------------------
(***************************************************************************)
(* The hourly timer and the persistent backoff while every renewal fails:  *)
(* how often is a renewal tried between the moment it is due and the       *)
(* expiry of the certificate?                                              *)
(***************************************************************************)
EXTENDS Scheduler

CONSTANTS
  PolicySet,     \* the policies to look at
  ExpiresAt,     \* when the certificate expires
  TimerDelays    \* delays of the timer: RandomizedDelaySec and AccuracySec

ASSUME ScheduleAssumption ==
  /\ ExpiresAt \in Nat
  /\ \A p \in PolicySet : ValidPolicy(p) /\ p.renewBefore < ExpiresAt
  /\ TimerDelays \subseteq 0..(Hour - 1)

VARIABLES
  policy,
  hour,       \* the timer has fired for all earlier hours
  now,
  next,       \* managed_certs.next_renewal_at
  attempt,    \* operations.retry_count of the latest operation
  nextTry,    \* operations.next_retry_at of the latest operation
  tries

vars == <<policy, hour, now, next, attempt, nextTry, tries>>

Init ==
  /\ policy \in PolicySet
  /\ \E j \in JitterRange(policy) : next = NextRenewal(policy, ExpiresAt, j)
  /\ hour = next \div Hour /\ now = hour * Hour
  /\ attempt = 0 /\ nextTry = 0 /\ tries = 0

\* RunOnce: the backoff first, then whether the renewal is due.
RunOnce ==
  IF nextTry > now \/ ~Due(now, next)
  THEN UNCHANGED <<attempt, nextTry, tries>>
  ELSE /\ nextTry' = now + RetryDelay(policy, attempt)
       /\ attempt' = attempt + 1
       /\ tries' = tries + 1

TimerFires ==
  /\ hour * Hour <= ExpiresAt
  /\ now < hour * Hour
  /\ \E d \in TimerDelays : now' = hour * Hour + d
  /\ UNCHANGED <<policy, hour, next, attempt, nextTry, tries>>

Run ==
  /\ now >= hour * Hour
  /\ hour' = hour + 1
  /\ RunOnce
  /\ UNCHANGED <<policy, now, next>>

Next == TimerFires \/ Run

Spec == Init /\ [][Next]_vars
-----------------------------------------------------------------------------
Slack == Hour + Hour - 1     \* an hour between timers, and a delayed one

\* The reference: retryMin doubled attempt times, at most retryMax.
Doubling(p) == Iterated(p.retryMin, [delay \in Nat |-> 2 * delay])

Doubled(p, k) ==
  IF \E i \in 0..k : Doubling(p)[i] >= p.retryMax THEN p.retryMax
  ELSE Doubling(p)[k]

\* The delay is the reference, rounded up by at most one unit where halving an
\* odd retryMax loses half a unit: no iteration is missed or made twice.
DelayDoubles ==
  RetryDelay(policy, attempt) - Doubled(policy, attempt) \in {0, 1}

\* A certificate does not expire before renewing it was tried as often as the
\* slowest backoff allows: never, where the jitter leaves no time for a try.
TriedBeforeExpiry ==
  hour * Hour > ExpiresAt =>
    tries >= (ExpiresAt - next) \div (policy.retryMax + Slack)

\* The part that is inductive.  The run of the last hour took place before the
\* later of nextTry and next, and each try adds at most a delay and the slack.
TypeOK ==
  /\ policy \in PolicySet
  /\ {hour, now, next, nextTry} \subseteq Int
  /\ {attempt, tries} \subseteq Nat

ScheduleInv ==
  /\ TypeOK
  /\ tries = attempt
  /\ now < hour * Hour + Hour
  /\ (hour - 1) * Hour < next \/ (hour - 1) * Hour < nextTry
  /\ 0 <= next
  /\ nextTry <= next + tries * (policy.retryMax + Slack)
=============================================================================
