--------------------------- MODULE ScheduleProofs ---------------------------
(***************************************************************************)
(* The retry delay of Policy.RetryDelay, for every valid policy and every  *)
(* number of failures, and how often the hourly timer tries a renewal that *)
(* keeps failing, for every expiry and every set of policies.              *)
(*                                                                         *)
(* The delay is a loop, so its facts are proved by induction: the loop is  *)
(* a recursive function over the naturals (Iterated), and lemma NatSets is *)
(* induction for a set, from the well-foundedness of < on Nat.             *)
(***************************************************************************)
EXTENDS RetrySchedule, TLAPS, WellFoundedInduction

\* Induction over the naturals, for a set instead of a predicate.
LEMMA NatSets ==
  ASSUME NEW T, 0 \in T, \A n \in Nat : n \in T => n + 1 \in T
  PROVE  Nat \subseteq T
<1>. DEFINE B == Nat \ T
<1>1. SUFFICES ASSUME B # {} PROVE FALSE
  OBVIOUS
<1>2. PICK x \in B : \A y \in B : ~(<<y, x>> \in OpToRel(<, Nat))
  BY <1>1, NatLessThanWellFounded, WFMin
<1>3. x # 0 /\ x - 1 \in Nat
  OBVIOUS
<1>4. <<x - 1, x>> \in OpToRel(<, Nat)
  BY <1>3 DEF OpToRel
<1>5. x - 1 \notin B
  BY <1>2, <1>4, Zenon
<1>6. x - 1 + 1 = x
  OBVIOUS
<1>. QED BY <1>3, <1>5, <1>6

\* A value and a step determine a sequence of values: partial sequences of
\* every length exist and agree.
LEMMA IteratesExist ==
  ASSUME NEW S, NEW a \in S, NEW step \in [S -> S]
  PROVE  \E f \in [Nat -> S] :
           f[0] = a /\ \A n \in Nat : f[n + 1] = step[f[n]]
<1>. DEFINE Starts(g, n) ==
              /\ g \in [0..n -> S] /\ g[0] = a
              /\ \A i \in 0..n : i # 0 => g[i] = step[g[i - 1]]
            T == {n \in Nat : \E g : Starts(g, n)}
            G == [n \in Nat |-> CHOOSE g : Starts(g, n)]
            f == [n \in Nat |-> G[n][n]]
<1>1. Nat \subseteq T
  <2>1. 0 \in T
    <3>1. Starts([i \in 0..0 |-> a], 0)
      OBVIOUS
    <3>. QED BY <3>1
  <2>2. ASSUME NEW n \in Nat, n \in T PROVE n + 1 \in T
    <3>1. PICK g : Starts(g, n)
      BY <2>2
    <3>. DEFINE h == [i \in 0..(n + 1) |-> IF i = n + 1 THEN step[g[n]] ELSE g[i]]
    <3>2. h \in [0..(n + 1) -> S]
      BY <3>1
    <3>3. h[0] = a
      BY <3>1
    <3>4. ASSUME NEW i \in 0..(n + 1), i # 0 PROVE h[i] = step[h[i - 1]]
      <4>1. CASE i = n + 1
        BY <4>1
      <4>2. CASE i # n + 1
        <5>1. i \in 0..n /\ i - 1 \in 0..n /\ i - 1 # n + 1 /\ i - 1 \in 0..(n + 1)
          BY <3>4, <4>2
        <5>. QED BY <3>1, <3>4, <4>2, <5>1
      <4>. QED BY <4>1, <4>2
    <3>5. Starts(h, n + 1)
      BY <3>2, <3>3, <3>4
    <3>. QED BY <3>5
  <2>. HIDE DEF T
  <2>. QED BY <2>1, <2>2, NatSets
<1>2. \A n \in Nat : Starts(G[n], n)
  BY <1>1
<1>3. ASSUME NEW n \in Nat PROVE \A i \in 0..n : G[n][i] = f[i]
  <2>. DEFINE A == {i \in Nat : i \in 0..n => G[n][i] = G[i][i]}
  <2>. DEFINE Agree == {k \in Nat : \A m \in Nat : k <= m => G[m][k] = G[k][k]}
  <2>1. Nat \subseteq Agree
    <3>1. 0 \in Agree
      <4>1. ASSUME NEW m \in Nat PROVE G[m][0] = a
        BY <1>2
      <4>. HIDE DEF G
      <4>. QED BY <4>1
    <3>2. ASSUME NEW k \in Nat, k \in Agree PROVE k + 1 \in Agree
      <4>1. ASSUME NEW m \in Nat, k + 1 <= m PROVE G[m][k + 1] = step[G[k][k]]
        <5>1. G[m][k + 1] = step[G[m][k + 1 - 1]] /\ k + 1 - 1 = k
          <6>. HIDE DEF G
          <6>1. Starts(G[m], m)
            BY <1>2
          <6>. QED BY <6>1, <4>1
        <5>2. G[m][k] = G[k][k]
          <6>. HIDE DEF G
          <6>. QED BY <3>2, <4>1
        <5>. QED BY <5>1, <5>2
      <4>. HIDE DEF G
      <4>. QED BY <4>1
    <3>. HIDE DEF Agree
    <3>. QED BY <3>1, <3>2, NatSets
  <2>. HIDE DEF G
  <2>. QED BY <2>1
<1>4. f \in [Nat -> S]
  <2>. HIDE DEF G
  <2>. QED BY <1>2
<1>5. ASSUME NEW n \in Nat PROVE f[n + 1] = step[f[n]]
  <2>. HIDE DEF G
  <2>1. Starts(G[n + 1], n + 1)
    BY <1>2
  <2>2. G[n + 1][n] = f[n]
    <3>1. n + 1 \in Nat /\ n \in 0..(n + 1)
      OBVIOUS
    <3>. HIDE DEF f
    <3>. QED BY <1>3, <3>1
  <2>3. n + 1 \in Nat /\ n + 1 # 0 /\ n + 1 \in 0..(n + 1) /\ (n + 1) - 1 = n
    OBVIOUS
  <2>. QED BY <2>1, <2>2, <2>3
<1>6. f[0] = a
  BY <1>2
<1>. QED
  <2>. HIDE DEF f
  <2>. QED BY <1>4, <1>5, <1>6

\* Iterated is that sequence.
LEMMA Iterates ==
  ASSUME NEW S, NEW a \in S, NEW step \in [S -> S]
  PROVE  /\ Iterated(a, step) \in [Nat -> S]
         /\ Iterated(a, step)[0] = a
         /\ \A n \in Nat : Iterated(a, step)[n + 1] = step[Iterated(a, step)[n]]
<1>. DEFINE Is(g) == g = [i \in Nat |-> IF i = 0 THEN a ELSE step[g[i - 1]]]
            F == Iterated(a, step)
<1>1. PICK f \in [Nat -> S] : f[0] = a /\ \A n \in Nat : f[n + 1] = step[f[n]]
  BY IteratesExist
<1>2. Is(f)
  <2>1. ASSUME NEW i \in Nat, i # 0 PROVE f[i] = step[f[i - 1]]
    <3>1. i - 1 \in Nat /\ (i - 1) + 1 = i
      BY <2>1
    <3>2. f[(i - 1) + 1] = step[f[i - 1]]
      BY <1>1, <3>1
    <3>. QED BY <3>1, <3>2
  <2>. QED BY <1>1, <2>1
<1>3. Is(F)
  BY <1>2, Zenon DEF Iterated
<1>4. F[0] = a
  BY <1>3
<1>5. ASSUME NEW n \in Nat PROVE F[n + 1] = step[F[n]]
  <2>1. n + 1 \in Nat /\ n + 1 # 0 /\ (n + 1) - 1 = n
    OBVIOUS
  <2>. QED BY <1>3, <2>1
<1>6. F \in [Nat -> S]
  <2>. DEFINE T == {i \in Nat : F[i] \in S}
  <2>1. 0 \in T
    BY <1>4
  <2>2. ASSUME NEW n \in Nat, n \in T PROVE n + 1 \in T
    BY <1>5, <2>2
  <2>3. Nat \subseteq T
    <3>. HIDE DEF T
    <3>. QED BY <2>1, <2>2, NatSets
  <2>4. DOMAIN F = Nat /\ F = [i \in Nat |-> F[i]]
    BY <1>3
  <2>. HIDE DEF F
  <2>. QED BY <2>3, <2>4
<1>. QED BY <1>4, <1>5, <1>6

-----------------------------------------------------------------------------
(***************************************************************************)
(* The loop of Policy.RetryDelay                                           *)
(***************************************************************************)

\* A valid policy has integers in the order that Validate checks.
LEMMA ValidTypes ==
  ASSUME NEW p, ValidPolicy(p)
  PROVE  /\ p.renewBefore \in Nat /\ p.retryMin \in Nat \ {0}
         /\ p.retryMax \in Nat \ {0} /\ p.jitterMax \in Nat
         /\ p.retryMin <= p.retryMax
BY HourAssumption DEF ValidPolicy, Durations

\* The delay after n iterations.
Loop(p) == Iterated(p.retryMin, Longer(p))

\* The loop as a recurrence: its start, and what an iteration does.
LEMMA LoopSteps ==
  ASSUME NEW p, ValidPolicy(p)
  PROVE  /\ Loop(p) \in [Nat -> Nat]
         /\ Loop(p)[0] = p.retryMin
         /\ \A n \in Nat :
              Loop(p)[n + 1] = IF Loop(p)[n] >= p.retryMax \div 2 THEN p.retryMax
                               ELSE 2 * Loop(p)[n]
<1>. DEFINE N == Nat    min == p.retryMin    step == Longer(p)
<1>1. min \in N /\ step \in [N -> N]
  BY ValidTypes DEF Longer
<1>2. /\ Iterated(min, step) \in [Nat -> N]
      /\ Iterated(min, step)[0] = min
      /\ \A n \in Nat : Iterated(min, step)[n + 1] = step[Iterated(min, step)[n]]
  <2>. HIDE DEF N, min, step
  <2>. QED BY <1>1, Iterates
<1>3. \A d \in Nat : step[d] = IF d >= p.retryMax \div 2 THEN p.retryMax ELSE 2 * d
  BY DEF Longer
<1>. HIDE DEF step
<1>4. Loop(p) = Iterated(min, step)
  BY DEF Loop, step
<1>. QED BY <1>2, <1>3, <1>4

\* No iteration leaves the range from the minimum to the maximum: doubling a
\* duration of 64 bits never overflows, and the test after the loop never holds.
LEMMA LoopBounded ==
  ASSUME NEW p, ValidPolicy(p)
  PROVE  \A n \in Nat : Loop(p)[n] \in p.retryMin..p.retryMax
<1>. DEFINE T == {n \in Nat : Loop(p)[n] \in p.retryMin..p.retryMax}
<1>1. 0 \in T
  BY LoopSteps, ValidTypes
<1>2. ASSUME NEW n \in Nat, n \in T PROVE n + 1 \in T
  <2>1. /\ Loop(p)[n] \in Nat
        /\ Loop(p)[n + 1] = IF Loop(p)[n] >= p.retryMax \div 2 THEN p.retryMax
                            ELSE 2 * Loop(p)[n]
    BY LoopSteps
  <2>. QED BY <1>2, <2>1, ValidTypes
<1>. HIDE DEF T
<1>3. Nat \subseteq T
  BY <1>1, <1>2, NatSets
<1>. QED BY <1>3 DEF T

\* RetryDelay is that loop: its last test changes nothing.
LEMMA RetryDelayIsLoop ==
  ASSUME NEW p, ValidPolicy(p), NEW n \in Nat
  PROVE  RetryDelay(p, n) = Loop(p)[n]
<1>1. Loop(p)[n] \in p.retryMin..p.retryMax
  BY LoopBounded
<1>. QED BY <1>1, ValidTypes DEF RetryDelay, Loop

\* Policy.RetryDelay returns a duration between the minimum and the maximum of
\* a valid policy after every number of failures.
THEOREM RetryDelayBounded ==
  \A p : ValidPolicy(p) => \A n \in Nat : RetryDelay(p, n) \in p.retryMin..p.retryMax
BY RetryDelayIsLoop, LoopBounded

\* Policy.RetryDelay never returns a shorter duration after more failures.  The
\* lifecycle assumes this of its delays.
THEOREM RetryDelayGrows ==
  \A p : ValidPolicy(p) =>
    \A k \in Nat : \A j \in 0..k : RetryDelay(p, j) <= RetryDelay(p, k)
<1>1. SUFFICES ASSUME NEW p, ValidPolicy(p)
               PROVE  \A k \in Nat : \A j \in 0..k : RetryDelay(p, j) <= RetryDelay(p, k)
  OBVIOUS
<1>. DEFINE T == {k \in Nat : \A j \in 0..k : Loop(p)[j] <= Loop(p)[k]}
<1>2. 0 \in T
  BY <1>1, LoopSteps
<1>3. ASSUME NEW n \in Nat, n \in T PROVE n + 1 \in T
  <2>1. Loop(p)[n] <= Loop(p)[n + 1]
    <3>1. Loop(p)[n] \in p.retryMin..p.retryMax
      BY <1>1, LoopBounded
    <3>2. Loop(p)[n + 1] = IF Loop(p)[n] >= p.retryMax \div 2 THEN p.retryMax
                           ELSE 2 * Loop(p)[n]
      BY <1>1, LoopSteps
    <3>. QED BY <1>1, <3>1, <3>2, ValidTypes
  <2>2. ASSUME NEW j \in 0..(n + 1) PROVE Loop(p)[j] <= Loop(p)[n + 1]
    <3>1. CASE j = n + 1
      BY <1>1, <3>1, LoopSteps
    <3>2. CASE j \in 0..n
      <4>1. Loop(p)[j] <= Loop(p)[n]
        BY <1>3, <3>2
      <4>. QED BY <1>1, <2>1, <3>2, <4>1, LoopSteps
    <3>. QED BY <3>1, <3>2
  <2>. QED BY <2>2
<1>. HIDE DEF T
<1>4. Nat \subseteq T
  BY <1>2, <1>3, NatSets
<1>. QED BY <1>1, <1>4, RetryDelayIsLoop DEF T

\* The reference as a recurrence.
LEMMA DoublingSteps ==
  ASSUME NEW p, ValidPolicy(p)
  PROVE  /\ Doubling(p) \in [Nat -> Nat]
         /\ Doubling(p)[0] = p.retryMin
         /\ \A n \in Nat : Doubling(p)[n + 1] = 2 * Doubling(p)[n]
<1>. DEFINE N == Nat    min == p.retryMin    step == [delay \in Nat |-> 2 * delay]
<1>1. min \in N /\ step \in [N -> N]
  BY ValidTypes
<1>2. /\ Iterated(min, step) \in [Nat -> N]
      /\ Iterated(min, step)[0] = min
      /\ \A n \in Nat : Iterated(min, step)[n + 1] = step[Iterated(min, step)[n]]
  <2>. HIDE DEF N, min, step
  <2>. QED BY <1>1, Iterates
<1>3. \A d \in Nat : step[d] = 2 * d
  OBVIOUS
<1>4. Doubling(p) = Iterated(min, step)
  BY DEF Doubling
<1>. HIDE DEF step
<1>. QED BY <1>2, <1>3, <1>4

\* Until a doubling reaches the maximum the loop doubles too, or has already
\* returned a maximum that the next doubling exceeds by less than one unit; from
\* then on it stays at the maximum.
LEMMA LoopDoubles ==
  ASSUME NEW p, ValidPolicy(p)
  PROVE  \A k \in Nat :
           IF \E i \in 0..k : Doubling(p)[i] >= p.retryMax
           THEN Loop(p)[k] = p.retryMax
           ELSE \/ Loop(p)[k] = Doubling(p)[k]
                \/ Loop(p)[k] = p.retryMax /\ Doubling(p)[k] = p.retryMax - 1
<1>. DEFINE D == Loop(p)    W == Doubling(p)
            Reached(k) == \E i \in 0..k : W[i] >= p.retryMax
            Agrees(k) == IF Reached(k) THEN D[k] = p.retryMax
                         ELSE D[k] = W[k] \/ (D[k] = p.retryMax /\ W[k] = p.retryMax - 1)
            T == {k \in Nat : Agrees(k)}
<1>1. 0 \in T
  <2>1. D[0] = p.retryMin /\ W[0] = p.retryMin
    BY LoopSteps, DoublingSteps
  <2>2. Reached(0) <=> W[0] >= p.retryMax
    OBVIOUS
  <2>. QED BY <2>1, <2>2, ValidTypes
<1>2. ASSUME NEW n \in Nat, n \in T PROVE n + 1 \in T
  <2>1. /\ D[n] \in Nat /\ W[n] \in Nat
        /\ D[n + 1] = IF D[n] >= p.retryMax \div 2 THEN p.retryMax ELSE 2 * D[n]
        /\ W[n + 1] = 2 * W[n]
    BY LoopSteps, DoublingSteps
  <2>2. Reached(n + 1) <=> Reached(n) \/ W[n + 1] >= p.retryMax
    <3>1. \A i : i \in 0..(n + 1) <=> i \in 0..n \/ i = n + 1
      OBVIOUS
    <3>. HIDE DEF W
    <3>. QED BY <3>1
  <2>3. ~Reached(n) => W[n] < p.retryMax
    <3>1. n \in 0..n
      OBVIOUS
    <3>. HIDE DEF W
    <3>. QED BY <2>1, <3>1, ValidTypes
  <2>. HIDE DEF D, W, Reached
  <2>4. Agrees(n)
    BY <1>2
  <2>5. CASE Reached(n)
    BY <2>1, <2>2, <2>4, <2>5, ValidTypes
  <2>6. CASE ~Reached(n) /\ D[n] = W[n]
    BY <2>1, <2>2, <2>3, <2>6, ValidTypes
  <2>7. CASE ~Reached(n) /\ D[n] = p.retryMax /\ W[n] = p.retryMax - 1
    BY <2>1, <2>2, <2>7, ValidTypes
  <2>. QED BY <2>4, <2>5, <2>6, <2>7
<1>. HIDE DEF T
<1>3. Nat \subseteq T
  BY <1>1, <1>2, NatSets
<1>. QED BY <1>3 DEF T

-----------------------------------------------------------------------------
(***************************************************************************)
(* The schedule                                                            *)
(***************************************************************************)

\* The inductive invariant holds where the timer first looks at the renewal.
LEMMA ScheduleInit ==
  ASSUME ScheduleAssumption, HourAssumption, Init
  PROVE  ScheduleInv
<1>1. policy \in PolicySet /\ ValidPolicy(policy) /\ policy.renewBefore < ExpiresAt
  BY DEF Init, ScheduleAssumption
<1>2. PICK j \in JitterRange(policy) : next = NextRenewal(policy, ExpiresAt, j)
  BY DEF Init
<1>3. next \in Nat
  <2>1. j \in Nat
    BY <1>1, ValidTypes DEF JitterRange
  <2>. QED BY <1>1, <1>2, <2>1, ValidTypes DEF NextRenewal, ScheduleAssumption
<1>4. hour \in Int /\ hour * Hour <= next /\ (hour - 1) * Hour < next
  BY <1>3, HourAssumption DEF Init
<1>5. hour * Hour \in Int
  BY <1>4, HourAssumption
<1>6. policy.retryMax + Slack \in Int /\ 0 * (policy.retryMax + Slack) = 0
  BY <1>1, ValidTypes, HourAssumption DEF Slack
<1>7. TypeOK /\ tries = attempt /\ now < hour * Hour + Hour
  BY <1>1, <1>3, <1>4, <1>5, HourAssumption DEF Init, TypeOK
<1>. QED BY <1>3, <1>4, <1>6, <1>7 DEF Init, ScheduleInv

\* The timer moves the clock into the slot of its hour and nothing else.
LEMMA TimerKeeps ==
  ASSUME ScheduleAssumption, HourAssumption, ScheduleInv, TimerFires
  PROVE  ScheduleInv'
<1>1. PICK d \in TimerDelays : now' = hour * Hour + d
  BY DEF TimerFires
<1>2. d \in 0..(Hour - 1) /\ hour * Hour \in Int
  BY HourAssumption DEF ScheduleAssumption, ScheduleInv, TypeOK
<1>3. now' \in Int /\ now' < hour * Hour + Hour
  BY <1>1, <1>2, HourAssumption
<1>. QED BY <1>3 DEF TimerFires, ScheduleInv, TypeOK, Slack

\* A run before the renewal is due or inside the backoff is before the later of
\* the two; a try is at most the slack after it and sets the next by a delay.
LEMMA RunKeeps ==
  ASSUME ScheduleAssumption, HourAssumption, ScheduleInv, Run
  PROVE  ScheduleInv'
<1>. DEFINE M == policy.retryMax + Slack
            H == hour * Hour
            B == next + tries * M
            delay == RetryDelay(policy, attempt)
<1>1. /\ {hour, now, next, nextTry} \subseteq Int /\ {attempt, tries} \subseteq Nat
      /\ policy \in PolicySet /\ ValidPolicy(policy) /\ Hour \in Nat \ {0}
  BY HourAssumption DEF ScheduleInv, TypeOK, ScheduleAssumption
<1>2. /\ policy.retryMax \in Nat \ {0} /\ delay \in 1..policy.retryMax
      /\ delay \in Nat
  <2>1. delay \in policy.retryMin..policy.retryMax
    BY <1>1, RetryDelayBounded
  <2>. QED BY <1>1, <2>1, ValidTypes
<1>3. M \in Nat /\ M = policy.retryMax + Hour + Hour - 1 /\ H \in Int /\ B \in Int
  BY <1>1, <1>2 DEF Slack
<1>4. (hour - 1) * Hour = H - Hour /\ (hour' - 1) * Hour = H
      /\ hour' * Hour = H + Hour /\ hour' \in Int
  BY <1>1 DEF Run
<1>5. H <= now /\ now < H + Hour /\ (H - Hour < next \/ H - Hour < nextTry)
      /\ 0 <= next /\ nextTry <= B /\ tries = attempt
  BY <1>4 DEF Run, ScheduleInv
<1>6. next <= B
  <2>1. 0 <= tries * M
    BY <1>1, <1>3
  <2>2. tries * M \in Int
    BY <1>1, <1>3
  <2>. HIDE DEF M
  <2>. QED BY <1>1, <2>1, <2>2
<1>7. UNCHANGED <<policy, now, next>> /\ now' < hour' * Hour + Hour
  <2>1. UNCHANGED <<policy, now, next>>
    BY DEF Run
  <2>2. now < H + Hour /\ H + Hour \in Int /\ Hour \in Nat \ {0} /\ now \in Int
    BY <1>1, <1>3, <1>5
  <2>3. now < H + Hour + Hour
    <3>. HIDE DEF H
    <3>. QED BY <1>3, <2>2
  <2>. QED BY <1>4, <2>1, <2>3
<1>8. CASE nextTry > now \/ ~Due(now, next)
  <2>1. UNCHANGED <<attempt, nextTry, tries>> /\ (H < nextTry \/ H < next)
    <3>1. UNCHANGED <<attempt, nextTry, tries>>
      BY <1>8 DEF Run, RunOnce
    <3>. HIDE DEF H
    <3>. QED BY <1>1, <1>3, <1>5, <1>8, <3>1 DEF Due
  <2>2. nextTry' <= next' + tries' * (policy'.retryMax + Slack)
    BY <1>5, <1>7, <2>1
  <2>3. (hour' - 1) * Hour < next' \/ (hour' - 1) * Hour < nextTry'
    BY <1>4, <1>7, <2>1
  <2>4. TypeOK'
    BY <1>1, <1>4, <1>7, <2>1 DEF TypeOK
  <2>. QED BY <1>5, <1>7, <2>1, <2>2, <2>3, <2>4 DEF ScheduleInv, Slack
<1>9. CASE ~(nextTry > now \/ ~Due(now, next))
  <2>1. nextTry' = now + delay /\ attempt' = attempt + 1 /\ tries' = tries + 1
    BY <1>9 DEF Run, RunOnce
  <2>2. next + tries' * M = B + M
    BY <1>1, <1>3, <2>1
  <2>3. nextTry' \in Int /\ H < nextTry' /\ nextTry' <= B + M
    <3>. HIDE DEF H, B, M, delay
    <3>. QED BY <1>1, <1>2, <1>3, <1>5, <1>6, <2>1
  <2>4. nextTry' <= next' + tries' * (policy'.retryMax + Slack)
    BY <1>7, <2>2, <2>3
  <2>5. (hour' - 1) * Hour < next' \/ (hour' - 1) * Hour < nextTry'
    BY <1>4, <2>3
  <2>6. TypeOK' /\ tries' = attempt'
    BY <1>1, <1>4, <1>5, <1>7, <2>1, <2>3 DEF TypeOK
  <2>. QED BY <1>5, <1>7, <2>4, <2>5, <2>6 DEF ScheduleInv, Slack
<1>. QED BY <1>8, <1>9

\* The inductive invariant.
LEMMA ScheduleInvariant == Spec => []ScheduleInv
<1>1. ScheduleInv /\ [Next]_vars => ScheduleInv'
  <2>1. ASSUME ScheduleInv, UNCHANGED vars PROVE ScheduleInv'
    BY <2>1 DEF vars, ScheduleInv, TypeOK, Slack
  <2>. QED BY <2>1, TimerKeeps, RunKeeps, ScheduleAssumption, HourAssumption DEF Next
<1>. QED BY <1>1, ScheduleInit, ScheduleAssumption, HourAssumption, PTL DEF Spec

\* The backoff is the doubled minimum up to the maximum, one unit off at most,
\* after every number of failures.
THEOREM DelayIsDoubled == Spec => []DelayDoubles
<1>1. ScheduleInv => DelayDoubles
  <2>1. SUFFICES ASSUME ScheduleInv PROVE DelayDoubles
    OBVIOUS
  <2>2. attempt \in Nat /\ ValidPolicy(policy)
    BY <2>1, ScheduleAssumption DEF ScheduleInv, TypeOK, ScheduleAssumption
  <2>3. /\ RetryDelay(policy, attempt) = Loop(policy)[attempt]
        /\ Loop(policy)[attempt] \in Nat /\ Doubling(policy)[attempt] \in Nat
        /\ policy.retryMax \in Nat \ {0}
    BY <2>2, RetryDelayIsLoop, LoopSteps, DoublingSteps, ValidTypes
  <2>4. IF \E i \in 0..attempt : Doubling(policy)[i] >= policy.retryMax
        THEN Loop(policy)[attempt] = policy.retryMax
        ELSE \/ Loop(policy)[attempt] = Doubling(policy)[attempt]
             \/ /\ Loop(policy)[attempt] = policy.retryMax
                /\ Doubling(policy)[attempt] = policy.retryMax - 1
    BY <2>2, LoopDoubles
  <2>. QED BY <2>3, <2>4 DEF DelayDoubles, Doubled
<1>. QED BY <1>1, ScheduleInvariant, PTL

\* Every certificate whose renewal keeps failing is tried as often before its
\* expiry as the longest delay, two timer periods apart, allows.
THEOREM RenewalIsTried == Spec => []TriedBeforeExpiry
<1>1. ScheduleInv => TriedBeforeExpiry
  <2>1. SUFFICES ASSUME ScheduleInv, hour * Hour > ExpiresAt
                 PROVE  tries >= (ExpiresAt - next) \div (policy.retryMax + Slack)
    BY DEF TriedBeforeExpiry
  <2>. DEFINE M == policy.retryMax + Slack
              H == hour * Hour
              P == tries * M
  <2>2. /\ {hour, next, nextTry} \subseteq Int /\ tries \in Nat
        /\ ValidPolicy(policy) /\ Hour \in Nat \ {0} /\ ExpiresAt \in Nat
    BY <2>1, HourAssumption, ScheduleAssumption
       DEF ScheduleInv, TypeOK, ScheduleAssumption
  <2>3. M \in Nat \ {0} /\ Hour <= M
    BY <2>2, ValidTypes DEF Slack
  <2>4. H \in Int /\ P \in Int /\ 0 <= P /\ (hour - 1) * Hour = H - Hour
    BY <2>2, <2>3
  <2>5. (H - Hour < next \/ H - Hour < nextTry) /\ nextTry <= next + P
    BY <2>1, <2>4 DEF ScheduleInv
  <2>6. ExpiresAt - next < P + M
    <3>. HIDE DEF M, H, P
    <3>1. H > ExpiresAt
      BY <2>1 DEF H
    <3>. QED BY <2>2, <2>3, <2>4, <2>5, <3>1
  <2>7. ExpiresAt - next < (tries + 1) * M
    BY <2>2, <2>3, <2>6
  <2>8. ASSUME NEW e \in Int, NEW m \in Nat \ {0}, NEW t \in Nat, e < (t + 1) * m
        PROVE  t >= e \div m
    <3>1. e \div m \in Int /\ m * (e \div m) <= e
      BY <2>8
    <3>2. m * (e \div m) < m * (t + 1)
      BY <2>8, <3>1
    <3>. QED BY <2>8, <3>1, <3>2
  <2>. HIDE DEF M
  <2>9. tries >= (ExpiresAt - next) \div M
    BY <2>2, <2>3, <2>7, <2>8
  <2>. QED BY <2>9 DEF M
<1>. QED BY <1>1, ScheduleInvariant, PTL
=============================================================================
