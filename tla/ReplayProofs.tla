---------------------------- MODULE ReplayProofs ----------------------------
(***************************************************************************)
(* Proofs about the two algorithms the transitions of a workflow rest on,  *)
(* the delay before a retry and the replay of a history, and what the      *)
(* constructors of transitions and the processors return, which every      *)
(* specification that runs them needs.                                     *)
(***************************************************************************)
EXTENDS Processors, NaturalFacts

-----------------------------------------------------------------------------
(* Powers of two, and what the recursion of retryDelay computes.           *)

(* The recursive definition of Pow2 has a solution, which is Pow2.         *)
LEMMA Pow2Defined ==
    /\ Pow2 \in [Nat -> Nat]
    /\ Pow2[0] = 1
    /\ \A n \in Nat : Pow2[n + 1] = 2 * Pow2[n]
<1> DEFINE twice == [n \in Nat |-> [x \in Nat |-> 2 * x]]
<1> DEFINE Solves(f) == f = [n \in Nat |-> IF n = 0 THEN 1 ELSE 2 * f[n - 1]]
<1>1. twice \in [Nat -> [Nat -> Nat]]
  OBVIOUS
<1>2. PICK f : Iterates(f, Nat, 1, twice)
  <2> HIDE DEF twice
  <2> QED
    BY <1>1, Recursion
<1>3. Solves(f)
  <2>1. ASSUME NEW n \in Nat
        PROVE  f[n] = IF n = 0 THEN 1 ELSE 2 * f[n - 1]
    <3>1. CASE n = 0
      BY <1>2, <3>1 DEF Iterates
    <3>2. CASE n # 0
      <4>1. n - 1 \in Nat /\ (n - 1) + 1 = n
        BY <3>2
      <4> QED
        BY <1>2, <3>2, <4>1 DEF Iterates
    <3> QED
      BY <3>1, <3>2
  <2> QED
    BY <1>2, <2>1 DEF Iterates
<1>4. Solves(Pow2)
  <2> HIDE DEF Solves
  <2>1. Pow2 = CHOOSE g : Solves(g)
    BY DEF Pow2, Solves
  <2> QED
    BY <1>3, <2>1
<1>5. Pow2[0] = 1 /\ \A n \in Nat : Pow2[n + 1] = 2 * Pow2[n]
  BY <1>4
<1>6. \A n \in Nat : Pow2[n] \in Nat
  <2> DEFINE S == {n \in Nat : Pow2[n] \in Nat}
  <2>1. 0 \in S /\ \A n \in Nat : n \in S => n + 1 \in S
    BY <1>5
  <2> HIDE DEF S
  <2>2. \A n \in Nat : n \in S
    BY <2>1, SetInduction
  <2> USE DEF S
  <2> QED
    BY <2>2
<1>7. Pow2 = [n \in Nat |-> IF n = 0 THEN 1 ELSE 2 * Pow2[n - 1]]
  BY <1>4
<1> QED
  BY <1>5, <1>6, <1>7

(* Powers of two are positive and grow with their exponent.                *)
LEMMA Pow2Grows ==
    /\ \A n \in Nat : Pow2[n] \in Nat \ {0}
    /\ \A m, n \in Nat : Pow2[m] <= Pow2[m + n]
<1> DEFINE S == {n \in Nat : Pow2[n] \in Nat \ {0}}
<1>1. \A n \in Nat : n \in S
  <2>1. 0 \in S /\ \A n \in Nat : n \in S => n + 1 \in S
    BY Pow2Defined
  <2> HIDE DEF S
  <2> QED
    BY <2>1, SetInduction
<1>2. ASSUME NEW m \in Nat
      PROVE  \A n \in Nat : Pow2[m] <= Pow2[m + n]
  <2> DEFINE T == {n \in Nat : Pow2[m] <= Pow2[m + n]}
  <2>1. 0 \in T
    BY Pow2Defined
  <2>2. ASSUME NEW n \in Nat, n \in T
        PROVE  n + 1 \in T
    <3>1. m + n \in Nat /\ m + (n + 1) = (m + n) + 1
      OBVIOUS
    <3>2. Pow2[m + (n + 1)] = 2 * Pow2[m + n]
      BY <3>1, Pow2Defined
    <3>3. Pow2[m] \in Nat /\ Pow2[m + n] \in Nat /\ Pow2[m + (n + 1)] \in Nat
      BY <3>1, Pow2Defined
    <3> QED
      BY <2>2, <3>2, <3>3
  <2>3. \A n \in Nat : n \in T
    <3> HIDE DEF T
    <3> QED
      BY <2>1, <2>2, SetInduction
  <2> QED
    BY <2>3
<1> QED
  BY <1>1, <1>2

(* The doubling of a delay that is a time.Duration stays in its word.      *)
LEMMA DoubledExact ==
    ASSUME NEW cap \in 0 .. MaxDuration, NEW delay \in 0 .. cap
    PROVE  Doubled(delay, cap) = Least(2 * delay, cap)
<1>1. DurationBits - 1 \in Nat /\ (DurationBits - 1) + 1 = DurationBits
  BY DurationBitsAssumption
<1>2. Pow2[DurationBits] = 2 * Pow2[DurationBits - 1] /\ Pow2[DurationBits - 1] \in Nat
  BY <1>1, Pow2Defined
<1> DEFINE word == Pow2[DurationBits]
<1>3. word \in Nat /\ 2 * delay \in Nat /\ 2 * delay < word
  BY <1>2 DEF MaxDuration
<1>4. (2 * delay) % word = 2 * delay
  <2> HIDE DEF word
  <2> QED
    BY <1>3
<1> QED
  BY <1>4 DEF Doubled

(* The function retryDelay iterates.                                       *)
DelayFunction(policy) ==
    CHOOSE g : g = [n \in 0 .. DurationBits - 1 |->
                      IF n = 0 THEN policy.initialDelay
                               ELSE Doubled(g[n - 1], policy.maxDelay)]

(* The loop of retryDelay is defined by its recursion.                     *)
LEMMA DelayFunctionDefined ==
    ASSUME NEW policy \in Policies, validRetry(policy)
    PROVE  /\ DelayFunction(policy)[0] = policy.initialDelay
           /\ \A n \in 0 .. DurationBits - 2 :
                 DelayFunction(policy)[n + 1] = Doubled(DelayFunction(policy)[n], policy.maxDelay)
<1> DEFINE cap == policy.maxDelay
<1> DEFINE V == 0 .. cap
<1> DEFINE next == [n \in Nat |-> [x \in V |-> Doubled(x, cap)]]
<1> DEFINE Solves(g) == g = [n \in 0 .. DurationBits - 1 |->
                               IF n = 0 THEN policy.initialDelay
                                        ELSE Doubled(g[n - 1], policy.maxDelay)]
<1>1. cap \in 0 .. MaxDuration /\ policy.initialDelay \in V
  <2>1. MaxDuration \in Int
    <3>1. DurationBits - 1 \in Nat
      BY DurationBitsAssumption
    <3> QED
      BY <3>1, Pow2Defined DEF MaxDuration
  <2> QED
    BY <2>1 DEF Policies, validRetry
<1>2. next \in [Nat -> [V -> V]]
  <2>1. MaxDuration \in Int
    <3>1. DurationBits - 1 \in Nat
      BY DurationBitsAssumption
    <3> QED
      BY <3>1, Pow2Defined DEF MaxDuration
  <2>2. ASSUME NEW x \in V PROVE Doubled(x, cap) \in V
    BY <1>1, <2>1, DoubledExact DEF Least
  <2> QED
    BY <2>2
<1>3. PICK f : Iterates(f, V, policy.initialDelay, next)
  <2> HIDE DEF next, V
  <2> QED
    BY <1>1, <1>2, Recursion
<1> DEFINE g == [n \in 0 .. DurationBits - 1 |-> f[n]]
<1>4. Solves(g)
  <2>1. ASSUME NEW n \in 0 .. DurationBits - 1
        PROVE  g[n] = IF n = 0 THEN policy.initialDelay ELSE Doubled(g[n - 1], cap)
    <3>1. CASE n = 0
      BY <1>3, <3>1 DEF Iterates
    <3>2. CASE n # 0
      <4>1. n - 1 \in Nat /\ (n - 1) + 1 = n /\ n - 1 \in 0 .. DurationBits - 1
        BY <3>2, DurationBitsAssumption
      <4>2. f[n] = next[n - 1][f[n - 1]] /\ f[n - 1] \in V
        <5> HIDE DEF next, V, g
        <5>1. f[(n - 1) + 1] = next[n - 1][f[n - 1]]
          BY <1>3, <4>1 DEF Iterates
        <5> QED
          BY <1>3, <4>1, <5>1 DEF Iterates
      <4> QED
        BY <3>2, <4>1, <4>2
    <3> QED
      BY <3>1, <3>2
  <2> HIDE DEF g
  <2>2. g = [n \in 0 .. DurationBits - 1 |-> g[n]]
    BY DEF g
  <2> QED
    BY <2>1, <2>2
<1>5. Solves(DelayFunction(policy))
  <2>1. DelayFunction(policy) = CHOOSE h : Solves(h)
    BY DEF DelayFunction
  <2> HIDE DEF Solves, g
  <2> QED
    BY <1>4, <2>1
<1> DEFINE d == DelayFunction(policy)
<1>6. d = [n \in 0 .. DurationBits - 1 |->
             IF n = 0 THEN policy.initialDelay ELSE Doubled(d[n - 1], policy.maxDelay)]
  BY <1>5
<1> HIDE DEF d
<1>7. d[0] = policy.initialDelay
  <2>1. 0 \in 0 .. DurationBits - 1
    BY DurationBitsAssumption
  <2> QED
    BY <1>6, <2>1
<1>8. ASSUME NEW n \in 0 .. DurationBits - 2
      PROVE  d[n + 1] = Doubled(d[n], policy.maxDelay)
  <2>1. n + 1 \in 0 .. DurationBits - 1 /\ n + 1 # 0 /\ (n + 1) - 1 = n
    BY DurationBitsAssumption
  <2> QED
    BY <1>6, <2>1
<1> QED
  BY <1>7, <1>8 DEF d

(* Every value of the iteration is the capped power, without wrapping.     *)
LEMMA DelayFunctionExact ==
    ASSUME NEW policy \in Policies, validRetry(policy), NEW n \in 0 .. DurationBits - 1
    PROVE  DelayFunction(policy)[n] = Least(policy.initialDelay * Pow2[n], policy.maxDelay)
<1> DEFINE d == DelayFunction(policy)
<1> DEFINE i == policy.initialDelay
<1> DEFINE cap == policy.maxDelay
<1> DEFINE S == {m \in Nat : m <= DurationBits - 1 => d[m] = Least(i * Pow2[m], cap)}
<1>1. cap \in 0 .. MaxDuration /\ i \in 1 .. cap /\ cap \in Nat
  <2>1. MaxDuration \in Int
    <3>1. DurationBits - 1 \in Nat
      BY DurationBitsAssumption
    <3> QED
      BY <3>1, Pow2Defined DEF MaxDuration
  <2> QED
    BY <2>1 DEF Policies, validRetry
<1>2. d[0] = i /\ \A m \in 0 .. DurationBits - 2 : d[m + 1] = Doubled(d[m], cap)
  BY DelayFunctionDefined
<1> HIDE DEF d, i, cap
<1>3. 0 \in S
  BY <1>1, <1>2, Pow2Defined DEF Least
<1>4. ASSUME NEW m \in Nat, m \in S
      PROVE  m + 1 \in S
  <2> SUFFICES ASSUME m + 1 <= DurationBits - 1
               PROVE  d[m + 1] = Least(i * Pow2[m + 1], cap)
    OBVIOUS
  <2>1. m \in 0 .. DurationBits - 2 /\ m <= DurationBits - 1
    BY DurationBitsAssumption
  <2>2. Pow2[m + 1] = 2 * Pow2[m] /\ Pow2[m] \in Nat
    BY Pow2Defined
  <2> DEFINE x == i * Pow2[m]
  <2>3. x \in Nat /\ i * Pow2[m + 1] = 2 * x
    BY <1>1, <2>2
  <2>4. d[m] = Least(x, cap)
    BY <1>4, <2>1
  <2> HIDE DEF x
  <2>5. d[m] \in 0 .. cap
    BY <1>1, <2>3, <2>4 DEF Least
  <2>6. d[m + 1] = Least(2 * d[m], cap)
    BY <1>1, <1>2, <2>1, <2>5, DoubledExact
  <2>7. Least(2 * Least(x, cap), cap) = Least(2 * x, cap)
    BY <1>1, <2>3 DEF Least
  <2> QED
    BY <2>3, <2>4, <2>6, <2>7
<1>5. \A m \in Nat : m \in S
  <2> HIDE DEF S
  <2> QED
    BY <1>3, <1>4, SetInduction
<1>6. n \in Nat /\ n <= DurationBits - 1
  BY DurationBitsAssumption
<1>7. d[n] = Least(i * Pow2[n], cap)
  BY <1>5, <1>6
<1> QED
  BY <1>7 DEF d, i, cap

(* retryDelay looks its value up in that function, at an index that stops  *)
(* growing with the width of the word.                                     *)
LEMMA RetryDelayIndexed ==
    ASSUME NEW policy, NEW attempt
    PROVE  retryDelay(policy, attempt) =
               DelayFunction(policy)[Least(attempt - 1, DurationBits - 1)]
  BY DEF retryDelay, DelayFunction

(* For every policy a definition may hold and every attempt number, the    *)
(* delay computed in machine words is the exponential capped by MaxDelay:  *)
(* the doubling of retryDelay never wraps, and stopping after one doubling *)
(* per bit of the word changes nothing.                                    *)
THEOREM RetryDelayExact ==
    ASSUME NEW policy \in Policies, validRetry(policy), NEW attempt \in Nat \ {0}
    PROVE  CappedExponential(policy, attempt)
<1> DEFINE i == policy.initialDelay
<1> DEFINE cap == policy.maxDelay
<1> DEFINE top == DurationBits - 1
<1>1. top \in Nat /\ attempt - 1 \in Nat /\ Pow2[top] \in Nat
  BY DurationBitsAssumption, Pow2Defined
<1>2. cap \in Nat /\ i \in Nat /\ i >= 1 /\ i <= cap /\ cap <= Pow2[top] - 1
  <2>1. MaxDuration \in Int /\ MaxDuration = Pow2[top] - 1
    BY <1>1 DEF MaxDuration
  <2> QED
    BY <2>1 DEF Policies, validRetry
<1> HIDE DEF i, cap, top
<1>3. CASE attempt - 1 <= top
  <2>1. Least(attempt - 1, DurationBits - 1) = attempt - 1 /\ attempt - 1 \in 0 .. DurationBits - 1
    BY <1>1, <1>3 DEF Least, top
  <2> QED
    BY <2>1, RetryDelayIndexed, DelayFunctionExact DEF CappedExponential
<1>4. CASE ~(attempt - 1 <= top)
  <2>1. Least(attempt - 1, DurationBits - 1) = top /\ top \in 0 .. DurationBits - 1
    BY <1>1, <1>4 DEF Least, top
  <2>2. retryDelay(policy, attempt) = Least(i * Pow2[top], cap)
    BY <2>1, RetryDelayIndexed, DelayFunctionExact DEF i, cap
  <2>3. i * Pow2[top] >= Pow2[top]
    BY <1>1, <1>2
  <2>4. retryDelay(policy, attempt) = cap
    <3> DEFINE y == i * Pow2[top]
    <3>1. y \in Nat /\ y >= Pow2[top]
      BY <1>1, <1>2, <2>3
    <3> HIDE DEF y
    <3>2. Least(y, cap) = cap
      BY <1>1, <1>2, <3>1 DEF Least
    <3> QED
      BY <2>2, <3>2 DEF y
  <2>5. Pow2[attempt - 1] \in Nat /\ Pow2[attempt - 1] >= Pow2[top]
    <3>1. (attempt - 1) - top \in Nat /\ top + ((attempt - 1) - top) = attempt - 1
      BY <1>1, <1>4
    <3>2. Pow2[top] <= Pow2[top + ((attempt - 1) - top)]
      BY <1>1, <3>1, Pow2Grows
    <3> QED
      BY <1>1, <3>1, <3>2, Pow2Defined
  <2>6. i * Pow2[attempt - 1] \in Nat /\ i * Pow2[attempt - 1] >= Pow2[attempt - 1]
    BY <1>2, <2>5
  <2>7. Least(i * Pow2[attempt - 1], cap) = cap
    <3> DEFINE y == i * Pow2[attempt - 1]
    <3>1. y \in Nat /\ y >= Pow2[top]
      BY <1>1, <2>5, <2>6
    <3> HIDE DEF y
    <3>2. Least(y, cap) = cap
      BY <1>1, <1>2, <3>1 DEF Least
    <3> QED
      BY <3>2 DEF y
  <2> QED
    BY <2>4, <2>7 DEF CappedExponential, i, cap
<1> QED
  BY <1>3, <1>4

(* The delay of the policy of units is a natural number.                   *)
LEMMA RetryDelayBounded ==
    ASSUME NEW attempt \in Nat \ {0}
    PROVE  retryDelay(Policy, attempt) \in Nat
<1>1. Policy \in Policies /\ validRetry(Policy)
  BY PolicyAssumption
<1>2. MaxDuration \in Int
  <2>1. DurationBits - 1 \in Nat
    BY DurationBitsAssumption
  <2> QED
    BY <2>1, Pow2Defined DEF MaxDuration
<1>3. Policy.initialDelay \in Nat /\ Policy.maxDelay \in Nat
  BY <1>1, <1>2 DEF Policies
<1>4. Pow2[attempt - 1] \in Nat
  <2>1. attempt - 1 \in Nat
    OBVIOUS
  <2> QED
    BY <2>1, Pow2Defined
<1>5. Policy.initialDelay * Pow2[attempt - 1] \in Nat
  BY <1>3, <1>4
<1>6. retryDelay(Policy, attempt) = Least(Policy.initialDelay * Pow2[attempt - 1], Policy.maxDelay)
  BY <1>1, RetryDelayExact DEF CappedExponential
<1> QED
  BY <1>3, <1>5, <1>6 DEF Least

-----------------------------------------------------------------------------
(* Replay of the events of one transition.                                 *)

(* The function Appended iterates.                                         *)
Replayed(inst, events) ==
    CHOOSE g : g = [n \in 0 .. Len(events) |->
                      IF n = 0 THEN inst ELSE Apply(g[n - 1], events[n])]

(* Replay is the last of the instances it runs through.                    *)
LEMMA AppendedIndexed ==
    ASSUME NEW inst, NEW events
    PROVE  Appended(inst, events) = Replayed(inst, events)[Len(events)]
  BY DEF Appended, Replayed

(* Appending one event applies it.                                         *)
LEMMA AppendedOne ==
    ASSUME NEW inst, NEW e
    PROVE  Appended(inst, <<e>>) = Apply(inst, e)
<1> DEFINE Solves(h) == h = [n \in 0 .. Len(<<e>>) |->
                               IF n = 0 THEN inst ELSE Apply(h[n - 1], <<e>>[n])]
<1> DEFINE g == [n \in 0 .. Len(<<e>>) |-> IF n = 0 THEN inst ELSE Apply(inst, e)]
<1>1. Len(<<e>>) = 1 /\ <<e>>[1] = e
  OBVIOUS
<1>2. Solves(g)
  <2>1. ASSUME NEW n \in 0 .. Len(<<e>>)
        PROVE  g[n] = IF n = 0 THEN inst ELSE Apply(g[n - 1], <<e>>[n])
    <3>1. n = 0 \/ n = 1
      BY <1>1
    <3> QED
      BY <1>1, <3>1
  <2>2. g = [n \in 0 .. Len(<<e>>) |-> g[n]]
    OBVIOUS
  <2> HIDE DEF g
  <2> QED
    BY <2>1, <2>2
<1> DEFINE r == Replayed(inst, <<e>>)
<1>3. Solves(r)
  <2>1. r = CHOOSE h : Solves(h)
    BY DEF Replayed
  <2> HIDE DEF Solves, g, r
  <2> QED
    BY <1>2, <2>1
<1> HIDE DEF r
<1>4. r[0] = inst /\ r[1] = Apply(r[0], e)
  <2>1. 0 \in 0 .. Len(<<e>>) /\ 1 \in 0 .. Len(<<e>>) /\ 1 - 1 = 0 /\ 1 # 0
    BY <1>1
  <2>2. r = [n \in 0 .. Len(<<e>>) |-> IF n = 0 THEN inst ELSE Apply(r[n - 1], <<e>>[n])]
    BY <1>3
  <2> QED
    BY <1>1, <2>1, <2>2
<1>5. Appended(inst, <<e>>) = r[1]
  BY <1>1, AppendedIndexed DEF r
<1> QED
  BY <1>4, <1>5

(* Appending two events applies one and then the other.                    *)
LEMMA AppendedTwo ==
    ASSUME NEW inst, NEW e, NEW f
    PROVE  Appended(inst, <<e, f>>) = Apply(Apply(inst, e), f)
<1> DEFINE Solves(h) == h = [n \in 0 .. Len(<<e, f>>) |->
                               IF n = 0 THEN inst ELSE Apply(h[n - 1], <<e, f>>[n])]
<1> DEFINE g == [n \in 0 .. Len(<<e, f>>) |->
                   IF n = 0 THEN inst
                   ELSE IF n = 1 THEN Apply(inst, e) ELSE Apply(Apply(inst, e), f)]
<1>1. Len(<<e, f>>) = 2 /\ <<e, f>>[1] = e /\ <<e, f>>[2] = f
  OBVIOUS
<1>2. Solves(g)
  <2>1. ASSUME NEW n \in 0 .. Len(<<e, f>>)
        PROVE  g[n] = IF n = 0 THEN inst ELSE Apply(g[n - 1], <<e, f>>[n])
    <3>1. n = 0 \/ n = 1 \/ n = 2
      BY <1>1
    <3> QED
      BY <1>1, <3>1
  <2>2. g = [n \in 0 .. Len(<<e, f>>) |-> g[n]]
    OBVIOUS
  <2> HIDE DEF g
  <2> QED
    BY <2>1, <2>2
<1> DEFINE r == Replayed(inst, <<e, f>>)
<1>3. Solves(r)
  <2>1. r = CHOOSE h : Solves(h)
    BY DEF Replayed
  <2> HIDE DEF Solves, g, r
  <2> QED
    BY <1>2, <2>1
<1> HIDE DEF r
<1>4. r[0] = inst /\ r[1] = Apply(r[0], e) /\ r[2] = Apply(r[1], f)
  <2>1. /\ 0 \in 0 .. Len(<<e, f>>) /\ 1 \in 0 .. Len(<<e, f>>) /\ 2 \in 0 .. Len(<<e, f>>)
        /\ 1 - 1 = 0 /\ 1 # 0 /\ 2 - 1 = 1 /\ 2 # 0
    BY <1>1
  <2>2. r = [n \in 0 .. Len(<<e, f>>) |-> IF n = 0 THEN inst ELSE Apply(r[n - 1], <<e, f>>[n])]
    BY <1>3
  <2> QED
    BY <1>1, <2>1, <2>2
<1>5. Appended(inst, <<e, f>>) = r[2]
  BY <1>1, AppendedIndexed DEF r
<1> QED
  BY <1>4, <1>5

-----------------------------------------------------------------------------
(* What an accepted event does to the progress of its unit: from p to q.   *)

Scheduling(p, q) == p.status = "none" /\ q = [NoProgress EXCEPT !.status = "ready"]

Starting(p, q, e) ==
    /\ AttemptStarts(p, e)
    /\ q = [status |-> "running", attempt |-> e.attempt, key |-> e.key,
            dueAt |-> e.dueAt, retryable |-> FALSE]

Ending(p, q, e) ==
    /\ activityOutcomeAllowed(p, e)
    /\ q = [p EXCEPT !.status = e.kind, !.dueAt = 0, !.retryable = e.retryable]

Activating(p, q, e) ==
    /\ activityOutcomeAllowed(p, e)
    /\ q = [p EXCEPT !.status = "active", !.dueAt = 0]

Retrying(p, q, e) ==
    RetryFollows(p, e) /\ q = [p EXCEPT !.status = "retryWaiting", !.dueAt = e.dueAt]

Resolving(p, q) ==
    /\ p.status \in {"failed", "unknown"}
    /\ q = [p EXCEPT !.status = "manuallyResolved", !.retryable = FALSE]

Reporting(p, q, status) ==
    childTerminalOutcomeAllowed(p.status) /\ q = [p EXCEPT !.status = status]

(* The move of a unit of kind k.                                           *)
Move(k, p, q, e) ==
    \/ e.kind = "scheduled" /\ Scheduling(p, q)
    \/ e.kind = "attemptStarted" /\ Starting(p, q, e)
    \/ e.kind \in {"failed", "unknown"} /\ Ending(p, q, e)
    \/ e.kind = "succeeded" /\ k # "child" /\ Ending(p, q, e)
    \/ e.kind = "started" /\ k = "child" /\ Activating(p, q, e)
    \/ e.kind = "retryScheduled" /\ Retrying(p, q, e)
    \/ e.kind = "manuallyResolved" /\ k = "compensation" /\ Resolving(p, q)
    \/ e.kind = "childCompleted" /\ k = "child" /\ Reporting(p, q, "succeeded")
    \/ e.kind = "childFailed" /\ k = "child" /\ Reporting(p, q, "childFailed")

(* applyActivity by kinds of events.                                       *)
LEMMA ActivityApplied ==
    ASSUME NEW p, NEW e
    PROVE  /\ e.kind = "scheduled" => applyActivity(p, e) = [NoProgress EXCEPT !.status = "ready"]
           /\ e.kind = "attemptStarted" =>
                 applyActivity(p, e) =
                     [status |-> "running", attempt |-> e.attempt, key |-> e.key,
                      dueAt |-> e.dueAt, retryable |-> FALSE]
           /\ e.kind \in OutcomeKinds =>
                 applyActivity(p, e) =
                     [p EXCEPT !.status = e.kind, !.dueAt = 0, !.retryable = e.retryable]
           /\ e.kind = "retryScheduled" =>
                 applyActivity(p, e) = [p EXCEPT !.status = "retryWaiting", !.dueAt = e.dueAt]
<1>1. CASE e.kind = "scheduled"
  <2>1. applyActivity(p, e) = [NoProgress EXCEPT !.status = "ready"]
    BY <1>1, Zenon DEF applyActivity, OutcomeKinds
  <2> QED
    BY <1>1, <2>1 DEF OutcomeKinds
<1>2. CASE e.kind = "attemptStarted"
  <2>1. applyActivity(p, e) = [status |-> "running", attempt |-> e.attempt, key |-> e.key,
                               dueAt |-> e.dueAt, retryable |-> FALSE]
    BY <1>2, Zenon DEF applyActivity, OutcomeKinds
  <2> QED
    BY <1>2, <2>1 DEF OutcomeKinds
<1>3. CASE e.kind \in OutcomeKinds
  <2>1. e.kind # "scheduled" /\ e.kind # "attemptStarted" /\ e.kind # "retryScheduled"
    BY <1>3 DEF OutcomeKinds
  <2>2. applyActivity(p, e) = [p EXCEPT !.status = e.kind, !.dueAt = 0, !.retryable = e.retryable]
    BY <1>3, <2>1, Zenon DEF applyActivity
  <2> QED
    BY <2>1, <2>2
<1>4. CASE e.kind = "retryScheduled"
  <2>1. applyActivity(p, e) = [p EXCEPT !.status = "retryWaiting", !.dueAt = e.dueAt]
    BY <1>4, Zenon DEF applyActivity, OutcomeKinds
  <2> QED
    BY <1>4, <2>1 DEF OutcomeKinds
<1> QED
  BY <1>1, <1>2, <1>3, <1>4

(* applyChild by kinds of events.                                          *)
LEMMA ChildApplied ==
    ASSUME NEW p, NEW e
    PROVE  /\ e.kind = "started" => applyChild(p, e) = [p EXCEPT !.status = "active", !.dueAt = 0]
           /\ e.kind = "childCompleted" => applyChild(p, e) = [p EXCEPT !.status = "succeeded"]
           /\ e.kind = "childFailed" => applyChild(p, e) = [p EXCEPT !.status = "childFailed"]
           /\ e.kind \notin {"started", "childCompleted", "childFailed"} =>
                 applyChild(p, e) = applyActivity(p, e)
<1>1. CASE e.kind = "started"
  <2>1. applyChild(p, e) = [p EXCEPT !.status = "active", !.dueAt = 0]
    BY <1>1, Zenon DEF applyChild
  <2> QED
    BY <1>1, <2>1
<1>2. CASE e.kind = "childCompleted"
  <2>1. applyChild(p, e) = [p EXCEPT !.status = "succeeded"]
    BY <1>2, Zenon DEF applyChild
  <2> QED
    BY <1>2, <2>1
<1>3. CASE e.kind = "childFailed"
  <2>1. applyChild(p, e) = [p EXCEPT !.status = "childFailed"]
    BY <1>3, Zenon DEF applyChild
  <2> QED
    BY <1>3, <2>1
<1>4. CASE e.kind \notin {"started", "childCompleted", "childFailed"}
  <2>1. applyChild(p, e) = applyActivity(p, e)
    BY <1>4, Zenon DEF applyChild
  <2> QED
    BY <1>4, <2>1
<1> QED
  BY <1>1, <1>2, <1>3, <1>4

(* A step is of one kind.                                                  *)
LEMMA StepsApart ==
    /\ \A s \in Units : s \in DOMAIN Kind /\ s \notin Waits /\ s # ""
    /\ \A s \in Waits : s \in DOMAIN Kind /\ s \notin Units /\ s # ""
    /\ \A u \in Units : Kind[u] \in {"activity", "compensation", "child"}
  BY KindAssumption DEF Units, Waits, UnitKinds, WaitKinds

UnitAccepts(inst, e) ==
    \/ Kind[e.step] = "activity" /\ ActivityAccepts(inst, e)
    \/ Kind[e.step] = "compensation" /\ CompensationAccepts(inst, e)
    \/ Kind[e.step] = "child" /\ ChildAccepts(inst, e)

InstanceAccepts(inst, e) ==
    \/ e.kind \in LifecycleKinds /\ inst.status \in LifecycleFrom[e.kind]
    \/ e.kind = "operatorRecorded" /\ inst.pendingOperator = NoAction

(* What apply asks of every event.                                         *)
Timely(inst, e) ==
    /\ e.at >= inst.updatedAt
    /\ inst.status \notin Terminal
    /\ inst.pendingOperator # NoAction =>
          EventKind(e) = operatorEventKind[inst.pendingOperator]

(* What replay asks of an event about a unit.                              *)
LEMMA AcceptsUnit ==
    ASSUME NEW inst, NEW e, e.step \in Units
    PROVE  Accepts(inst, e) <=> Timely(inst, e) /\ UnitAccepts(inst, e)
<1>1. e.step \notin Waits
  BY StepsApart
<1> QED
  BY <1>1, Zenon DEF Accepts, Timely, UnitAccepts

(* What replay asks of an event about the instance.                        *)
LEMMA AcceptsInstance ==
    ASSUME NEW inst, NEW e, e.step = ""
    PROVE  Accepts(inst, e) <=> Timely(inst, e) /\ InstanceAccepts(inst, e)
<1>1. e.step \notin Waits /\ e.step \notin Units
  BY StepsApart
<1> QED
  BY <1>1, Zenon DEF Accepts, Timely, InstanceAccepts

(* What replay makes of a unit, by its kind.                               *)
LEMMA UnitApplied ==
    ASSUME NEW u \in Units, NEW p, NEW e
    PROVE  /\ Kind[u] = "activity" => ApplyUnit(u, p, e) = applyActivity(p, e)
           /\ Kind[u] = "compensation" => ApplyUnit(u, p, e) = applyCompensation(p, e)
           /\ Kind[u] = "child" => ApplyUnit(u, p, e) = applyChild(p, e)
<1>1. CASE Kind[u] = "activity"
  <2>1. ApplyUnit(u, p, e) = applyActivity(p, e)
    BY <1>1, Zenon DEF ApplyUnit
  <2> QED
    BY <1>1, <2>1
<1>2. CASE Kind[u] = "compensation"
  <2>1. ApplyUnit(u, p, e) = applyCompensation(p, e)
    BY <1>2, Zenon DEF ApplyUnit
  <2> QED
    BY <1>2, <2>1
<1>3. CASE Kind[u] = "child"
  <2>1. ApplyUnit(u, p, e) = applyChild(p, e)
    BY <1>3, Zenon DEF ApplyUnit
  <2> QED
    BY <1>3, <2>1
<1> QED
  BY <1>1, <1>2, <1>3, StepsApart

(* The moves that all kinds of units share.                                *)
LEMMA AttemptMoves ==
    ASSUME NEW k, NEW p, NEW e,
           \/ e.kind = "scheduled" /\ p.status = "none"
           \/ e.kind = "attemptStarted" /\ AttemptStarts(p, e)
           \/ e.kind \in OutcomeKinds /\ activityOutcomeAllowed(p, e)
           \/ e.kind = "retryScheduled" /\ RetryFollows(p, e),
           e.kind = "succeeded" => k # "child"
    PROVE  Move(k, p, applyActivity(p, e), e)
<1> DEFINE q == applyActivity(p, e)
<1> SUFFICES Move(k, p, q, e)
  OBVIOUS
<1>0. /\ e.kind = "scheduled" => q = [NoProgress EXCEPT !.status = "ready"]
      /\ e.kind = "attemptStarted" =>
            q = [status |-> "running", attempt |-> e.attempt, key |-> e.key,
                 dueAt |-> e.dueAt, retryable |-> FALSE]
      /\ e.kind \in OutcomeKinds =>
            q = [p EXCEPT !.status = e.kind, !.dueAt = 0, !.retryable = e.retryable]
      /\ e.kind = "retryScheduled" => q = [p EXCEPT !.status = "retryWaiting", !.dueAt = e.dueAt]
  BY ActivityApplied
<1> HIDE DEF q
<1>1. CASE e.kind = "scheduled" /\ p.status = "none"
  <2>1. Scheduling(p, q)
    BY <1>0, <1>1 DEF Scheduling
  <2> QED
    BY <1>1, <2>1 DEF Move
<1>2. CASE e.kind = "attemptStarted" /\ AttemptStarts(p, e)
  <2>1. Starting(p, q, e)
    BY <1>0, <1>2 DEF Starting
  <2> QED
    BY <1>2, <2>1 DEF Move
<1>3. CASE e.kind \in OutcomeKinds /\ activityOutcomeAllowed(p, e)
  <2>1. Ending(p, q, e)
    BY <1>0, <1>3 DEF Ending
  <2> QED
    BY <1>3, <2>1 DEF Move, OutcomeKinds
<1>4. CASE e.kind = "retryScheduled" /\ RetryFollows(p, e)
  <2>1. Retrying(p, q, e)
    BY <1>0, <1>4 DEF Retrying
  <2> QED
    BY <1>4, <2>1 DEF Move
<1> QED
  BY <1>1, <1>2, <1>3, <1>4

(* What a unit accepts, moves it.                                          *)
LEMMA UnitMoves ==
    ASSUME NEW inst, NEW e, e.step \in Units, UnitAccepts(inst, e)
    PROVE  Move(Kind[e.step], inst.units[e.step], ApplyUnit(e.step, inst.units[e.step], e), e)
<1> DEFINE u == e.step
<1> DEFINE p == inst.units[u]
<1> DEFINE q == ApplyUnit(u, p, e)
<1> SUFFICES Move(Kind[u], p, q, e)
  OBVIOUS
<1>1. CASE Kind[u] = "activity" /\ ActivityAccepts(inst, e)
  <2>1. q = applyActivity(p, e)
    BY <1>1, UnitApplied
  <2>2. \/ e.kind = "scheduled" /\ p.status = "none"
        \/ e.kind = "attemptStarted" /\ AttemptStarts(p, e)
        \/ e.kind \in OutcomeKinds /\ activityOutcomeAllowed(p, e)
        \/ e.kind = "retryScheduled" /\ RetryFollows(p, e)
    BY <1>1 DEF ActivityAccepts
  <2> HIDE DEF u, p, q
  <2> QED
    BY <1>1, <2>1, <2>2, AttemptMoves
<1>2. CASE Kind[u] = "compensation" /\ CompensationAccepts(inst, e)
  <2>1. q = applyCompensation(p, e)
    BY <1>2, UnitApplied
  <2>2. \/ e.kind = "scheduled" /\ p.status = "none"
        \/ e.kind = "attemptStarted" /\ AttemptStarts(p, e)
        \/ e.kind \in OutcomeKinds /\ activityOutcomeAllowed(p, e)
        \/ e.kind = "retryScheduled" /\ RetryFollows(p, e)
        \/ e.kind = "manuallyResolved" /\ p.status \in {"failed", "unknown"}
    BY <1>2 DEF CompensationAccepts
  <2> HIDE DEF u, p, q
  <2>3. CASE e.kind = "manuallyResolved"
    BY <1>2, <2>1, <2>2, <2>3 DEF Move, Resolving, applyCompensation, OutcomeKinds
  <2>4. CASE e.kind # "manuallyResolved"
    <3>1. q = applyActivity(p, e)
      BY <2>1, <2>4 DEF applyCompensation
    <3> QED
      BY <1>2, <2>2, <2>4, <3>1, AttemptMoves
  <2> QED
    BY <2>3, <2>4
<1>3. CASE Kind[u] = "child" /\ ChildAccepts(inst, e)
  <2>1. q = applyChild(p, e)
    BY <1>3, UnitApplied
  <2>2. \/ e.kind = "scheduled" /\ p.status = "none"
        \/ e.kind = "attemptStarted" /\ AttemptStarts(p, e)
        \/ e.kind \in ChildStartOutcomeKinds /\ activityOutcomeAllowed(p, e)
        \/ e.kind = "retryScheduled" /\ RetryFollows(p, e)
        \/ e.kind \in {"childCompleted", "childFailed"} /\ childTerminalOutcomeAllowed(p.status)
    BY <1>3 DEF ChildAccepts
  <2> HIDE DEF u, p, q
  <2>3. CASE e.kind \in {"started", "childCompleted", "childFailed"}
    BY <1>3, <2>1, <2>2, <2>3, ChildApplied
       DEF Move, Activating, Reporting, ChildStartOutcomeKinds
  <2>4. CASE e.kind \notin {"started", "childCompleted", "childFailed"}
    <3>1. q = applyActivity(p, e)
      BY <2>1, <2>4, ChildApplied
    <3> QED
      BY <1>3, <2>2, <2>4, <3>1, AttemptMoves DEF OutcomeKinds, ChildStartOutcomeKinds
  <2> QED
    BY <2>3, <2>4
<1> QED
  BY <1>1, <1>2, <1>3 DEF UnitAccepts

-----------------------------------------------------------------------------
(* Instances and events, over the idempotency keys K and the progress W of *)
(* waits.                                                                  *)

Progresses(K) == [status: UnitStatuses, attempt: Nat, key: K, dueAt: Nat, retryable: BOOLEAN]

Instances(K, W) ==
    [valid: BOOLEAN, status: Statuses, sequence: Nat, updatedAt: Nat,
     pendingOperator: {NoAction} \cup DOMAIN operatorEventKind,
     units: [Units -> Progresses(K)], waits: [Waits -> W]]

UnitEventKinds ==
    {"scheduled", "attemptStarted", "succeeded", "failed", "unknown", "started",
     "retryScheduled", "manuallyResolved", "childCompleted", "childFailed"}

UnitEvents(K) ==
    [kind: UnitEventKinds, at: Nat, step: Units, attempt: Nat, key: K, dueAt: Nat,
     retryable: BOOLEAN, action: {NoAction}]

(* A move leads to progress.                                               *)
LEMMA MoveTyped ==
    ASSUME NEW K, NoKey \in K, NEW k, NEW p \in Progresses(K), NEW e \in UnitEvents(K), NEW q,
           Move(k, p, q, e)
    PROVE  q \in Progresses(K)
<1> USE DEF Progresses, UnitEvents, UnitStatuses, CompensationStatuses, ChildStatuses, ActivityStatuses
<1>1. CASE e.kind = "scheduled" /\ Scheduling(p, q)
  BY <1>1 DEF Scheduling, NoProgress
<1>2. CASE e.kind = "attemptStarted" /\ Starting(p, q, e)
  BY <1>2 DEF Starting
<1>3. CASE e.kind \in {"failed", "unknown", "succeeded"} /\ Ending(p, q, e)
  BY <1>3 DEF Ending
<1>4. CASE Activating(p, q, e)
  BY <1>4 DEF Activating
<1>5. CASE Retrying(p, q, e)
  BY <1>5 DEF Retrying
<1>6. CASE Resolving(p, q)
  BY <1>6 DEF Resolving
<1>7. CASE Reporting(p, q, "succeeded") \/ Reporting(p, q, "childFailed")
  BY <1>7 DEF Reporting
<1> QED
  BY <1>1, <1>2, <1>3, <1>4, <1>5, <1>6, <1>7 DEF Move

(* The event e, about a unit, takes inst to j.                             *)
Advances(inst, j, e) ==
    /\ inst.valid
    /\ j.valid
    /\ j.status = inst.status
    /\ j.sequence = inst.sequence + 1
    /\ j.updatedAt = e.at
    /\ j.pendingOperator = NoAction
    /\ Move(Kind[e.step], inst.units[e.step], j.units[e.step], e)
    /\ \A v \in Units : v # e.step => j.units[v] = inst.units[v]

(* The history inst has become unreadable in j.                            *)
Breaks(inst, j) == ~j.valid /\ j.units = inst.units /\ j.waits = inst.waits

(* An event about a unit advances the instance or breaks it.               *)
LEMMA UnitEventApplied ==
    ASSUME NEW K, NEW W, NoKey \in K, NEW inst \in Instances(K, W), NEW e \in UnitEvents(K)
    PROVE  LET j == Apply(inst, e)
           IN  /\ j \in Instances(K, W)
               /\ j.waits = inst.waits
               /\ IF inst.valid /\ Timely(inst, e) /\ UnitAccepts(inst, e)
                  THEN Advances(inst, j, e) ELSE Breaks(inst, j)
<1> DEFINE u == e.step
<1> DEFINE j == Apply(inst, e)
<1>1. u \in Units /\ u \notin Waits /\ e.kind \notin LifecycleKinds /\ e.action = NoAction
  BY StepsApart DEF UnitEvents, UnitEventKinds, LifecycleKinds
<1>2. Accepts(inst, e) <=> Timely(inst, e) /\ UnitAccepts(inst, e)
  BY <1>1, AcceptsUnit
<1>3. CASE ~inst.valid \/ ~Accepts(inst, e)
  <2>1. j = [inst EXCEPT !.valid = FALSE]
    BY <1>3 DEF Apply
  <2> HIDE DEF j
  <2>2. j \in Instances(K, W) /\ Breaks(inst, j)
    BY <2>1 DEF Instances, Breaks
  <2> QED
    BY <1>2, <1>3, <2>2 DEF j, Breaks
<1>4. CASE inst.valid /\ Accepts(inst, e)
  <2> DEFINE p == inst.units[u]
  <2> DEFINE q == ApplyUnit(u, p, e)
  <2>1. j = [inst EXCEPT !.sequence = @ + 1, !.updatedAt = e.at, !.pendingOperator = NoAction,
                         !.status = inst.status, !.units = [inst.units EXCEPT ![u] = q],
                         !.waits = inst.waits]
    BY <1>1, <1>4 DEF Apply
  <2>2. p \in Progresses(K)
    BY <1>1 DEF Instances
  <2>3. Move(Kind[u], p, q, e)
    BY <1>1, <1>2, <1>4, UnitMoves
  <2>4. q \in Progresses(K)
    <3> HIDE DEF p, q
    <3> QED
      BY <2>2, <2>3, MoveTyped
  <2>5. DOMAIN inst = {"valid", "status", "sequence", "updatedAt", "pendingOperator",
                       "units", "waits"}
    BY DEF Instances
  <2> HIDE DEF j, u, q
  <2>6. /\ j.valid = inst.valid /\ j.status = inst.status /\ j.sequence = inst.sequence + 1
        /\ j.updatedAt = e.at /\ j.pendingOperator = NoAction /\ j.waits = inst.waits
        /\ j.units = [inst.units EXCEPT ![u] = q]
    BY <2>1, <2>5
  <2>7. j \in Instances(K, W)
    <3>1. [inst.units EXCEPT ![u] = q] \in [Units -> Progresses(K)]
      BY <1>1, <2>4 DEF Instances
    <3>2. e.at \in Nat
      BY DEF UnitEvents
    <3>3. j = [valid |-> j.valid, status |-> j.status, sequence |-> j.sequence,
               updatedAt |-> j.updatedAt, pendingOperator |-> j.pendingOperator,
               units |-> j.units, waits |-> j.waits]
      BY <2>1, <2>5
    <3>4. /\ j.valid \in BOOLEAN /\ j.status \in Statuses /\ j.sequence \in Nat
          /\ j.updatedAt \in Nat /\ j.pendingOperator \in {NoAction} \cup DOMAIN operatorEventKind
          /\ j.units \in [Units -> Progresses(K)] /\ j.waits \in [Waits -> W]
      BY <2>6, <3>1, <3>2 DEF Instances
    <3> QED
      BY <3>3, <3>4, Zenon DEF Instances
  <2>9. j.units[u] = q /\ \A v \in Units : v # u => j.units[v] = inst.units[v]
    BY <1>1, <2>6 DEF Instances
  <2>10. Advances(inst, j, e)
    BY <1>4, <2>3, <2>6, <2>9 DEF Advances, u
  <2> QED
    BY <1>2, <1>4, <2>6, <2>7, <2>10 DEF j
<1> QED
  BY <1>3, <1>4

InstanceEvents ==
    [kind: LifecycleKinds \cup {"operatorRecorded"}, at: Nat, step: {""}, attempt: {0},
     key: {NoKey}, dueAt: {0}, retryable: {FALSE},
     action: {NoAction} \cup DOMAIN operatorEventKind]

(* The event e, about the instance itself, takes inst to j.                *)
Changes(inst, j, e) ==
    /\ inst.valid
    /\ j.valid
    /\ j.status = IF e.kind \in LifecycleKinds THEN LifecycleTo[e.kind] ELSE inst.status
    /\ j.sequence = inst.sequence + 1
    /\ j.updatedAt = e.at
    /\ j.pendingOperator = e.action
    /\ j.units = inst.units

(* Lifecycle events lead to statuses.                                      *)
LEMMA LifecycleTyped == \A k \in LifecycleKinds : LifecycleTo[k] \in Statuses
  BY DEF LifecycleKinds, LifecycleTo, Statuses, Terminal

(* An event about the instance changes it or breaks it.                    *)
LEMMA InstanceEventApplied ==
    ASSUME NEW K, NEW W, NEW inst \in Instances(K, W), NEW e \in InstanceEvents
    PROVE  LET j == Apply(inst, e)
           IN  /\ j \in Instances(K, W)
               /\ j.waits = inst.waits
               /\ IF inst.valid /\ Timely(inst, e) /\ InstanceAccepts(inst, e)
                  THEN Changes(inst, j, e) ELSE Breaks(inst, j)
<1> DEFINE j == Apply(inst, e)
<1>1. e.step = "" /\ e.step \notin Units /\ e.step \notin Waits
  BY StepsApart DEF InstanceEvents
<1>2. Accepts(inst, e) <=> Timely(inst, e) /\ InstanceAccepts(inst, e)
  BY <1>1, AcceptsInstance
<1>3. CASE ~inst.valid \/ ~Accepts(inst, e)
  <2>1. j = [inst EXCEPT !.valid = FALSE]
    BY <1>3 DEF Apply
  <2> HIDE DEF j
  <2>2. j \in Instances(K, W) /\ Breaks(inst, j)
    BY <2>1 DEF Instances, Breaks
  <2> QED
    BY <1>2, <1>3, <2>2 DEF j, Breaks
<1>4. CASE inst.valid /\ Accepts(inst, e)
  <2> DEFINE status == IF e.kind \in LifecycleKinds THEN LifecycleTo[e.kind] ELSE inst.status
  <2>1. j = [inst EXCEPT !.sequence = @ + 1, !.updatedAt = e.at, !.pendingOperator = e.action,
                         !.status = status, !.units = inst.units, !.waits = inst.waits]
    BY <1>1, <1>4 DEF Apply
  <2>2. status \in Statuses
    BY LifecycleTyped DEF Instances
  <2>3. DOMAIN inst = {"valid", "status", "sequence", "updatedAt", "pendingOperator",
                       "units", "waits"}
    BY DEF Instances
  <2> HIDE DEF j, status
  <2>4. /\ j.valid = inst.valid /\ j.status = status /\ j.sequence = inst.sequence + 1
        /\ j.updatedAt = e.at /\ j.pendingOperator = e.action /\ j.waits = inst.waits
        /\ j.units = inst.units
    BY <2>1, <2>3
  <2>5. j \in Instances(K, W)
    <3>1. j = [valid |-> j.valid, status |-> j.status, sequence |-> j.sequence,
               updatedAt |-> j.updatedAt, pendingOperator |-> j.pendingOperator,
               units |-> j.units, waits |-> j.waits]
      BY <2>1, <2>3
    <3>2. e.at \in Nat /\ e.action \in {NoAction} \cup DOMAIN operatorEventKind
      BY DEF InstanceEvents
    <3>3. /\ j.valid \in BOOLEAN /\ j.status \in Statuses /\ j.sequence \in Nat
          /\ j.updatedAt \in Nat /\ j.pendingOperator \in {NoAction} \cup DOMAIN operatorEventKind
          /\ j.units \in [Units -> Progresses(K)] /\ j.waits \in [Waits -> W]
      BY <2>2, <2>4, <3>2 DEF Instances
    <3> QED
      BY <3>1, <3>3, Zenon DEF Instances
  <2>6. Changes(inst, j, e)
    BY <1>4, <2>4 DEF Changes, status
  <2> QED
    BY <1>2, <1>4, <2>4, <2>5, <2>6 DEF j
<1> QED
  BY <1>3, <1>4

-----------------------------------------------------------------------------
(* The events and transitions of attempts and commands, field by field.    *)

EventRecord(kind, at, step, attempt, key, dueAt, retryable, action) ==
    [kind |-> kind, at |-> at, step |-> step, attempt |-> attempt, key |-> key,
     dueAt |-> dueAt, retryable |-> retryable, action |-> action]

(* The events of audits and attempts, field by field.                      *)
LEMMA AuditValue ==
    ASSUME NEW at, NEW x
    PROVE  Audit(at, x) = EventRecord("operatorRecorded", at, "", 0, NoKey, 0, FALSE, x)
<1> DEFINE zero == 0
<1> DEFINE no == FALSE
<1> DEFINE blank == ""
<1> DEFINE none == NoAction
<1> DEFINE audit == "operatorRecorded"
<1> DEFINE b == Event(audit, at)
<1>1. b = EventRecord(audit, at, blank, zero, NoKey, zero, no, none)
  BY DEF Event, EventRecord
<1>2. Audit(at, x) = [b EXCEPT !.action = x]
  BY DEF Audit
<1> HIDE DEF zero, no, blank, none, audit, b
<1>3. [b EXCEPT !.action = x] = EventRecord(audit, at, blank, zero, NoKey, zero, no, x)
  BY <1>1 DEF EventRecord
<1> QED
  BY <1>2, <1>3, Zenon DEF zero, no, blank, audit

(* An event about a unit, field by field.                                  *)
LEMMA UnitEventValue ==
    ASSUME NEW kind, NEW at, NEW step, NEW attempt
    PROVE  UnitEvent(kind, at, step, attempt) =
               EventRecord(kind, at, step, attempt, NoKey, 0, FALSE, NoAction)
<1> DEFINE zero == 0
<1> DEFINE no == FALSE
<1> DEFINE blank == ""
<1> DEFINE none == NoAction
<1> DEFINE b == Event(kind, at)
<1> DEFINE f == [b EXCEPT !.step = step]
<1>1. b = EventRecord(kind, at, blank, zero, NoKey, zero, no, none)
  BY DEF Event, EventRecord
<1>2. UnitEvent(kind, at, step, attempt) = [f EXCEPT !.attempt = attempt]
  BY DEF UnitEvent
<1> HIDE DEF zero, no, blank, none, b
<1>3. f = EventRecord(kind, at, step, zero, NoKey, zero, no, none)
  BY <1>1 DEF EventRecord
<1> HIDE DEF f
<1>4. [f EXCEPT !.attempt = attempt] = EventRecord(kind, at, step, attempt, NoKey, zero, no, none)
  BY <1>3 DEF EventRecord
<1> QED
  BY <1>2, <1>4, Zenon DEF zero, no, none

(* The event of a start, field by field.                                   *)
LEMMA StartEventValue ==
    ASSUME NEW kind, NEW at, NEW step, NEW attempt, NEW x, NEW y
    PROVE  [UnitEvent(kind, at, step, attempt) EXCEPT !.key = x, !.dueAt = y] =
               EventRecord(kind, at, step, attempt, x, y, FALSE, NoAction)
<1> DEFINE zero == 0
<1> DEFINE no == FALSE
<1> DEFINE none == NoAction
<1> DEFINE e == UnitEvent(kind, at, step, attempt)
<1>1. e = EventRecord(kind, at, step, attempt, NoKey, zero, no, none)
  BY UnitEventValue
<1> HIDE DEF zero, no, none, e
<1> DEFINE f == [e EXCEPT !.key = x]
<1>2. [e EXCEPT !.key = x, !.dueAt = y] = [f EXCEPT !.dueAt = y]
  OBVIOUS
<1>3. f = EventRecord(kind, at, step, attempt, x, zero, no, none)
  BY <1>1 DEF EventRecord
<1> HIDE DEF f
<1>4. [f EXCEPT !.dueAt = y] = EventRecord(kind, at, step, attempt, x, y, no, none)
  BY <1>3 DEF EventRecord
<1> QED
  BY <1>2, <1>4, Zenon DEF e, no, none

(* The event of an outcome, field by field.                                *)
LEMMA OutcomeEventValue ==
    ASSUME NEW kind, NEW at, NEW step, NEW attempt, NEW x
    PROVE  [UnitEvent(kind, at, step, attempt) EXCEPT !.retryable = x] =
               EventRecord(kind, at, step, attempt, NoKey, 0, x, NoAction)
<1> DEFINE zero == 0
<1> DEFINE no == FALSE
<1> DEFINE none == NoAction
<1> DEFINE e == UnitEvent(kind, at, step, attempt)
<1>1. e = EventRecord(kind, at, step, attempt, NoKey, zero, no, none)
  BY UnitEventValue
<1> HIDE DEF zero, no, none, e
<1>2. [e EXCEPT !.retryable = x] = EventRecord(kind, at, step, attempt, NoKey, zero, x, none)
  BY <1>1 DEF EventRecord
<1> QED
  BY <1>2, Zenon DEF e, zero, none

(* The event of a retry, field by field.                                   *)
LEMMA RetryEventValue ==
    ASSUME NEW kind, NEW at, NEW step, NEW attempt, NEW x
    PROVE  [UnitEvent(kind, at, step, attempt) EXCEPT !.dueAt = x] =
               EventRecord(kind, at, step, attempt, NoKey, x, FALSE, NoAction)
<1> DEFINE zero == 0
<1> DEFINE no == FALSE
<1> DEFINE none == NoAction
<1> DEFINE e == UnitEvent(kind, at, step, attempt)
<1>1. e = EventRecord(kind, at, step, attempt, NoKey, zero, no, none)
  BY UnitEventValue
<1> HIDE DEF zero, no, none, e
<1>2. [e EXCEPT !.dueAt = x] = EventRecord(kind, at, step, attempt, NoKey, x, no, none)
  BY <1>1 DEF EventRecord
<1> QED
  BY <1>2, Zenon DEF e, no, none

(* The audit event of an operator's command.                               *)
LEMMA AuditTyped ==
    ASSUME NEW at \in Nat, NEW x \in DOMAIN operatorEventKind
    PROVE  /\ Audit(at, x) \in InstanceEvents
           /\ Audit(at, x).kind = "operatorRecorded"
           /\ Audit(at, x).at = at
           /\ Audit(at, x).action = x
<1> DEFINE e == EventRecord("operatorRecorded", at, "", 0, NoKey, 0, FALSE, x)
<1>1. Audit(at, x) = e
  BY AuditValue, Zenon
<1>2. e \in InstanceEvents
  <2>1. /\ "operatorRecorded" \in LifecycleKinds \cup {"operatorRecorded"} /\ "" \in {""} /\ 0 \in {0}
        /\ NoKey \in {NoKey} /\ FALSE \in {FALSE} /\ x \in {NoAction} \cup DOMAIN operatorEventKind
    OBVIOUS
  <2> QED
    BY <2>1, Zenon DEF InstanceEvents, EventRecord
<1>3. e.kind = "operatorRecorded" /\ e.at = at /\ e.action = x
  BY DEF EventRecord
<1> HIDE DEF e
<1> QED
  BY <1>1, <1>2, <1>3

(* The event of a lifecycle command.                                       *)
LEMMA LifecycleEventTyped ==
    ASSUME NEW at \in Nat, NEW kind \in LifecycleKinds
    PROVE  /\ Event(kind, at) \in InstanceEvents
           /\ Event(kind, at).kind = kind
           /\ Event(kind, at).at = at
           /\ Event(kind, at).action = NoAction
           /\ EventKind(Event(kind, at)) = <<"instance", kind>>
<1>1. Event(kind, at) \in InstanceEvents
  <2>1. /\ kind \in LifecycleKinds \cup {"operatorRecorded"} /\ "" \in {""} /\ 0 \in {0}
        /\ NoKey \in {NoKey} /\ FALSE \in {FALSE} /\ NoAction \in {NoAction} \cup DOMAIN operatorEventKind
    OBVIOUS
  <2> QED
    BY <2>1, Zenon DEF InstanceEvents, Event
<1>2. /\ Event(kind, at).kind = kind /\ Event(kind, at).action = NoAction
      /\ Event(kind, at).at = at /\ Event(kind, at).step = ""
  BY DEF Event
<1>3. EventKind(Event(kind, at)) = <<"instance", kind>>
  <2> DEFINE e == Event(kind, at)
  <2>1. e.step \notin Units /\ e.step \notin Waits /\ e.kind = kind
    BY <1>2, StepsApart
  <2> HIDE DEF e
  <2>2. EventKind(e) = <<"instance", kind>>
    BY <2>1, Zenon DEF EventKind
  <2> QED
    BY <2>2 DEF e
<1> QED
  BY <1>1, <1>2, <1>3

(* The transition of an outcome, field by field.                           *)
LEMMA OutcomeValue ==
    ASSUME NEW s, NEW w, NEW at, NEW outcome
    PROVE  NewActivityAttemptOutcome(s, w, at, outcome) =
               [id |-> <<w, "outcome">>, expected |-> s.sequence,
                events |-> <<EventRecord(outcome.kind, at, w[1], w[2], NoKey, 0,
                                         outcome.retryable, NoAction)>>,
                work |-> {}]
<1> DEFINE e == EventRecord(outcome.kind, at, w[1], w[2], NoKey, 0, outcome.retryable, NoAction)
<1>1. [UnitEvent(outcome.kind, at, w[1], w[2]) EXCEPT !.retryable = outcome.retryable] = e
  BY OutcomeEventValue, Zenon
<1> HIDE DEF e
<1>2. NewActivityAttemptOutcome(s, w, at, outcome) =
          [id |-> <<w, "outcome">>, expected |-> s.sequence, events |-> <<e>>, work |-> {}]
  BY <1>1, Zenon DEF NewActivityAttemptOutcome, Transition, processorTransitionID
<1> QED
  BY <1>2 DEF e

-----------------------------------------------------------------------------
(* The states processors go to.                                            *)

StateShape(r) ==
    r = [pc |-> r.pc, lease |-> r.lease, tx |-> r.tx, snapshot |-> r.snapshot, decision |-> r.decision]

(* The states of a processor, field by field.                              *)
StateRecord(pc, lease, tx, snapshot, decision) ==
    [pc |-> pc, lease |-> lease, tx |-> tx, snapshot |-> snapshot, decision |-> decision]

(* The processor at rest, field by field.                                  *)
LEMMA IdleValue ==
    Idle = StateRecord("idle", NoLease, NoTransition, Started(0), "none")
  BY Zenon DEF Idle, StateRecord

(* The fields of such a record.                                            *)
LEMMA StateFields ==
    ASSUME NEW pc, NEW lease, NEW tx, NEW snapshot, NEW decision
    PROVE  LET r == StateRecord(pc, lease, tx, snapshot, decision)
           IN  /\ r.pc = pc /\ r.lease = lease /\ r.tx = tx
               /\ r.snapshot = snapshot /\ r.decision = decision
               /\ StateShape(r)
  BY DEF StateRecord, StateShape

(* A processor about to commit, field by field.                            *)
LEMMA CommitNextValue ==
    ASSUME NEW lease, NEW t
    PROVE  CommitNext(lease, t) = StateRecord("commit", lease, t, Started(0), "none")
<1> DEFINE s0 == Started(0)
<1> DEFINE none == "none"
<1> DEFINE idle == "idle"
<1> DEFINE commit == "commit"
<1> DEFINE r == StateRecord(idle, NoLease, NoTransition, s0, none)
<1>1. CommitNext(lease, t) = [r EXCEPT !.pc = commit, !.lease = lease, !.tx = t]
  BY IdleValue, Zenon DEF CommitNext
<1> DEFINE r1 == [r EXCEPT !.pc = commit]
<1> DEFINE r2 == [r1 EXCEPT !.lease = lease]
<1> HIDE DEF s0, none, idle, commit
<1>2. [r EXCEPT !.pc = commit, !.lease = lease, !.tx = t] = [r2 EXCEPT !.tx = t]
  OBVIOUS
<1>3. r1 = StateRecord(commit, NoLease, NoTransition, s0, none)
  BY DEF StateRecord
<1> HIDE DEF r1
<1>4. r2 = StateRecord(commit, lease, NoTransition, s0, none)
  BY <1>3 DEF StateRecord
<1> HIDE DEF r2
<1>5. [r2 EXCEPT !.tx = t] = StateRecord(commit, lease, t, s0, none)
  BY <1>4 DEF StateRecord
<1> QED
  BY <1>1, <1>2, <1>5, Zenon DEF commit, s0, none

(* A processor about to dispose of its work, field by field.               *)
LEMMA FinishNextValue ==
    ASSUME NEW lease, NEW d
    PROVE  FinishNext(lease, d) = StateRecord("finish", lease, NoTransition, Started(0), d)
<1> DEFINE s0 == Started(0)
<1> DEFINE none == "none"
<1> DEFINE idle == "idle"
<1> DEFINE finish == "finish"
<1> DEFINE r == StateRecord(idle, NoLease, NoTransition, s0, none)
<1>1. FinishNext(lease, d) = [r EXCEPT !.pc = finish, !.lease = lease, !.decision = d]
  BY IdleValue, Zenon DEF FinishNext
<1> DEFINE r1 == [r EXCEPT !.pc = finish]
<1> DEFINE r2 == [r1 EXCEPT !.lease = lease]
<1> HIDE DEF s0, none, idle, finish
<1>2. [r EXCEPT !.pc = finish, !.lease = lease, !.decision = d] = [r2 EXCEPT !.decision = d]
  OBVIOUS
<1>3. r1 = StateRecord(finish, NoLease, NoTransition, s0, none)
  BY DEF StateRecord
<1> HIDE DEF r1
<1>4. r2 = StateRecord(finish, lease, NoTransition, s0, none)
  BY <1>3 DEF StateRecord
<1> HIDE DEF r2
<1>5. [r2 EXCEPT !.decision = d] = StateRecord(finish, lease, NoTransition, s0, d)
  BY <1>4 DEF StateRecord
<1> QED
  BY <1>1, <1>2, <1>5, Zenon DEF finish, s0

(* The child has an outcome of its own.                                    *)
ReportedAs(u, p) == Kind[u] = "child" /\ p.status \in {"succeeded", "childFailed"}

(* A unit of this kind may be started while the instance has this status.  *)
StatusAllows(kind, status) == status = "running" \/ (kind = "compensation" /\ status = "cancelling")

-----------------------------------------------------------------------------
(* The three processors are one, but for what they ask of the instance.    *)

(* A unit is of one of three kinds.                                        *)
LEMMA KindOfUnit ==
    \A u \in Units : Kind[u] \in {"activity", "compensation", "child"}
  BY DEF Units, UnitKinds

(* Persist, whatever the unit.                                             *)
MayPersist(s, w, at) ==
    /\ s.units[w[1]].status = "running"
    /\ s.units[w[1]].attempt = w[2]
    /\ at >= s.updatedAt
    /\ Kind[w[1]] = "child" => s.status = "running"

(* What Persist leads to, for a unit of any kind.                          *)
LEMMA PersistValue ==
    ASSUME NEW s, NEW lease, NEW n, NEW outcome, lease.work[1] \in Units
    PROVE  LET at == Later(n, s.updatedAt)
           IN  Persist(s, lease, n, outcome) =
                   IF MayPersist(s, lease.work, at)
                   THEN CommitNext(lease, NewActivityAttemptOutcome(s, lease.work, at, outcome))
                   ELSE Leave
<1> DEFINE u == lease.work[1]
<1> DEFINE at == Later(n, s.updatedAt)
<1> DEFINE x == CommitNext(lease, NewActivityAttemptOutcome(s, lease.work, at, outcome))
<1> HIDE DEF at, x
<1>a. CASE Kind[u] = "activity"
  <2>1. Persist(s, lease, n, outcome) = persistOutcome(s, lease, n, outcome)
    BY <1>a, Zenon DEF Persist
  <2>2. persistOutcome(s, lease, n, outcome) = IF CanRecordOutcome(s, lease.work, at) THEN x ELSE Leave
    BY Zenon DEF persistOutcome, at, x
  <2>3. CanRecordOutcome(s, lease.work, at) <=> MayPersist(s, lease.work, at)
    BY <1>a DEF CanRecordOutcome, MayPersist
  <2> QED
    BY <2>1, <2>2, <2>3 DEF at, x
<1>b. CASE Kind[u] = "compensation"
  <2>1. Persist(s, lease, n, outcome) = persistCompensation(s, lease, n, outcome)
    BY <1>b, Zenon DEF Persist
  <2>2. persistCompensation(s, lease, n, outcome) = IF CanRecordCompensation(s, lease.work, at) THEN x ELSE Leave
    BY Zenon DEF persistCompensation, NewCompensationAttemptOutcome, at, x
  <2>3. CanRecordCompensation(s, lease.work, at) <=> MayPersist(s, lease.work, at)
    BY <1>b DEF CanRecordCompensation, MayPersist
  <2> QED
    BY <2>1, <2>2, <2>3 DEF at, x
<1>c. CASE Kind[u] = "child"
  <2>1. Persist(s, lease, n, outcome) = persistChild(s, lease, n, outcome)
    BY <1>c, Zenon DEF Persist
  <2>2. persistChild(s, lease, n, outcome) = IF CanRecordChildStart(s, lease.work, at) THEN x ELSE Leave
    BY Zenon DEF persistChild, NewChildStartAttemptOutcome, at, x
  <2>3. CanRecordChildStart(s, lease.work, at) <=> MayPersist(s, lease.work, at)
    BY <1>c DEF CanRecordChildStart, MayPersist
  <2> QED
    BY <2>1, <2>2, <2>3 DEF at, x
<1> QED
  BY <1>a, <1>b, <1>c, KindOfUnit

(* Retry, whatever the unit.                                               *)
MayRetry(i, lease, at) ==
    /\ at >= i.updatedAt
    /\ RetryFits(i.units[lease.work[1]], at, lease.deadline)
    /\ Kind[lease.work[1]] # "activity" => StatusAllows(Kind[lease.work[1]], i.status)

RetryOf(i, lease, at) ==
    NewActivityRetry(processorTransitionID(lease.work, "retry"), i, lease.work[1], at,
                     lease.deadline, lease.work[3])

(* What Retry leads to, for a unit of any kind.                            *)
LEMMA RetryValue ==
    ASSUME NEW i, NEW lease, NEW n, lease.work[1] \in Units
    PROVE  LET at == Later(n, i.updatedAt)
           IN  Retry(i, lease, n) =
                   IF NoRetryLeft(i.units[lease.work[1]], lease, at) THEN FinishNext(lease, "complete")
                   ELSE IF MayRetry(i, lease, at) THEN CommitNext(lease, RetryOf(i, lease, at))
                   ELSE Leave
<1> DEFINE u == lease.work[1]
<1> DEFINE at == Later(n, i.updatedAt)
<1> DEFINE x == CommitNext(lease, RetryOf(i, lease, at))
<1> DEFINE y == FinishNext(lease, "complete")
<1> DEFINE over == NoRetryLeft(i.units[u], lease, at)
<1> HIDE DEF at, x, y, over
<1>a. CASE Kind[u] = "activity"
  <2>1. Retry(i, lease, n) = scheduleRetry(i, lease, n)
    BY <1>a, Zenon DEF Retry
  <2>2. scheduleRetry(i, lease, n) =
            IF over THEN y ELSE IF CanRetry(i, u, at, lease.deadline) THEN x ELSE Leave
    BY Zenon DEF scheduleRetry, RetryOf, at, x, y, over
  <2>3. CanRetry(i, u, at, lease.deadline) <=> MayRetry(i, lease, at)
    BY <1>a DEF CanRetry, MayRetry
  <2> QED
    BY <2>1, <2>2, <2>3 DEF at, x, y, over
<1>b. CASE Kind[u] = "compensation"
  <2>1. Retry(i, lease, n) = scheduleCompensationRetry(i, lease, n)
    BY <1>b, Zenon DEF Retry
  <2>2. scheduleCompensationRetry(i, lease, n) =
            IF over THEN y ELSE IF CanRetryCompensation(i, u, at, lease.deadline) THEN x ELSE Leave
    BY Zenon DEF scheduleCompensationRetry, NewCompensationRetry, RetryOf, at, x, y, over
  <2>3. CanRetryCompensation(i, u, at, lease.deadline) <=> MayRetry(i, lease, at)
    BY <1>b DEF CanRetryCompensation, MayRetry, StatusAllows, Compensable
  <2> QED
    BY <2>1, <2>2, <2>3 DEF at, x, y, over
<1>c. CASE Kind[u] = "child"
  <2>1. Retry(i, lease, n) = scheduleChildRetry(i, lease, n)
    BY <1>c, Zenon DEF Retry
  <2>2. scheduleChildRetry(i, lease, n) =
            IF over THEN y ELSE IF CanRetryChild(i, u, at, lease.deadline) THEN x ELSE Leave
    BY Zenon DEF scheduleChildRetry, NewChildStartRetry, RetryOf, at, x, y, over
  <2>3. CanRetryChild(i, u, at, lease.deadline) <=> MayRetry(i, lease, at)
    BY <1>c DEF CanRetryChild, MayRetry, StatusAllows
  <2> QED
    BY <2>1, <2>2, <2>3 DEF at, x, y, over
<1> QED
  BY <1>a, <1>b, <1>c, KindOfUnit

(* What Process makes of a lease.                                          *)
Startable == {"ready", "retryWaiting"}

MayExecute(i, lease, n) ==
    /\ StatusAllows(Kind[lease.work[1]], i.status)
    /\ AttemptFits(i.units[lease.work[1]], lease, n)
    /\ n >= i.updatedAt

ExecuteOf(i, lease, n) ==
    IF MayExecute(i, lease, n) THEN CommitNext(lease, NewActivityAttemptStart(i, lease, n))
                               ELSE Leave

ProcessOf(i, lease, n) ==
    LET w == lease.work
        p == i.units[w[1]]
    IN  IF p.status \in Startable
        THEN IF w[2] = p.attempt + 1 THEN ExecuteOf(i, lease, n) ELSE FinishNext(lease, "dead")
        ELSE IF ReportedAs(w[1], p) THEN FinishNext(lease, "complete")
        ELSE IF ~SameAttempt(p, w) THEN FinishNext(lease, "dead")
        ELSE IF p.status = "running" THEN Persist(i, lease, n, UnknownOutcome)
        ELSE IF p.status = "failed" THEN Retry(i, lease, n)
        ELSE FinishNext(lease, "complete")

(* What Process leads to, for a unit of any kind.                          *)
LEMMA ProcessValue ==
    ASSUME NEW i, NEW lease, NEW n, lease.work[1] \in Units
    PROVE  Process(i, lease, n) = ProcessOf(i, lease, n)
<1> DEFINE w == lease.work
<1> DEFINE u == w[1]
<1> DEFINE p == i.units[u]
<1> DEFINE persist == Persist(i, lease, n, UnknownOutcome)
<1> DEFINE retry == Retry(i, lease, n)
<1> DEFINE exec == ExecuteOf(i, lease, n)
<1> DEFINE dead == FinishNext(lease, "dead")
<1> DEFINE done == FinishNext(lease, "complete")
<1> HIDE DEF persist, retry, exec, dead, done
<1>1. ProcessOf(i, lease, n) =
          IF p.status \in Startable THEN IF w[2] = p.attempt + 1 THEN exec ELSE dead
          ELSE IF ReportedAs(u, p) THEN done
          ELSE IF ~SameAttempt(p, w) THEN dead
          ELSE IF p.status = "running" THEN persist
          ELSE IF p.status = "failed" THEN retry
          ELSE done
  BY Zenon DEF ProcessOf, persist, retry, exec, dead, done
<1>a. CASE Kind[u] = "activity"
  <2>1. Process(i, lease, n) = processProgress(i, lease, n)
    BY <1>a, Zenon DEF Process
  <2>2. execute(i, lease, n) = exec
    <3>1. CanStart(i, lease, n) <=> MayExecute(i, lease, n)
      BY <1>a DEF CanStart, MayExecute, StatusAllows, Compensable
    <3> QED
      BY <3>1, Zenon DEF execute, exec, ExecuteOf
  <2>3. persistOutcome(i, lease, n, UnknownOutcome) = persist
    BY <1>a, Zenon DEF Persist, persist
  <2>4. scheduleRetry(i, lease, n) = retry
    BY <1>a, Zenon DEF Retry, retry
  <2> DEFINE last == CASE p.status = "running" -> persist [] p.status = "failed" -> retry [] OTHER -> done
  <2>5. processProgress(i, lease, n) =
                IF p.status \in Startable THEN IF w[2] = p.attempt + 1 THEN exec ELSE dead
                ELSE IF ~SameAttempt(p, w) THEN dead
                ELSE last
    BY <2>2, <2>3, <2>4, Zenon DEF processProgress, Startable, dead, done
  <2>6. /\ p.status = "running" => last = persist
        /\ p.status = "failed" => last = retry
        /\ p.status # "running" /\ p.status # "failed" => last = done
    <3>1. ASSUME p.status = "running" PROVE last = persist
      BY <3>1, Zenon
    <3>2. ASSUME p.status = "failed" PROVE last = retry
      BY <3>2, Zenon
    <3>3. ASSUME p.status # "running", p.status # "failed" PROVE last = done
      BY <3>3, Zenon
    <3> QED
      BY <3>1, <3>2, <3>3
  <2> HIDE DEF last
  <2>7. ReportedAs(u, p) <=> FALSE
    BY <1>a DEF ReportedAs
  <2> QED
    BY <1>1, <2>1, <2>5, <2>6, <2>7
<1>b. CASE Kind[u] = "compensation"
  <2>1. Process(i, lease, n) = processCompensation(i, lease, n)
    BY <1>b, Zenon DEF Process
  <2>2. executeCompensation(i, lease, n) = exec
    <3>1. CanStartCompensation(i, lease, n) <=> MayExecute(i, lease, n)
      BY <1>b DEF CanStartCompensation, MayExecute, StatusAllows, Compensable
    <3> QED
      BY <3>1, Zenon DEF executeCompensation, exec, ExecuteOf, NewCompensationAttemptStart
  <2>3. persistCompensation(i, lease, n, UnknownOutcome) = persist
    BY <1>b, Zenon DEF Persist, persist
  <2>4. scheduleCompensationRetry(i, lease, n) = retry
    BY <1>b, Zenon DEF Retry, retry
  <2> DEFINE last == CASE p.status = "running" -> persist [] p.status = "failed" -> retry [] OTHER -> done
  <2>5. processCompensation(i, lease, n) =
                IF p.status \in Startable THEN IF w[2] = p.attempt + 1 THEN exec ELSE dead
                ELSE IF ~SameAttempt(p, w) THEN dead
                ELSE last
    BY <2>2, <2>3, <2>4, Zenon DEF processCompensation, Startable, dead, done
  <2>6. /\ p.status = "running" => last = persist
        /\ p.status = "failed" => last = retry
        /\ p.status # "running" /\ p.status # "failed" => last = done
    <3>1. ASSUME p.status = "running" PROVE last = persist
      BY <3>1, Zenon
    <3>2. ASSUME p.status = "failed" PROVE last = retry
      BY <3>2, Zenon
    <3>3. ASSUME p.status # "running", p.status # "failed" PROVE last = done
      BY <3>3, Zenon
    <3> QED
      BY <3>1, <3>2, <3>3
  <2> HIDE DEF last
  <2>7. ReportedAs(u, p) <=> FALSE
    BY <1>b DEF ReportedAs
  <2> QED
    BY <1>1, <2>1, <2>5, <2>6, <2>7
<1>c. CASE Kind[u] = "child"
  <2>1. Process(i, lease, n) = processChild(i, lease, n)
    BY <1>c, Zenon DEF Process
  <2>2. executeChild(i, lease, n) = exec
    <3>1. CanStartChild(i, lease, n) <=> MayExecute(i, lease, n)
      BY <1>c DEF CanStartChild, MayExecute, StatusAllows, Compensable
    <3> QED
      BY <3>1, Zenon DEF executeChild, exec, ExecuteOf, NewChildStartAttempt
  <2>3. persistChild(i, lease, n, UnknownOutcome) = persist
    BY <1>c, Zenon DEF Persist, persist
  <2>4. scheduleChildRetry(i, lease, n) = retry
    BY <1>c, Zenon DEF Retry, retry
  <2> DEFINE last == CASE p.status = "running" -> persist [] p.status = "failed" -> retry [] OTHER -> done
  <2>5. processChild(i, lease, n) =
                IF p.status \in Startable THEN IF w[2] = p.attempt + 1 THEN exec ELSE dead
                ELSE IF p.status \in {"succeeded", "childFailed"} THEN done
                ELSE IF ~SameAttempt(p, w) THEN dead
                ELSE last
    BY <2>2, <2>3, <2>4, Zenon DEF processChild, Startable, dead, done
  <2>6. /\ p.status = "running" => last = persist
        /\ p.status = "failed" => last = retry
        /\ p.status # "running" /\ p.status # "failed" => last = done
    <3>1. ASSUME p.status = "running" PROVE last = persist
      BY <3>1, Zenon
    <3>2. ASSUME p.status = "failed" PROVE last = retry
      BY <3>2, Zenon
    <3>3. ASSUME p.status # "running", p.status # "failed" PROVE last = done
      BY <3>3, Zenon
    <3> QED
      BY <3>1, <3>2, <3>3
  <2> HIDE DEF last
  <2>7. ReportedAs(u, p) <=> p.status \in {"succeeded", "childFailed"}
    BY <1>c DEF ReportedAs
  <2> QED
    BY <1>1, <2>1, <2>5, <2>6, <2>7
<1> QED
  BY <1>a, <1>b, <1>c, KindOfUnit
=============================================================================
