---------------------------- MODULE RetryPolicy ----------------------------
(***************************************************************************)
(* The delay before the next attempt of an activity: exponential doubling  *)
(* from InitialDelay, capped by MaxDelay, in machine integers.  A          *)
(* time.Duration is a signed word; the doubling is done in the unsigned    *)
(* word of the same width.                                                 *)
(***************************************************************************)
EXTENDS Integers

CONSTANT DurationBits   \* width of time.Duration: 64 in the code

ASSUME DurationBitsAssumption == DurationBits \in Nat \ {0, 1}

(* Two to the n.                                                           *)
Pow2[n \in Nat] == IF n = 0 THEN 1 ELSE 2 * Pow2[n - 1]

MaxDuration == Pow2[DurationBits - 1] - 1

Least(a, b) == IF a <= b THEN a ELSE b

(* RetryPolicy: its delays are values of time.Duration.                    *)
Policies ==
    [maxAttempts: Nat, initialDelay: 0 .. MaxDuration, maxDelay: 0 .. MaxDuration]

(* validRetry of definition.go.                                            *)
validRetry(policy) ==
    /\ policy.maxAttempts > 0
    /\ policy.initialDelay > 0
    /\ policy.maxDelay >= policy.initialDelay

(* Mutant of Doubled: the doubling stays in the signed word, as            *)
(* min(delay*2, MaxDelay) over time.Duration would.                        *)
DoubledSigned(delay, cap) ==
    LET word == (2 * delay) % Pow2[DurationBits]
    IN  Least(IF word > MaxDuration THEN word - Pow2[DurationBits] ELSE word, cap)

Doubled(delay, cap) == Least((2 * delay) % Pow2[DurationBits], cap)

(* The loop body runs once per earlier attempt, at most DurationBits - 1   *)
(* times however large the persisted attempt is.                           *)
retryDelay(policy, attempt) ==
    LET delay[n \in 0 .. DurationBits - 1] ==
            IF n = 0 THEN policy.initialDelay
                     ELSE Doubled(delay[n - 1], policy.maxDelay)
    IN  delay[Least(attempt - 1, DurationBits - 1)]

(* The delay after an attempt is InitialDelay doubled once per earlier     *)
(* attempt and capped by MaxDelay, computed without a machine word.        *)
CappedExponential(policy, attempt) ==
    retryDelay(policy, attempt) =
        Least(policy.initialDelay * Pow2[attempt - 1], policy.maxDelay)
=============================================================================
