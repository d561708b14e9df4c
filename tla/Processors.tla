----------------------------- MODULE Processors -----------------------------
(***************************************************************************)
(* What the three work processors (activity_processor.go,                  *)
(* compensation_processor.go, child_processor.go) decide to do next, given *)
(* the instance they inspected, their lease and their reading of the       *)
(* clock: commit a transition, dispose of the work, or give up and leave   *)
(* the lease to expire.  StepExecution runs them.                          *)
(***************************************************************************)
EXTENDS CompensationTransitions, ChildTransitions

NoTransition == Transition("none", 0, <<>>, {})

NoLease ==
    [work |-> NoKey, token |-> 0, claimedAt |-> 0, expires |-> 0,
     available |-> 0, deadline |-> 0]

Idle ==
    [pc |-> "idle", lease |-> NoLease, tx |-> NoTransition,
     snapshot |-> Started(0), decision |-> "none"]

(* Leave is an error: no disposition.                                      *)
Leave == Idle

CommitNext(lease, t) == [Idle EXCEPT !.pc = "commit", !.lease = lease, !.tx = t]

FinishNext(lease, decision) ==
    [Idle EXCEPT !.pc = "finish", !.lease = lease, !.decision = decision]

Later(s, t) == IF s >= t THEN s ELSE t

(* Mutant of SameAttempt: the attempt is off by one.                       *)
SameAttemptNext(progress, w) == progress.attempt + 1 = w[2] /\ progress.key = w

(* A redelivery speaks of the attempt the history is at.                   *)
SameAttempt(progress, w) == progress.attempt = w[2] /\ progress.key = w

UnknownOutcome == [kind |-> "unknown", retryable |-> FALSE]

(* What a handler may answer; an error or a panic counts as unknown.       *)
Outcomes ==
    {[kind |-> "succeeded", retryable |-> FALSE],
     [kind |-> "failed", retryable |-> TRUE],
     [kind |-> "failed", retryable |-> FALSE],
     UnknownOutcome}

(* What a child starter may answer.                                        *)
ChildStartOutcomes ==
    {[kind |-> "started", retryable |-> FALSE],
     [kind |-> "failed", retryable |-> TRUE],
     [kind |-> "failed", retryable |-> FALSE],
     UnknownOutcome}

(* scheduleRetry gives up without an error.                                *)
NoRetryLeft(progress, lease, at) ==
    \/ ~progress.retryable
    \/ progress.attempt >= Policy.maxAttempts
    \/ at + retryDelay(Policy, progress.attempt) >= lease.deadline

-----------------------------------------------------------------------------
(* ActivityWorkProcessor.                                                  *)

execute(inst, lease, now) ==
    IF CanStart(inst, lease, now)
    THEN CommitNext(lease, NewActivityAttemptStart(inst, lease, now))
    ELSE Leave

persistOutcome(inst, lease, now, outcome) ==
    LET at == Later(now, inst.updatedAt)
    IN  IF CanRecordOutcome(inst, lease.work, at)
        THEN CommitNext(lease, NewActivityAttemptOutcome(inst, lease.work, at, outcome))
        ELSE Leave

scheduleRetry(inst, lease, now) ==
    LET unit == lease.work[1]
        at == Later(now, inst.updatedAt)
    IN  IF NoRetryLeft(inst.units[unit], lease, at) THEN FinishNext(lease, "complete")
        ELSE IF CanRetry(inst, unit, at, lease.deadline)
        THEN CommitNext(lease,
               NewActivityRetry(processorTransitionID(lease.work, "retry"), inst, unit,
                                at, lease.deadline, lease.work[3]))
        ELSE Leave

(* Mutant of processProgress: an attempt that is under way counts as done. *)
processProgressTrusting(inst, lease, now) ==
    LET progress == inst.units[lease.work[1]]
    IN  IF progress.status \in {"ready", "retryWaiting"}
        THEN execute(inst, lease, now)
        ELSE IF progress.status = "failed" /\ SameAttempt(progress, lease.work)
        THEN scheduleRetry(inst, lease, now)
        ELSE FinishNext(lease, "complete")

processProgress(inst, lease, now) ==
    LET w == lease.work
        progress == inst.units[w[1]]
    IN  IF progress.status \in {"ready", "retryWaiting"}
        THEN IF w[2] = progress.attempt + 1 THEN execute(inst, lease, now)
                                            ELSE FinishNext(lease, "dead")
        ELSE IF ~SameAttempt(progress, w) THEN FinishNext(lease, "dead")
        ELSE CASE progress.status = "running" ->
                    persistOutcome(inst, lease, now, UnknownOutcome)
               [] progress.status = "failed"  -> scheduleRetry(inst, lease, now)
               [] OTHER                       -> FinishNext(lease, "complete")

-----------------------------------------------------------------------------
(* CompensationWorkProcessor.                                              *)

executeCompensation(inst, lease, now) ==
    IF CanStartCompensation(inst, lease, now)
    THEN CommitNext(lease, NewCompensationAttemptStart(inst, lease, now))
    ELSE Leave

persistCompensation(inst, lease, now, outcome) ==
    LET at == Later(now, inst.updatedAt)
    IN  IF CanRecordCompensation(inst, lease.work, at)
        THEN CommitNext(lease, NewCompensationAttemptOutcome(inst, lease.work, at, outcome))
        ELSE Leave

scheduleCompensationRetry(inst, lease, now) ==
    LET unit == lease.work[1]
        at == Later(now, inst.updatedAt)
    IN  IF NoRetryLeft(inst.units[unit], lease, at) THEN FinishNext(lease, "complete")
        ELSE IF CanRetryCompensation(inst, unit, at, lease.deadline)
        THEN CommitNext(lease,
               NewCompensationRetry(processorTransitionID(lease.work, "retry"), inst, unit,
                                    at, lease.deadline, lease.work[3]))
        ELSE Leave

processCompensation(inst, lease, now) ==
    LET w == lease.work
        progress == inst.units[w[1]]
    IN  IF progress.status \in {"ready", "retryWaiting"}
        THEN IF w[2] = progress.attempt + 1 THEN executeCompensation(inst, lease, now)
                                            ELSE FinishNext(lease, "dead")
        ELSE IF ~SameAttempt(progress, w) THEN FinishNext(lease, "dead")
        ELSE CASE progress.status = "running" ->
                    persistCompensation(inst, lease, now, UnknownOutcome)
               [] progress.status = "failed"  -> scheduleCompensationRetry(inst, lease, now)
               [] OTHER                       -> FinishNext(lease, "complete")

-----------------------------------------------------------------------------
(* ChildWorkProcessor.                                                     *)

executeChild(inst, lease, now) ==
    IF CanStartChild(inst, lease, now)
    THEN CommitNext(lease, NewChildStartAttempt(inst, lease, now))
    ELSE Leave

persistChild(inst, lease, now, outcome) ==
    LET at == Later(now, inst.updatedAt)
    IN  IF CanRecordChildStart(inst, lease.work, at)
        THEN CommitNext(lease, NewChildStartAttemptOutcome(inst, lease.work, at, outcome))
        ELSE Leave

scheduleChildRetry(inst, lease, now) ==
    LET unit == lease.work[1]
        at == Later(now, inst.updatedAt)
    IN  IF NoRetryLeft(inst.units[unit], lease, at) THEN FinishNext(lease, "complete")
        ELSE IF CanRetryChild(inst, unit, at, lease.deadline)
        THEN CommitNext(lease,
               NewChildStartRetry(processorTransitionID(lease.work, "retry"), inst, unit,
                                  at, lease.deadline, lease.work[3]))
        ELSE Leave

KnownAbsent == [kind |-> "failed", retryable |-> TRUE]

(* Mutant of processChild: a start whose outcome nobody recorded is taken  *)
(* for one that created nothing.                                           *)
processChildAbsent(inst, lease, now) ==
    LET w == lease.work
        progress == inst.units[w[1]]
    IN  IF progress.status \in {"ready", "retryWaiting"}
        THEN IF w[2] = progress.attempt + 1 THEN executeChild(inst, lease, now)
                                            ELSE FinishNext(lease, "dead")
        ELSE IF progress.status \in {"succeeded", "childFailed"}
        THEN FinishNext(lease, "complete")
        ELSE IF ~SameAttempt(progress, w) THEN FinishNext(lease, "dead")
        ELSE CASE progress.status = "running" -> persistChild(inst, lease, now, KnownAbsent)
               [] progress.status = "failed"  -> scheduleChildRetry(inst, lease, now)
               [] OTHER                       -> FinishNext(lease, "complete")

(* Once the child has an outcome only its identity is compared, and a step *)
(* has one child.                                                          *)
processChild(inst, lease, now) ==
    LET w == lease.work
        progress == inst.units[w[1]]
    IN  IF progress.status \in {"ready", "retryWaiting"}
        THEN IF w[2] = progress.attempt + 1 THEN executeChild(inst, lease, now)
                                            ELSE FinishNext(lease, "dead")
        ELSE IF progress.status \in {"succeeded", "childFailed"}
        THEN FinishNext(lease, "complete")
        ELSE IF ~SameAttempt(progress, w) THEN FinishNext(lease, "dead")
        ELSE CASE progress.status = "running" -> persistChild(inst, lease, now, UnknownOutcome)
               [] progress.status = "failed"  -> scheduleChildRetry(inst, lease, now)
               [] OTHER                       -> FinishNext(lease, "complete")

-----------------------------------------------------------------------------
(* The processor the worker's kind of work goes to.                        *)

Process(inst, lease, now) ==
    CASE Kind[lease.work[1]] = "activity"     -> processProgress(inst, lease, now)
      [] Kind[lease.work[1]] = "compensation" -> processCompensation(inst, lease, now)
      [] Kind[lease.work[1]] = "child"        -> processChild(inst, lease, now)

Persist(inst, lease, now, outcome) ==
    CASE Kind[lease.work[1]] = "activity"     -> persistOutcome(inst, lease, now, outcome)
      [] Kind[lease.work[1]] = "compensation" -> persistCompensation(inst, lease, now, outcome)
      [] Kind[lease.work[1]] = "child"        -> persistChild(inst, lease, now, outcome)

Retry(inst, lease, now) ==
    CASE Kind[lease.work[1]] = "activity"     -> scheduleRetry(inst, lease, now)
      [] Kind[lease.work[1]] = "compensation" -> scheduleCompensationRetry(inst, lease, now)
      [] Kind[lease.work[1]] = "child"        -> scheduleChildRetry(inst, lease, now)

(* What the call of a handler under a deadline that has passed amounts to: *)
(* an activity's error is an unknown outcome, a child's starter was        *)
(* certainly not called.                                                   *)
TooLateOutcome(unit) == IF Kind[unit] = "child" THEN KnownAbsent ELSE UnknownOutcome
=============================================================================
