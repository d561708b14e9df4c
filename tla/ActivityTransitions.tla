------------------------ MODULE ActivityTransitions ------------------------
(***************************************************************************)
(* The constructors of activity_transition.go and operator.go: from a      *)
(* replayed instance, the transition to commit.  A constructor is a pair:  *)
(* the condition under which it returns no error (Can...), and the         *)
(* transition it returns.                                                  *)
(*                                                                         *)
(* A transition is its complete plan, so equality of transitions is        *)
(* equality of their fingerprints.  Work identities are triples            *)
(* <<step, attempt, origin>>: processorTransitionID derives the identity   *)
(* of a retry's work from the failed work's identity, and an operator      *)
(* names the work of its own retry.  An attempt's idempotency key is       *)
(* derived in the same way and identifies the same thing.                  *)
(***************************************************************************)
EXTENDS InstanceReplay, WorkRows

Transition(id, expected, events, work) ==
    [id |-> id, expected |-> expected, events |-> events, work |-> work]

(* processorTransitionID.                                                  *)
processorTransitionID(w, phase) == <<w, phase>>

PendingWork(w, available, deadline) ==
    [id |-> w, available |-> available, deadline |-> deadline]

-----------------------------------------------------------------------------
CanSchedule(inst, step, at, deadline) ==
    /\ inst.status = "running"
    /\ inst.units[step].status = "none"
    /\ at >= inst.updatedAt
    /\ PendingWorkValid(at, deadline)

NewActivitySchedule(inst, step, at, deadline, w) ==
    Transition(<<w, "schedule">>, inst.sequence,
               <<UnitEvent("scheduled", at, step, 0)>>,
               {PendingWork(w, at, deadline)})

-----------------------------------------------------------------------------
(* Mutant of StartInLease: the expiry of the lease is not looked at.       *)
StartInLeaseClaimOnly(lease, startedAt) == startedAt >= lease.claimedAt

(* NewActivityAttemptStart on the lease the processor was given.           *)
StartInLease(lease, startedAt) ==
    startedAt >= lease.claimedAt /\ startedAt < lease.expires

(* The bounds of an attempt's start that all units share.                  *)
AttemptFits(progress, lease, startedAt) ==
    /\ lease.work[2] <= Policy.maxAttempts
    /\ progress.status \in {"ready", "retryWaiting"}
    /\ lease.work[2] = progress.attempt + 1
    /\ startedAt >= lease.available
    /\ startedAt < lease.deadline
    /\ startedAt + Timeout <= lease.deadline
    /\ StartInLease(lease, startedAt)
    /\ progress.status = "retryWaiting" => startedAt >= progress.dueAt

CanStart(inst, lease, startedAt) ==
    /\ inst.status = "running"
    /\ AttemptFits(inst.units[lease.work[1]], lease, startedAt)
    /\ startedAt >= inst.updatedAt

NewActivityAttemptStart(inst, lease, startedAt) ==
    Transition(processorTransitionID(lease.work, "start"), inst.sequence,
               <<[UnitEvent("attemptStarted", startedAt, lease.work[1], lease.work[2])
                    EXCEPT !.key = lease.work, !.dueAt = startedAt + Timeout]>>,
               {})

-----------------------------------------------------------------------------
(* NewActivityAttemptOutcome looks at the attempt's progress and not at    *)
(* the instance's status.                                                  *)
CanRecordOutcome(inst, w, at) ==
    LET progress == inst.units[w[1]]
    IN  /\ progress.status = "running"
        /\ progress.attempt = w[2]
        /\ at >= inst.updatedAt

NewActivityAttemptOutcome(inst, w, at, outcome) ==
    Transition(processorTransitionID(w, "outcome"), inst.sequence,
               <<[UnitEvent(outcome.kind, at, w[1], w[2])
                    EXCEPT !.retryable = outcome.retryable]>>,
               {})

-----------------------------------------------------------------------------
(* Mutant of RetryFits: any failure may be tried again.                    *)
RetryFitsAnyFailure(progress, at, deadline) ==
    /\ progress.status = "failed"
    /\ progress.attempt < Policy.maxAttempts
    /\ PendingWorkValid(at + retryDelay(Policy, progress.attempt), deadline)

(* What the retry constructors of all units ask of the failed attempt.     *)
RetryFits(progress, at, deadline) ==
    /\ progress.status = "failed"
    /\ progress.retryable
    /\ progress.attempt < Policy.maxAttempts
    /\ PendingWorkValid(at + retryDelay(Policy, progress.attempt), deadline)

(* NewActivityRetry, too, does not look at the instance's status.          *)
CanRetry(inst, step, at, deadline) ==
    at >= inst.updatedAt /\ RetryFits(inst.units[step], at, deadline)

NewActivityRetry(id, inst, step, at, deadline, origin) ==
    LET attempt == inst.units[step].attempt
        dueAt == at + retryDelay(Policy, attempt)
    IN  Transition(id, inst.sequence,
                   <<[UnitEvent("retryScheduled", at, step, attempt)
                        EXCEPT !.dueAt = dueAt]>>,
                   {PendingWork(<<step, attempt + 1, origin>>, dueAt, deadline)})

-----------------------------------------------------------------------------
(* Operator commands: the audit event and the action, in one transition.   *)

validOperatorLifecycleState ==
    [pause     |-> {"running"},
     resume    |-> {"paused"},
     cancel    |-> {"running", "paused"},
     terminate |-> {"running", "paused", "cancelling"}]

LifecycleActions == DOMAIN validOperatorLifecycleState

Audit(at, action) == [Event("operatorRecorded", at) EXCEPT !.action = action]

CanCommand(inst, action, at) ==
    inst.status \in validOperatorLifecycleState[action] /\ at >= inst.updatedAt

NewOperatorLifecycleCommand(inst, command, action, at) ==
    Transition(<<command, "operator">>, inst.sequence,
               <<Audit(at, action), Event(operatorEventKind[action][2], at)>>, {})

(* NewOperatorActivityRetry: NewActivityRetry on the instance as the audit *)
(* event leaves it, prefixed by that event.                                *)
NewOperatorActivityRetry(inst, command, step, at, deadline) ==
    [NewActivityRetry(<<command, "operator">>, inst, step, at, deadline, command)
        EXCEPT !.events = <<Audit(at, "retryActivity")>> \o @]
=============================================================================
