-------------------------- MODULE ChildTransitions --------------------------
(***************************************************************************)
(* The constructors of child_transition.go.  All of them refuse a parent   *)
(* that is not running, the recording of a known outcome included.  The    *)
(* transitions of a start attempt are those of an activity's attempt.      *)
(***************************************************************************)
EXTENDS ActivityTransitions

CanScheduleChild(inst, unit, at, deadline) ==
    /\ inst.status = "running"
    /\ inst.units[unit].status = "none"
    /\ at >= inst.updatedAt
    /\ PendingWorkValid(at, deadline)

(* The first attempt's idempotency key is the child's identity, a retry's  *)
(* is derived from its work: each names the attempt, as the work does.     *)
NewChildSchedule(inst, unit, at, deadline, w) ==
    NewActivitySchedule(inst, unit, at, deadline, w)

CanStartChild(inst, lease, startedAt) ==
    /\ inst.status = "running"
    /\ AttemptFits(inst.units[lease.work[1]], lease, startedAt)
    /\ startedAt >= inst.updatedAt

NewChildStartAttempt(inst, lease, startedAt) ==
    NewActivityAttemptStart(inst, lease, startedAt)

(* Mutant of CanRecordChildStart: the parent's status is not looked at.    *)
CanRecordChildStartBlind(inst, w, at) ==
    /\ inst.units[w[1]].status = "running"
    /\ inst.units[w[1]].attempt = w[2]
    /\ at >= inst.updatedAt

CanRecordChildStart(inst, w, at) ==
    /\ inst.status = "running"
    /\ inst.units[w[1]].status = "running"
    /\ inst.units[w[1]].attempt = w[2]
    /\ at >= inst.updatedAt

NewChildStartAttemptOutcome(inst, w, at, outcome) ==
    NewActivityAttemptOutcome(inst, w, at, outcome)

CanRetryChild(inst, unit, at, deadline) ==
    /\ inst.status = "running"
    /\ at >= inst.updatedAt
    /\ RetryFits(inst.units[unit], at, deadline)

NewChildStartRetry(id, inst, unit, at, deadline, origin) ==
    NewActivityRetry(id, inst, unit, at, deadline, origin)

(* NewChildOutcome: what became of the child, told to its parent.          *)
CanReportChild(inst, unit, at) ==
    /\ inst.status = "running"
    /\ childTerminalOutcomeAllowed(inst.units[unit].status)
    /\ at >= inst.updatedAt

NewChildOutcome(inst, unit, at, kind) ==
    Transition(<<unit, "child">>, inst.sequence, <<UnitEvent(kind, at, unit, 0)>>, {})
=============================================================================
