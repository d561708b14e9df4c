---------------------- MODULE CompensationTransitions ----------------------
(***************************************************************************)
(* The constructors of compensation_transition.go and the operator's two   *)
(* compensation commands (operator_work.go).  Starting and retrying a      *)
(* compensation is refused unless the instance runs or is being cancelled; *)
(* recording its outcome is not, nor is resolving it by hand.  The         *)
(* transitions are those of an activity's attempt, about the unit that     *)
(* undoes it.                                                              *)
(***************************************************************************)
EXTENDS ActivityTransitions

Compensable == {"running", "cancelling"}

CanScheduleCompensation(inst, unit, at, deadline) ==
    /\ inst.status \in Compensable
    /\ inst.units[Undoes[unit]].status = "succeeded"
    /\ inst.units[unit].status = "none"
    /\ at >= inst.updatedAt
    /\ PendingWorkValid(at, deadline)

NewCompensationSchedule(inst, unit, at, deadline, w) ==
    NewActivitySchedule(inst, unit, at, deadline, w)

CanStartCompensation(inst, lease, startedAt) ==
    /\ inst.status \in Compensable
    /\ AttemptFits(inst.units[lease.work[1]], lease, startedAt)
    /\ startedAt >= inst.updatedAt

NewCompensationAttemptStart(inst, lease, startedAt) ==
    NewActivityAttemptStart(inst, lease, startedAt)

CanRecordCompensation(inst, w, at) ==
    /\ inst.units[w[1]].status = "running"
    /\ inst.units[w[1]].attempt = w[2]
    /\ at >= inst.updatedAt

NewCompensationAttemptOutcome(inst, w, at, outcome) ==
    NewActivityAttemptOutcome(inst, w, at, outcome)

CanRetryCompensation(inst, unit, at, deadline) ==
    /\ inst.status \in Compensable
    /\ at >= inst.updatedAt
    /\ RetryFits(inst.units[unit], at, deadline)

NewCompensationRetry(id, inst, unit, at, deadline, origin) ==
    NewActivityRetry(id, inst, unit, at, deadline, origin)

-----------------------------------------------------------------------------
(* NewOperatorCompensation: the audit event and the schedule.              *)
NewOperatorCompensation(inst, command, unit, at, deadline) ==
    [NewCompensationSchedule(inst, unit, at, deadline, <<unit, 1, command>>)
        EXCEPT !.id = <<command, "operator">>,
               !.events = <<Audit(at, "compensate")>> \o @]

CanResolve(inst, unit, at) ==
    inst.units[unit].status \in {"failed", "unknown"} /\ at >= inst.updatedAt

NewOperatorCompensationResolution(inst, command, unit, at) ==
    Transition(<<command, "operator">>, inst.sequence,
               <<Audit(at, "resolveCompensation"),
                 UnitEvent("manuallyResolved", at, unit, 0)>>, {})
=============================================================================
