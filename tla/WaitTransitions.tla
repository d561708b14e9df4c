-------------------------- MODULE WaitTransitions --------------------------
(***************************************************************************)
(* The constructors of wait_transition.go and the operator's approval      *)
(* (operator_work.go).  They take the sequence to expect from their caller *)
(* and look at nothing in the instance: whether replay will accept the     *)
(* event is the caller's business.                                         *)
(***************************************************************************)
EXTENDS ActivityTransitions

CanScheduleTimer(at, deadline) == PendingWorkValid(at + Timeout, deadline)

NewTimerSchedule(inst, step, at, deadline, w) ==
    Transition(<<w, "schedule">>, inst.sequence,
               <<[WaitEvent("timerScheduled", at, step) EXCEPT !.dueAt = at + Timeout]>>,
               {PendingWork(w, at + Timeout, deadline)})

CanFire(row, at) == at >= row.available /\ at < row.deadline

NewTimerFire(inst, w, at) ==
    Transition(<<w, "fire">>, inst.sequence, <<WaitEvent("timerFired", at, w[1])>>, {})

(* The identity of the signal becomes that of the transition.              *)
NewSignalAcceptance(inst, signal, step, at) ==
    Transition(<<signal, "signal">>, inst.sequence,
               <<WaitEvent("signalReceived", at, step)>>, {})

NewOperatorApproval(inst, command, step, at) ==
    Transition(<<command, "operator">>, inst.sequence,
               <<Audit(at, "approve"), WaitEvent("signalReceived", at, step)>>, {})
=============================================================================
