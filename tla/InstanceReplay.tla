--------------------------- MODULE InstanceReplay ---------------------------
(***************************************************************************)
(* Replay: how an Instance is rebuilt from persisted events (history.go    *)
(* and the *_history.go files).  Replay is a fold of apply over the        *)
(* events, so an instance here is the value of the fold, and appending     *)
(* events applies them.  An event that apply rejects makes the whole       *)
(* history unreadable, for good: that is valid = FALSE.                    *)
(*                                                                         *)
(* A unit is what is attempted and retried: an activity step, the          *)
(* compensation of one, a child step.  A wait is a timer, signal, approval *)
(* or race step.  Definitions are pinned, so the kinds of steps and the    *)
(* policies are constants; payload bytes, codes and actors are left out.   *)
(***************************************************************************)
EXTENDS RetryPolicy, Sequences

CONSTANTS
    Kind,       \* the kind of every unit, wait and control step
    Undoes,     \* the activity a compensation undoes
    Branches,   \* the branches of a parallel, join or race step, in order
    Policy,     \* RetryPolicy [maxAttempts, initialDelay, maxDelay] of units
    Timeout,    \* Timeout of units and timers
    NoKey       \* no idempotency key

UnitKinds == {"activity", "compensation", "child"}
WaitKinds == {"timer", "signal", "approval", "race"}
ControlKinds == {"parallel", "join"}

ASSUME PolicyAssumption ==
    Policy \in Policies /\ validRetry(Policy) /\ Timeout \in Nat \ {0}

(* A step has a name: the empty one stands for the instance in an event.   *)
ASSUME KindAssumption ==
    /\ \A s \in DOMAIN Kind : Kind[s] \in UnitKinds \cup WaitKinds \cup ControlKinds
    /\ "" \notin DOMAIN Kind

Units == {s \in DOMAIN Kind : Kind[s] \in UnitKinds}
Waits == {s \in DOMAIN Kind : Kind[s] \in WaitKinds}

Terminal == {"completed", "failed", "cancelled", "terminated", "continuedAsNew"}
Statuses == {"running", "paused", "cancelling"} \cup Terminal

ActivityStatuses ==
    {"none", "ready", "running", "succeeded", "failed", "unknown", "retryWaiting"}
CompensationStatuses == ActivityStatuses \cup {"manuallyResolved"}
ChildStatuses == ActivityStatuses \cup {"active", "childFailed"}
UnitStatuses == CompensationStatuses \cup ChildStatuses
WaitStatuses == {"none", "waiting", "fired", "received", "won"}

LifecycleKinds ==
    {"paused", "resumed", "cancellationRequested", "instanceCancelled",
     "instanceCompleted", "instanceFailed", "instanceTerminated",
     "instanceContinued"}

OutcomeKinds == {"succeeded", "failed", "unknown"}
ChildStartOutcomeKinds == {"started", "failed", "unknown"}

(* operatorEventKind: the event an audited action must be followed by.     *)
operatorEventKind ==
    [pause               |-> <<"instance", "paused">>,
     resume              |-> <<"instance", "resumed">>,
     cancel              |-> <<"instance", "cancellationRequested">>,
     terminate           |-> <<"instance", "instanceTerminated">>,
     retryActivity       |-> <<"activity", "retryScheduled">>,
     compensate          |-> <<"compensation", "scheduled">>,
     resolveCompensation |-> <<"compensation", "manuallyResolved">>,
     approve             |-> <<"wait", "signalReceived">>]

NoAction == "none"

NoProgress ==
    [status |-> "none", attempt |-> 0, key |-> NoKey, dueAt |-> 0,
     retryable |-> FALSE]

NoWait == [status |-> "none", at |-> 0, winner |-> NoKey]

(* What applyStart leaves of a Started event at time at.                   *)
Started(at) ==
    [valid |-> TRUE, status |-> "running", sequence |-> 1, updatedAt |-> at,
     pendingOperator |-> NoAction,
     units |-> [u \in Units |-> NoProgress],
     waits |-> [s \in Waits |-> NoWait]]

-----------------------------------------------------------------------------
(* Events.                                                                 *)

Event(kind, at) ==
    [kind |-> kind, at |-> at, step |-> "", attempt |-> 0, key |-> NoKey,
     dueAt |-> 0, retryable |-> FALSE, action |-> NoAction]

UnitEvent(kind, at, unit, attempt) ==
    [Event(kind, at) EXCEPT !.step = unit, !.attempt = attempt]

(* A race's event carries its winner as data, which is its key here.       *)
WaitEvent(kind, at, step) == [Event(kind, at) EXCEPT !.step = step]

EventKind(e) ==
    <<CASE e.step \in Units -> Kind[e.step]
        [] e.step \in Waits -> "wait"
        [] OTHER             -> "instance", e.kind>>

-----------------------------------------------------------------------------
(* apply: the lifecycle cases of the switch.                               *)

LifecycleFrom ==
    [paused                |-> {"running"},
     resumed               |-> {"paused"},
     cancellationRequested |-> {"running", "paused"},
     instanceCancelled     |-> {"cancelling"},
     instanceCompleted     |-> {"running"},
     instanceFailed        |-> {"running"},
     instanceTerminated    |-> Statuses \ Terminal,
     instanceContinued     |-> {"running"}]

LifecycleTo ==
    [paused                |-> "paused",
     resumed               |-> "running",
     cancellationRequested |-> "cancelling",
     instanceCancelled     |-> "cancelled",
     instanceCompleted     |-> "completed",
     instanceFailed        |-> "failed",
     instanceTerminated    |-> "terminated",
     instanceContinued     |-> "continuedAsNew"]

-----------------------------------------------------------------------------
(* The events of one attempt, as far as the three kinds of units agree.    *)

AttemptStarts(progress, e) ==
    /\ progress.status \in {"ready", "retryWaiting"}
    /\ e.attempt = progress.attempt + 1
    /\ e.attempt <= Policy.maxAttempts
    /\ e.dueAt = e.at + Timeout
    /\ progress.status = "retryWaiting" => e.at >= progress.dueAt

activityOutcomeAllowed(progress, e) ==
    progress.status = "running" /\ e.attempt = progress.attempt

RetryFollows(progress, e) ==
    /\ progress.status = "failed"
    /\ progress.retryable
    /\ progress.attempt < Policy.maxAttempts
    /\ e.attempt = progress.attempt
    /\ e.dueAt = e.at + retryDelay(Policy, e.attempt)

(* applyActivity: when an event is accepted ...                            *)
ActivityAccepts(inst, e) ==
    LET progress == inst.units[e.step]
    IN  \/ /\ e.kind = "scheduled"
           /\ inst.status = "running"
           /\ progress.status = "none"
        \/ /\ e.kind = "attemptStarted"
           /\ inst.status = "running"
           /\ AttemptStarts(progress, e)
        \/ /\ e.kind \in OutcomeKinds
           /\ activityOutcomeAllowed(progress, e)
        \/ /\ e.kind = "retryScheduled"
           /\ inst.status = "running"
           /\ RetryFollows(progress, e)

(* ... and what it makes of the step's progress.                           *)
applyActivity(progress, e) ==
    CASE e.kind = "scheduled" -> [NoProgress EXCEPT !.status = "ready"]
      [] e.kind = "attemptStarted" ->
            [status |-> "running", attempt |-> e.attempt, key |-> e.key,
             dueAt |-> e.dueAt, retryable |-> FALSE]
      [] e.kind \in OutcomeKinds ->
            [progress EXCEPT !.status = e.kind, !.dueAt = 0,
                             !.retryable = e.retryable]
      [] e.kind = "retryScheduled" ->
            [progress EXCEPT !.status = "retryWaiting", !.dueAt = e.dueAt]

(* applyCompensation looks at the instance's status when a compensation is *)
(* scheduled and at no other time.                                         *)
CompensationAccepts(inst, e) ==
    LET progress == inst.units[e.step]
    IN  \/ /\ e.kind = "scheduled"
           /\ inst.status \in {"running", "cancelling"}
           /\ progress.status = "none"
           /\ inst.units[Undoes[e.step]].status = "succeeded"
        \/ e.kind = "attemptStarted" /\ AttemptStarts(progress, e)
        \/ e.kind \in OutcomeKinds /\ activityOutcomeAllowed(progress, e)
        \/ e.kind = "retryScheduled" /\ RetryFollows(progress, e)
        \/ /\ e.kind = "manuallyResolved"
           /\ progress.status \in {"failed", "unknown"}

(* Mutant of applyCompensation: what was resolved by hand counts as undone *)
(* successfully.                                                           *)
applyCompensationAsSuccess(progress, e) ==
    IF e.kind = "manuallyResolved"
    THEN [progress EXCEPT !.status = "succeeded", !.retryable = FALSE]
    ELSE applyActivity(progress, e)

applyCompensation(progress, e) ==
    IF e.kind = "manuallyResolved"
    THEN [progress EXCEPT !.status = "manuallyResolved", !.retryable = FALSE]
    ELSE applyActivity(progress, e)

(* applyChild accepts nothing unless the parent is running.                *)
childTerminalOutcomeAllowed(status) ==
    status \in {"ready", "running", "active", "unknown"}

ChildAccepts(inst, e) ==
    LET progress == inst.units[e.step]
    IN  /\ inst.status = "running"
        /\ \/ e.kind = "scheduled" /\ progress.status = "none"
           \/ e.kind = "attemptStarted" /\ AttemptStarts(progress, e)
           \/ e.kind \in ChildStartOutcomeKinds /\ activityOutcomeAllowed(progress, e)
           \/ e.kind = "retryScheduled" /\ RetryFollows(progress, e)
           \/ /\ e.kind \in {"childCompleted", "childFailed"}
              /\ childTerminalOutcomeAllowed(progress.status)

(* A child's own outcome leaves the deadline of a start under way alone.   *)
applyChild(progress, e) ==
    CASE e.kind = "started" -> [progress EXCEPT !.status = "active", !.dueAt = 0]
      [] e.kind = "childCompleted" -> [progress EXCEPT !.status = "succeeded"]
      [] e.kind = "childFailed" -> [progress EXCEPT !.status = "childFailed"]
      [] OTHER -> applyActivity(progress, e)

-----------------------------------------------------------------------------
(* applyWait and applyRace.                                                *)

SignalAccepts(inst, e) ==
    /\ e.kind = "signalReceived"
    /\ Kind[e.step] \in {"signal", "approval"}
    /\ inst.status \in {"running", "paused"}
    /\ inst.waits[e.step].status = "none"

TimerAccepts(inst, e) ==
    LET progress == inst.waits[e.step]
    IN  /\ Kind[e.step] = "timer"
        /\ inst.status = "running"
        /\ \/ /\ e.kind = "timerScheduled"
              /\ progress.status = "none"
              /\ e.dueAt = e.at + Timeout
           \/ /\ e.kind = "timerFired"
              /\ progress.status = "waiting"
              /\ e.at >= progress.at

RaceAccepts(inst, e) ==
    /\ e.kind = "raceWon"
    /\ Kind[e.step] = "race"
    /\ inst.status = "running"
    /\ \E i \in DOMAIN Branches[e.step] : Branches[e.step][i] = e.key
    /\ inst.waits[e.key].status = "received"
    /\ inst.waits[e.step].status = "none"

applyWait(e) ==
    CASE e.kind = "timerScheduled" -> [NoWait EXCEPT !.status = "waiting", !.at = e.dueAt]
      [] e.kind = "timerFired"     -> [NoWait EXCEPT !.status = "fired", !.at = e.at]
      [] e.kind = "signalReceived" -> [NoWait EXCEPT !.status = "received", !.at = e.at]
      [] e.kind = "raceWon"        -> [status |-> "won", at |-> e.at, winner |-> e.key]

-----------------------------------------------------------------------------
(* apply, without its identity checks: events here carry no sequence or    *)
(* instance of their own, the transition that appends them does.           *)
Accepts(inst, e) ==
    /\ e.at >= inst.updatedAt
    /\ inst.status \notin Terminal
    /\ inst.pendingOperator # NoAction =>
          EventKind(e) = operatorEventKind[inst.pendingOperator]
    /\ CASE e.step \in Units ->
              \/ Kind[e.step] = "activity" /\ ActivityAccepts(inst, e)
              \/ Kind[e.step] = "compensation" /\ CompensationAccepts(inst, e)
              \/ Kind[e.step] = "child" /\ ChildAccepts(inst, e)
         [] e.step \in Waits ->
              SignalAccepts(inst, e) \/ TimerAccepts(inst, e) \/ RaceAccepts(inst, e)
         [] OTHER ->
              \/ e.kind \in LifecycleKinds /\ inst.status \in LifecycleFrom[e.kind]
              \/ e.kind = "operatorRecorded" /\ inst.pendingOperator = NoAction

ApplyUnit(unit, progress, e) ==
    CASE Kind[unit] = "activity"     -> applyActivity(progress, e)
      [] Kind[unit] = "compensation" -> applyCompensation(progress, e)
      [] Kind[unit] = "child"        -> applyChild(progress, e)

Apply(inst, e) ==
    IF ~inst.valid \/ ~Accepts(inst, e) THEN [inst EXCEPT !.valid = FALSE]
    ELSE [inst EXCEPT
            !.sequence = @ + 1,
            !.updatedAt = e.at,
            !.pendingOperator = e.action,
            !.status = IF e.kind \in LifecycleKinds THEN LifecycleTo[e.kind] ELSE @,
            !.units =
                IF e.step \in Units
                THEN [inst.units EXCEPT
                        ![e.step] = ApplyUnit(e.step, inst.units[e.step], e)]
                ELSE @,
            !.waits =
                IF e.step \in Waits
                THEN [inst.waits EXCEPT ![e.step] = applyWait(e)] ELSE @]

Appended(inst, events) ==
    LET replayed[n \in 0 .. Len(events)] ==
            IF n = 0 THEN inst ELSE Apply(replayed[n - 1], events[n])
    IN  replayed[Len(events)]

(* InspectInstance succeeds: Replay rejects an audit without its action.   *)
Readable(inst) == inst.valid /\ inst.pendingOperator = NoAction
=============================================================================
