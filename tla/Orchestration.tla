--------------------------- MODULE Orchestration ---------------------------
(***************************************************************************)
(* One orchestrated instance from its start to its end: the application's  *)
(* planner loop, the processors of its activities and children, its timer, *)
(* the senders of its signals, and an operator who approves and pauses.    *)
(*                                                                         *)
(* Leases are those StepExecution and WorkLease are about: here a piece of *)
(* work has one processor at a time, which may die (Lose), and what a      *)
(* processor decides it commits in the same step unless a call lies        *)
(* between, since a decision on a stale snapshot commits nothing.  A       *)
(* handler's outcome is committed against the sequence its processor saw   *)
(* before the call.                                                        *)
(*                                                                         *)
(* The application is a careful one where a constructor looks at nothing   *)
(* (WaitTransitions): it commits a timer or signal only when the instance  *)
(* it has read will accept it.  Its planner reads the clock of everyone.   *)
(***************************************************************************)
EXTENDS Processors, Planner

CONSTANTS
    Definitions,    \* the definitions an instance may be pinned to
    Allowance,      \* how long work may take that the planner schedules
    MaxPauses,      \* bound: pauses in one behaviour
    MaxTime         \* bound: the last instant of the clock

ASSUME OrchestrationAssumption ==
    /\ \A d \in Definitions : Plannable(d)
    /\ Allowance \in Nat \ {0}
    /\ MaxPauses \in Nat
    /\ MaxTime \in Nat

VARIABLES
    now,        \* the Clock every process reads
    definition, \* the definition the instance is pinned to
    sequence,   \* workflow_instances.sequence
    instance,   \* what Replay makes of workflow_history
    work,       \* workflow_work
    calls,      \* for work whose handler is running, the sequence its
                \* processor saw before the call; 0 for other work
    pauses      \* pauses so far

vars == <<now, definition, sequence, instance, work, calls, pauses>>

Timers == {s \in Waits : Kind[s] = "timer"}

WorkIDs ==
    (Units \X (1 .. Policy.maxAttempts) \X {"auto"}) \cup (Timers \X {1} \X {"auto"})

Init ==
    /\ now = 1
    /\ definition \in Definitions
    /\ sequence = 1
    /\ instance = Started(1)
    /\ work = [w \in WorkIDs |-> AbsentRow]
    /\ calls = [w \in WorkIDs |-> 0]
    /\ pauses = 0

-----------------------------------------------------------------------------
(* Mutant of Land: a transition advances the sequence by one, however many *)
(* events it has.                                                          *)
LandOne(t, done) ==
    /\ sequence' = sequence + 1
    /\ instance' = Appended(instance, t.events)
    /\ work' = [w \in WorkIDs |->
                  CASE \E k \in t.work : k.id = w ->
                         LET k == CHOOSE k \in t.work : k.id = w
                         IN  InsertedRow(k.available, k.deadline)
                    [] w \in done -> CompletedRow(work[w])
                    [] OTHER      -> work[w]]

(* A commit on the sequence as it is, and the completion of the work done. *)
Land(t, done) ==
    /\ sequence' = sequence + Len(t.events)
    /\ instance' = Appended(instance, t.events)
    /\ work' = [w \in WorkIDs |->
                  CASE \E k \in t.work : k.id = w ->
                         LET k == CHOOSE k \in t.work : k.id = w
                         IN  InsertedRow(k.available, k.deadline)
                    [] w \in done -> CompletedRow(work[w])
                    [] OTHER      -> work[w]]

(* The application looks before it commits.                                *)
Accepted(t) == Readable(instance) /\ Readable(Appended(instance, t.events))

Tick ==
    /\ now < MaxTime
    /\ now' = now + 1
    /\ UNCHANGED <<definition, sequence, instance, work, calls, pauses>>

(* The planner loop: decide, and commit unless it is to wait.              *)
Decide ==
    \E decision \in {NewOrchestrationDecision(instance, definition, now, now + Allowance)} :
        /\ Readable(instance)
        /\ decision.kind \notin {"waiting", "error"}
        /\ Land(decision.tx, {})
        /\ UNCHANGED <<now, definition, calls, pauses>>

-----------------------------------------------------------------------------
(* The work of activities and children.                                    *)

LeaseOn(w) ==
    [work |-> w, token |-> 1, claimedAt |-> now, expires |-> now + 1,
     available |-> work[w].available, deadline |-> work[w].deadline]

(* A processor takes the work up, and a start that is durable is followed  *)
(* by a call.  A committed retry completes the work it is committed for.   *)
Deliver(w) ==
    /\ w[1] \in Units
    /\ Due(work[w], now)
    /\ calls[w] = 0
    /\ Readable(instance)
    /\ \E next \in {Process(instance, LeaseOn(w), now)} :
          \/ /\ next.pc = "commit"
             /\ Land(next.tx, IF next.tx.id[2] = "retry" THEN {w} ELSE {})
             /\ calls' = IF next.tx.id[2] = "start"
                         THEN [calls EXCEPT ![w] = sequence'] ELSE calls
          \/ /\ next.pc = "finish"
             /\ work' = [work EXCEPT ![w] =
                    IF next.decision = "complete" THEN CompletedRow(@) ELSE DeadLetteredRow(@)]
             /\ UNCHANGED <<sequence, instance, calls>>
    /\ UNCHANGED <<now, definition, pauses>>

(* After its start is durable the processor inspects the instance again,   *)
(* before it calls; others may have committed in between.  What it sees is *)
(* what the outcome is built on.  Past the deadline there is no call.      *)
Inspect(w) ==
    /\ calls[w] # 0
    /\ calls[w] # sequence
    /\ Readable(instance)
    /\ instance.units[w[1]].dueAt > now
    /\ calls' = [calls EXCEPT ![w] = sequence]
    /\ UNCHANGED <<now, definition, sequence, instance, work, pauses>>

Answers(w) == IF Kind[w[1]] = "child" THEN ChildStartOutcomes ELSE Outcomes

(* The handler or starter answers and nobody has committed since the       *)
(* processor inspected the instance.                                       *)
Answer(w) ==
    /\ calls[w] = sequence
    /\ \E outcome \in Answers(w) :
          \E next \in {Persist(instance, LeaseOn(w), now, outcome)} :
              next.pc = "commit" /\ Land(next.tx, {})
    /\ calls' = [calls EXCEPT ![w] = 0]
    /\ UNCHANGED <<now, definition, pauses>>

(* The answer comes to nothing: its processor has died, or the commit of   *)
(* the outcome is refused because the sequence has moved on.               *)
Lose(w) ==
    /\ calls[w] # 0
    /\ calls' = [calls EXCEPT ![w] = 0]
    /\ UNCHANGED <<now, definition, sequence, instance, work, pauses>>

-----------------------------------------------------------------------------
(* Timers, signals, approvals, children.                                   *)

FireTimer(w) ==
    /\ w[1] \in Timers
    /\ Due(work[w], now)
    /\ CanFire(work[w], now)
    /\ \E t \in {NewTimerFire(instance, w, now)} : Accepted(t) /\ Land(t, {w})
    /\ UNCHANGED <<now, definition, calls, pauses>>

Signal(s) ==
    /\ Kind[s] = "signal"
    /\ s \in Range(definition)
    /\ \E t \in {NewSignalAcceptance(instance, s, s, now)} : Accepted(t) /\ Land(t, {})
    /\ UNCHANGED <<now, definition, calls, pauses>>

Approve(s) ==
    /\ Kind[s] = "approval"
    /\ s \in Range(definition)
    /\ \E t \in {NewOperatorApproval(instance, s, s, now)} : Accepted(t) /\ Land(t, {})
    /\ UNCHANGED <<now, definition, calls, pauses>>

ReportChild(u) ==
    /\ Kind[u] = "child"
    /\ instance.units[u].status \in {"active", "unknown"}
    /\ Readable(instance)
    /\ CanReportChild(instance, u, now)
    /\ \E kind \in {"childCompleted", "childFailed"} :
          Land(NewChildOutcome(instance, u, now, kind), {})
    /\ UNCHANGED <<now, definition, calls, pauses>>

Operate(action) ==
    /\ Readable(instance)
    /\ CanCommand(instance, action, now)
    /\ Land(NewOperatorLifecycleCommand(instance, "operator", action, now), {})
    /\ UNCHANGED <<now, definition, calls>>

Pause == pauses < MaxPauses /\ Operate("pause") /\ pauses' = pauses + 1

Resume == Operate("resume") /\ UNCHANGED pauses

-----------------------------------------------------------------------------
Step ==
    \/ Tick
    \/ Decide
    \/ \E w \in WorkIDs : Deliver(w) \/ Inspect(w) \/ Answer(w) \/ Lose(w) \/ FireTimer(w)
    \/ \E s \in Waits : Signal(s) \/ Approve(s)
    \/ \E u \in Units : ReportChild(u)

Next == Step \/ Pause \/ Resume

Spec == Init /\ [][Next]_vars

(* Something happens as long as something can: the planner is called again *)
(* and again, workers poll, a call ends one way or the other, time passes; *)
(* and outside, the signals a definition waits for are sent, approvals     *)
(* given, children reported.  No behaviour repeats a state, so this much   *)
(* is fair to each of them.  Nothing is assumed of pauses.                 *)
Fairness == WF_vars(Step)

FairSpec == Spec /\ Fairness

-----------------------------------------------------------------------------
(* Properties.                                                             *)

Progress == [status: UnitStatuses, attempt: Nat, key: WorkIDs \cup {NoKey},
             dueAt: Nat, retryable: BOOLEAN]

WaitProgress == [status: WaitStatuses, at: Nat, winner: Waits \cup {NoKey}]

(* The types, and that the row of the instance has the sequence its        *)
(* history replays to, which every processor's commit expects.             *)
TypeOK ==
    /\ now \in Nat
    /\ definition \in Definitions
    /\ sequence \in Nat
    /\ instance \in [valid: BOOLEAN, status: Statuses, sequence: Nat, updatedAt: Nat,
                     pendingOperator: {NoAction} \cup DOMAIN operatorEventKind,
                     units: [Units -> Progress], waits: [Waits -> WaitProgress]]
    /\ work \in [WorkIDs -> Row]
    /\ calls \in [WorkIDs -> 0 .. sequence]
    /\ Readable(instance) => instance.sequence = sequence

(* What a step has put under way, signals excepted: they may come early.   *)
Begun(inst, s) ==
    CASE s \in Units                       -> inst.units[s].status # "none"
      [] Kind[s] \in {"timer", "race"}     -> inst.waits[s].status # "none"
      [] Kind[s] = "parallel"              ->
            \E b \in Range(Branches[s]) : inst.units[b].status # "none"
      [] OTHER                             -> FALSE

(* A step begins only when every step before it is done and stays done,    *)
(* whatever is delivered late or lost and whenever signals come            *)
(* (NewOrchestrationDecision: "selects the first incomplete ordered step   *)
(* from replayed progress").                                               *)
StepsInOrder ==
    \A i, j \in Planned(definition) :
        i < j /\ Begun(instance, definition[j]) => StepDone(instance, definition[i])

(* An instance ends only on what is known: completed when every step is    *)
(* done, failed when some unit's failure is known and final.  An outcome   *)
(* nobody knows never ends it (NewOrchestrationDecision: "Known exhausted  *)
(* failures terminate; unknown activity/child outcomes wait").             *)
VerdictIsKnown ==
    /\ instance.status = "completed" =>
          \A i \in Planned(definition) : StepDone(instance, definition[i])
    /\ instance.status = "failed" =>
          \E u \in Units :
              FinalFailure(instance.units[u]) \/ instance.units[u].status = "childFailed"

(* The recorded winner of a race came no later than any other signal of    *)
(* the race, those that came after the decision included                   *)
(* (NewOrchestrationDecision: "Races choose the earliest persisted signal  *)
(* time").                                                                 *)
WinnerIsEarliest ==
    \A s \in Waits :
        instance.waits[s].status = "won" =>
            \A b \in Range(Branches[s]) :
                instance.waits[b].status = "received" =>
                    instance.waits[instance.waits[s].winner].at <= instance.waits[b].at

(* docs/architecture.md: "The history is authoritative.  Replaying the     *)
(* same ordered events against the same pinned definition produces the     *)
(* same instance snapshot": whatever has been committed can be replayed.   *)
HistoryReplayable == Readable(instance)

(* The deadline of a piece of work leaves no time for what remains to be   *)
(* done: an attempt with its timeout, or else the recording of an outcome  *)
(* or the timer's firing.  Nobody claims work past its deadline.           *)
OutOfTime(w) ==
    /\ calls[w] = 0
    /\ IF w[1] \in Units /\ instance.units[w[1]].status \in {"ready", "retryWaiting"}
       THEN now + Timeout > work[w].deadline
       ELSE now >= work[w].deadline

(* A step that is under way has no work left that could carry it on.       *)
Starved(s) ==
    /\ IF s \in Units
       THEN \/ instance.units[s].status \in {"ready", "running", "retryWaiting"}
            \/ /\ instance.units[s].status = "failed"
               /\ instance.units[s].retryable
               /\ instance.units[s].attempt < Policy.maxAttempts
       ELSE instance.waits[s].status = "waiting"
    /\ \A w \in WorkIDs : w[1] = s /\ work[w].state = "ready" => OutOfTime(w)

(* The clock stops before some work becomes available.                     *)
BeyondHorizon ==
    \E w \in WorkIDs : work[w].state = "ready" /\ work[w].available > MaxTime

Excused ==
    \/ \E u \in Units : instance.units[u].status = "unknown"
    \/ \E s \in Units \cup Timers : Starved(s)
    \/ BeyondHorizon
    \/ ~Readable(instance)

(* An instance that is not paused for good ends, except where the code     *)
(* leaves it to a person: an unknown outcome, an attempt whose deadline    *)
(* ran out, a history that cannot be read.                                 *)
InstanceFinishes ==
    []<>(instance.status # "paused") => <>(instance.status \in Terminal \/ Excused)
=============================================================================
