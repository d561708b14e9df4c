--------------------------- MODULE StepExecution ---------------------------
(***************************************************************************)
(* The work processors: how leased activity, compensation and child work   *)
(* becomes at most one call of a handler or child starter per attempt and  *)
(* a durable outcome.                                                      *)
(*                                                                         *)
(* One workflow instance; several processors, each with its own worker     *)
(* identity; an application that schedules units and reports what became   *)
(* of children; an operator that pauses, resumes, cancels, terminates,     *)
(* retries, compensates and resolves.  A processor step is a store call or *)
(* the clock reading that precedes one, and between any two the others may *)
(* act, the processor may die, or a commit may be answered by an error     *)
(* that leaves its fate open.                                              *)
(*                                                                         *)
(* The store is seen as TransitionLog describes it: a transition commits   *)
(* whole or not at all, exact replay is accepted, and the expected         *)
(* sequence must be the current one.  A processor's snapshot and the clock *)
(* reading that follows it are one step: a commit that slips in between    *)
(* leaves the expected sequence stale, which the commit step meets anyway. *)
(***************************************************************************)
EXTENDS Processors, FiniteSets

CONSTANTS
    Done,           \* activities that have succeeded before the behaviour starts
    LeaseDuration,  \* WorkerConfig.LeaseDuration
    Deadlines,      \* deadlines the application may give to work
    Commands,       \* identities of operator commands
    OperatorActions,\* actions the operator may take
    ScheduleBy,     \* bound: the last instant at which units are scheduled
    MaxScheduled,   \* bound: units scheduled in one behaviour
    MaxTime,        \* bound: the last instant of the clock
    MaxFaults       \* bound: deaths and unknown commits

Workers == Owners

WorkIDs == (Units \ Done) \X (1 .. Policy.maxAttempts) \X ({"auto"} \cup Commands)

ASSUME ExecutionAssumption ==
    /\ Done \subseteq {u \in Units : Kind[u] = "activity"} /\ IsFiniteSet(Done)
    /\ LeaseDuration \in Nat \ {0}
    /\ Deadlines \subseteq Nat
    /\ OperatorActions \subseteq DOMAIN operatorEventKind
    /\ ScheduleBy \in Nat
    /\ MaxScheduled \in Nat
    /\ MaxTime \in Nat
    /\ MaxFaults \in Nat

VARIABLES
    now,        \* the Clock every process reads
    sequence,   \* workflow_instances.sequence
    committed,  \* workflow_transitions
    instance,   \* what Replay makes of workflow_history
    work,       \* workflow_work
    proc,       \* the processors
    wire,       \* the staged transition whose commit was answered by an
                \* error, if any: it locks the instance until it is settled
    runs,       \* calls of a handler or starter so far, per unit and attempt
    effects,    \* attempts that took effect: the handler answered success,
                \* the starter created the child
    faults      \* faults so far

store == <<sequence, committed, instance>>
ghost == <<runs, effects>>
vars == <<now, sequence, committed, instance, work, proc, wire, runs, effects, faults>>

Committing == {"commit", "recommit"}

PCs == {"idle", "load", "reconcile", "inspect", "handler", "after", "finish"}
          \cup Committing

Attempts == Units \X (1 .. Policy.maxAttempts)

(* What replay makes of an activity that was scheduled, tried and done.    *)
(* Its transitions and its work row, which nothing consults again, are     *)
(* left out.                                                               *)
SucceededProgress(u) ==
    [status |-> "succeeded", attempt |-> 1, key |-> <<u, 1, "auto">>,
     dueAt |-> 0, retryable |-> FALSE]

Init ==
    /\ now = 1
    /\ instance = [Started(1) EXCEPT
          !.sequence = 1 + 3 * Cardinality(Done),
          !.units = [u \in Units |->
                       IF u \in Done THEN SucceededProgress(u) ELSE NoProgress]]
    /\ sequence = instance.sequence
    /\ committed = {}
    /\ work = [w \in WorkIDs |-> AbsentRow]
    /\ proc = [p \in Workers |-> Idle]
    /\ wire = {}
    /\ runs = [a \in Attempts |-> IF a[1] \in Done /\ a[2] = 1 THEN 1 ELSE 0]
    /\ effects = Done \X {1}
    /\ faults = 0

-----------------------------------------------------------------------------
(* The store's answer to a transition.                                     *)

Known(t) == \E u \in committed : u.id = t.id

(* Mutant of Fresh: the expected sequence is not compared.                 *)
FreshAnySequence(t) == ~Known(t) /\ \A w \in t.work : work[w.id].state = "absent"

(* stageTransition gets to its last statement.                             *)
Fresh(t) ==
    /\ ~Known(t)
    /\ t.expected = sequence
    /\ \A w \in t.work : work[w.id].state = "absent"

Exact(t) == t \in committed

(* lockInstance waits for a transaction that is still open on the instance *)
(* (insertHistory and updateInstance follow it).                           *)
Unlocked == wire = {}

Land(t) ==
    /\ Fresh(t)
    /\ sequence' = sequence + Len(t.events)
    /\ committed' = committed \cup {t}
    /\ instance' = Appended(instance, t.events)
    /\ work' = [w \in WorkIDs |->
                  IF \E k \in t.work : k.id = w
                  THEN LET k == CHOOSE k \in t.work : k.id = w
                       IN  InsertedRow(k.available, k.deadline)
                  ELSE work[w]]

-----------------------------------------------------------------------------
(* The clock, the application and the operator.                            *)

Tick ==
    /\ now < MaxTime
    /\ now' = now + 1
    /\ UNCHANGED <<store, work, proc, wire, ghost, faults>>

(* The application and an operator commit what they build from a snapshot, *)
(* and a stale one commits nothing, so reading and committing are one step.*)
Commit(t) == Unlocked /\ Land(t) /\ UNCHANGED <<now, proc, wire, ghost, faults>>

CanScheduleUnit(u, at, deadline) ==
    CASE Kind[u] = "activity"     -> CanSchedule(instance, u, at, deadline)
      [] Kind[u] = "compensation" -> CanScheduleCompensation(instance, u, at, deadline)
      [] Kind[u] = "child"        -> CanScheduleChild(instance, u, at, deadline)

ScheduleUnit(u, at, deadline) ==
    LET w == <<u, 1, "auto">>
    IN  CASE Kind[u] = "activity"     -> NewActivitySchedule(instance, u, at, deadline, w)
          [] Kind[u] = "compensation" -> NewCompensationSchedule(instance, u, at, deadline, w)
          [] Kind[u] = "child"        -> NewChildSchedule(instance, u, at, deadline, w)

MayScheduleMore ==
    /\ now <= ScheduleBy
    /\ Cardinality({u \in Units \ Done : instance.units[u].status # "none"}) < MaxScheduled

Schedule(u) ==
    \E deadline \in Deadlines :
        /\ MayScheduleMore
        /\ Readable(instance)
        /\ CanScheduleUnit(u, now, deadline)
        /\ Commit(ScheduleUnit(u, now, deadline))

(* The application tells the parent what became of a child.                *)
Exists(u) == \E a \in effects : a[1] = u

ReportChild(u) ==
    \E kind \in {"childCompleted", "childFailed"} :
        /\ Kind[u] = "child"
        /\ Exists(u)
        /\ Readable(instance)
        /\ CanReportChild(instance, u, now)
        /\ Commit(NewChildOutcome(instance, u, now, kind))

Command(c, action) ==
    /\ action \in OperatorActions
    /\ Readable(instance)
    /\ CanCommand(instance, action, now)
    /\ Commit(NewOperatorLifecycleCommand(instance, c, action, now))

CommandRetry(c, u) ==
    \E deadline \in Deadlines :
        /\ "retryActivity" \in OperatorActions
        /\ Kind[u] = "activity"
        /\ Readable(instance)
        /\ CanRetry(instance, u, now, deadline)
        /\ Commit(NewOperatorActivityRetry(instance, c, u, now, deadline))

CommandCompensate(c, u) ==
    \E deadline \in Deadlines :
        /\ "compensate" \in OperatorActions
        /\ Kind[u] = "compensation"
        /\ MayScheduleMore
        /\ Readable(instance)
        /\ CanScheduleCompensation(instance, u, now, deadline)
        /\ Commit(NewOperatorCompensation(instance, c, u, now, deadline))

CommandResolve(c, u) ==
    /\ "resolveCompensation" \in OperatorActions
    /\ Kind[u] = "compensation"
    /\ Readable(instance)
    /\ CanResolve(instance, u, now)
    /\ Commit(NewOperatorCompensationResolution(instance, c, u, now))

-----------------------------------------------------------------------------
(* Leases, at the granularity of one statement.  WorkLease splits them:    *)
(* where claims overlap on one row, two processors may hold it at once,    *)
(* and then both may call the handler of one attempt.                      *)

LeaseOf(w, row, at) ==
    [work |-> w, token |-> row.token, claimedAt |-> at, expires |-> row.expires,
     available |-> row.available, deadline |-> row.deadline]

Claim(p, w) ==
    LET row == ClaimedRow(work[w], p, now, LeaseDuration)
    IN  /\ proc[p].pc = "idle"
        /\ Due(work[w], now)
        /\ work' = [work EXCEPT ![w] = row]
        /\ proc' = [proc EXCEPT ![p] =
               [Idle EXCEPT !.pc = "load", !.lease = LeaseOf(w, row, now)]]
        /\ UNCHANGED <<now, store, wire, ghost, faults>>

(* Handle renews the row while the processor works; the processor keeps    *)
(* the lease value it was given.                                           *)
Renew(p) ==
    LET lease == proc[p].lease
        row == work[lease.work]
    IN  /\ proc[p].pc # "idle"
        /\ Renewable(row, p, lease.token, now)
        /\ RenewedRow(row, now, LeaseDuration) # row
        /\ work' = [work EXCEPT ![lease.work] = RenewedRow(row, now, LeaseDuration)]
        /\ UNCHANGED <<now, store, proc, wire, ghost, faults>>

-----------------------------------------------------------------------------
(* Where a committed transition leads.                                     *)
AfterCommit(state) ==
    CASE state.tx.id[2] = "start"   -> [state EXCEPT !.pc = "inspect"]
      [] state.tx.id[2] = "outcome" ->
            IF Kind[state.lease.work[1]] = "child" /\ state.tx.events[1].kind # "failed"
            THEN FinishNext(state.lease, "complete")
            ELSE [state EXCEPT !.pc = "after"]
      [] state.tx.id[2] = "retry"   -> FinishNext(state.lease, "complete")

-----------------------------------------------------------------------------
(* Process.                                                                *)

Load(p) ==
    /\ proc[p].pc = "load"
    /\ proc' = [proc EXCEPT ![p] =
           IF Readable(instance) THEN Process(instance, @.lease, now) ELSE Leave]
    /\ UNCHANGED <<now, store, work, wire, ghost, faults>>

(* commitActivityTransition: the commit and its answer ...                 *)
CommitAccepted(p) ==
    LET t == proc[p].tx
    IN  /\ proc[p].pc \in Committing
        /\ \/ Unlocked /\ Land(t)
           \/ Exact(t) /\ UNCHANGED <<store, work>>
        /\ proc' = [proc EXCEPT ![p] = AfterCommit(@)]
        /\ UNCHANGED <<now, wire, ghost, faults>>

CommitRejected(p) ==
    /\ proc[p].pc \in Committing
    /\ ~Fresh(proc[p].tx)
    /\ ~Exact(proc[p].tx)
    /\ Unlocked \/ Known(proc[p].tx)
    /\ proc' = [proc EXCEPT ![p] = Leave]
    /\ UNCHANGED <<now, store, work, wire, ghost, faults>>

(* ... an error from a commit already staged, whose fate is open: the      *)
(* first one is reconciled, the second returned.                           *)
CommitUnknown(p) ==
    /\ faults < MaxFaults
    /\ proc[p].pc \in Committing
    /\ Unlocked
    /\ Fresh(proc[p].tx)
    /\ wire' = {proc[p].tx}
    /\ proc' = [proc EXCEPT ![p] =
           IF @.pc = "commit" THEN [@ EXCEPT !.pc = "reconcile"] ELSE Leave]
    /\ faults' = faults + 1
    /\ UNCHANGED <<now, store, work, ghost>>

Reconcile(p) ==
    /\ proc[p].pc = "reconcile"
    /\ proc' = [proc EXCEPT ![p] =
           CASE Exact(@.tx)  -> AfterCommit(@)
             [] ~Known(@.tx) -> [@ EXCEPT !.pc = "recommit"]
             [] OTHER        -> Leave]
    /\ UNCHANGED <<now, store, work, wire, ghost, faults>>

(* The deadline execute puts into the request: that of the progress it     *)
(* finds when it inspects the instance again after its start is durable.   *)
RequestDeadline(p) == instance.units[proc[p].lease.work[1]].dueAt

(* Mutant of InTime: the handler is called whatever the deadline is.       *)
InTimeAlways(p) == proc[p].pc = "inspect"

(* Activity.Execute calls no handler under a deadline that has passed, and *)
(* the zero deadline of an attempt with an outcome has.                    *)
InTime(p) == RequestDeadline(p) > now

(* The call begins; a starter creates the child or does not.               *)
Invoke(p) ==
    LET w == proc[p].lease.work
        attempt == <<w[1], w[2]>>
    IN  /\ proc[p].pc = "inspect"
        /\ Readable(instance)
        /\ InTime(p)
        /\ proc' = [proc EXCEPT ![p].pc = "handler", ![p].snapshot = instance,
                                ![p].tx = NoTransition]
        /\ runs' = [runs EXCEPT ![attempt] = @ + 1]
        /\ effects' \in IF Kind[w[1]] = "child"
                         THEN {effects, effects \cup {attempt}} ELSE {effects}
        /\ UNCHANGED <<now, store, work, wire, faults>>

TooLate(p) ==
    /\ proc[p].pc = "inspect"
    /\ Readable(instance)
    /\ ~InTime(p)
    /\ proc' = [proc EXCEPT ![p] =
           Persist(instance, @.lease, now, TooLateOutcome(@.lease.work[1]))]
    /\ UNCHANGED <<now, store, work, wire, ghost, faults>>

(* A starter answers truthfully, or that it does not know.                 *)
Answers(attempt) ==
    IF Kind[attempt[1]] = "child"
    THEN {o \in ChildStartOutcomes :
            /\ o.kind = "started" => attempt \in effects
            /\ o.kind = "failed" => attempt \notin effects}
    ELSE Outcomes

HandlerReturns(p) ==
    LET w == proc[p].lease.work
        attempt == <<w[1], w[2]>>
    IN  /\ proc[p].pc = "handler"
        /\ \E outcome \in Answers(attempt) :
              /\ proc' = [proc EXCEPT ![p] =
                     Persist(@.snapshot, @.lease, now, outcome)]
              /\ effects' = IF outcome.kind = "succeeded"
                            THEN effects \cup {attempt} ELSE effects
        /\ UNCHANGED <<now, store, work, wire, runs, faults>>

(* persistOutcome goes on after its outcome is durable.                    *)
OutcomeRecorded(p) ==
    /\ proc[p].pc = "after"
    /\ Readable(instance)
    /\ proc' = [proc EXCEPT ![p] =
           IF @.tx.events[1].kind = "failed" THEN Retry(instance, @.lease, now)
                                             ELSE FinishNext(@.lease, "complete")]
    /\ UNCHANGED <<now, store, work, wire, ghost, faults>>

(* Inspecting an unreadable history is an error.                           *)
InspectFails(p) ==
    /\ proc[p].pc \in {"inspect", "after"}
    /\ ~Readable(instance)
    /\ proc' = [proc EXCEPT ![p] = Leave]
    /\ UNCHANGED <<now, store, work, wire, ghost, faults>>

Finish(p) ==
    LET lease == proc[p].lease
        row == work[lease.work]
    IN  /\ proc[p].pc = "finish"
        /\ work' = IF LiveFence(row, p, lease.token, now)
                   THEN [work EXCEPT ![lease.work] =
                           IF proc[p].decision = "complete" THEN CompletedRow(@)
                                                            ELSE DeadLetteredRow(@)]
                   ELSE work
        /\ proc' = [proc EXCEPT ![p] = Idle]
        /\ UNCHANGED <<now, store, wire, ghost, faults>>

(* The process dies, or a failed renewal cancels it; a commit it was       *)
(* waiting for may still land.                                             *)
Crash(p) ==
    /\ faults < MaxFaults
    /\ proc[p].pc # "idle"
    /\ faults' = faults + 1
    /\ wire' = IF proc[p].pc \in Committing /\ Unlocked /\ Fresh(proc[p].tx)
               THEN {proc[p].tx} ELSE wire
    /\ proc' = [proc EXCEPT ![p] = Idle]
    /\ UNCHANGED <<now, store, work, ghost>>

LandLate(t) ==
    /\ Land(t)
    /\ wire' = {}
    /\ UNCHANGED <<now, proc, ghost, faults>>

RolledBack ==
    /\ wire # {}
    /\ wire' = {}
    /\ UNCHANGED <<now, store, work, proc, ghost, faults>>

-----------------------------------------------------------------------------
ProcessorStep(p) ==
    \/ \E w \in WorkIDs : Claim(p, w)
    \/ Load(p)
    \/ CommitAccepted(p)
    \/ CommitRejected(p)
    \/ Reconcile(p)
    \/ Invoke(p)
    \/ TooLate(p)
    \/ HandlerReturns(p)
    \/ OutcomeRecorded(p)
    \/ InspectFails(p)
    \/ Finish(p)

Next ==
    \/ Tick
    \/ \E u \in Units : Schedule(u)
    \/ \E u \in Units : ReportChild(u)
    \/ \E c \in Commands, a \in LifecycleActions : Command(c, a)
    \/ \E c \in Commands, u \in Units : CommandRetry(c, u)
    \/ \E c \in Commands, u \in Units : CommandCompensate(c, u)
    \/ \E c \in Commands, u \in Units : CommandResolve(c, u)
    \/ \E p \in Workers : ProcessorStep(p)
    \/ \E p \in Workers : Renew(p)
    \/ \E p \in Workers : CommitUnknown(p)
    \/ \E p \in Workers : Crash(p)
    \/ \E t \in wire : LandLate(t)
    \/ RolledBack

Spec == Init /\ [][Next]_vars

(* Workers poll and their processors run; time passes.  Nothing is assumed *)
(* of the operator or of renewals; the database settles an abandoned       *)
(* transaction one way or the other.                                       *)
Fairness ==
    /\ WF_vars(Tick)
    /\ \A p \in Workers : WF_vars(ProcessorStep(p))
    /\ WF_vars(RolledBack \/ \E t \in wire : LandLate(t))

FairSpec == Spec /\ Fairness

-----------------------------------------------------------------------------
(* Properties.                                                             *)

Progress == [status: UnitStatuses, attempt: Nat, key: WorkIDs \cup {NoKey} \cup (Done \X {1} \X {"auto"}),
             dueAt: Nat, retryable: BOOLEAN]

Instance == [valid: BOOLEAN, status: Statuses, sequence: Nat, updatedAt: Nat,
             pendingOperator: {NoAction} \cup DOMAIN operatorEventKind,
             units: [Units -> Progress], waits: [Waits -> {NoWait}]]

TypeOK ==
    /\ now \in Nat
    /\ sequence \in Nat
    /\ instance \in Instance
    /\ work \in [WorkIDs -> Row]
    /\ \A p \in Workers : proc[p].pc \in PCs /\ proc[p].snapshot \in Instance
    /\ runs \in [Attempts -> Nat]
    /\ effects \subseteq Attempts
    /\ faults \in Nat

(* Outcome events recorded for an attempt.                                 *)
OutcomesOf(a) ==
    {t \in committed : \E i \in 1 .. Len(t.events) :
        /\ t.events[i].kind \in OutcomeKinds \cup ChildStartOutcomeKinds
        /\ t.events[i].step = a[1]
        /\ t.events[i].attempt = a[2]}

(* The handler of one attempt is called at most once, whoever takes the    *)
(* work over and however often it is redelivered: two starts that the      *)
(* store would take for one another need one clock reading inside two      *)
(* leases of the same work, which NewActivityAttemptStart's bounds exclude *)
(* as long as claims do not overlap.                                       *)
HandlerOncePerAttempt == \A a \in Attempts : runs[a] <= 1

(* A handler runs only when the start of its attempt is durable, unknown   *)
(* commits and their reconciliation included (commitActivityTransition),   *)
(* and under the deadline that start persisted: execute takes it from a    *)
(* later look at the instance, when another worker may have taken the work *)
(* over and ended the attempt (activity.go on ActivityRequest.Deadline:    *)
(* "returns the persisted attempt deadline").                              *)
StartBeforeEffect ==
    \A p \in Workers :
        proc[p].pc = "handler" =>
            \E t \in committed :
                /\ t.id = processorTransitionID(proc[p].lease.work, "start")
                /\ t.events[1].dueAt =
                      proc[p].snapshot.units[proc[p].lease.work[1]].dueAt

(* Work for a further attempt exists only when the attempt before it ended *)
(* in a known, retryable failure: an unknown outcome is never tried again, *)
(* by the processor or by an operator.                                     *)
RetryOnlyKnownFailure ==
    \A w \in WorkIDs :
        (work[w].state # "absent" /\ w[2] > 1) =>
            \E t \in OutcomesOf(<<w[1], w[2] - 1>>) :
                t.events[1].kind = "failed" /\ t.events[1].retryable

(* The child has an outcome of its own.                                    *)
Reported(u) == Kind[u] = "child" /\ instance.units[u].status \in {"succeeded", "childFailed"}

(* Completed work has a durable outcome for its attempt, or the child it   *)
(* was to start has been reported on: no crash, unknown commit or          *)
(* redelivery lets a processor acknowledge work it has not accounted for.  *)
CompletedIsAccounted ==
    \A w \in WorkIDs :
        work[w].state = "completed" => OutcomesOf(<<w[1], w[2]>>) # {} \/ Reported(w[1])

(* No attempt starts in an instance that is paused or terminal, and none   *)
(* but a compensation's in one that is being cancelled, even when the      *)
(* operator's command is committed between the processor's look at the     *)
(* instance and its commit.                                                *)
StartsOnlyWhileRunning ==
    [][\A t \in committed' \ committed :
          t.id[2] = "start" =>
              \/ instance.status = "running"
              \/ instance.status = "cancelling" /\ Kind[t.id[1][1]] = "compensation"]_vars

(* The clock stops before the lease of some work ends.                     *)
BeyondHorizon ==
    \E w \in WorkIDs : work[w].state = "leased" /\ work[w].expires > MaxTime

(* Nobody claims work once its deadline has passed.                        *)
OutOfTime(u) ==
    \E w \in WorkIDs : w[1] = u /\ work[w].state \in {"ready", "leased"} /\ now >= work[w].deadline

(* Every attempt that was started gets an outcome, whoever dies on the     *)
(* way: its work is claimed again when the lease has expired and the       *)
(* redelivery records the outcome as unknown.  The exception is work whose *)
(* deadline passes first: its attempt stays under way for good.  (A lease  *)
(* that outlives the bounded clock excuses a run from showing it.)         *)
StartedAttemptSettles ==
    \A u \in Units :
        instance.units[u].status = "running" ~>
            instance.units[u].status # "running" \/ OutOfTime(u) \/ BeyondHorizon

(* Work that is dead-lettered has been overtaken and nothing is lost with  *)
(* it: the work of the next attempt of its unit is durable                 *)
(* (processProgress, "invalid-activity-state").                            *)
DeadLetterLosesNothing ==
    \A w \in WorkIDs :
        work[w].state = "dead" =>
            \E v \in WorkIDs : v[1] = w[1] /\ v[2] = w[2] + 1 /\ work[v].state # "absent"

(* A history that says succeeded (or, of a child, started) says the truth: *)
(* the handler of that very attempt answered so, however many processors   *)
(* recorded outcomes in between; a compensation that failed and was        *)
(* resolved by hand never counts (CHANGELOG.md: "never report failed       *)
(* compensation as successful rollback").                                  *)
SuccessIsReal ==
    \A u \in Units :
        LET progress == instance.units[u]
        IN  /\ Kind[u] # "child" /\ progress.status = "succeeded" =>
                   <<u, progress.attempt>> \in effects
            /\ progress.status = "active" => <<u, progress.attempt>> \in effects

(* What an operator has resolved by hand is not undone again: no handler   *)
(* is called for it, although a processor that lost its lease may have     *)
(* been about to (execute, persistOutcome and the deadline of the request).*)
NoEffectAfterResolution ==
    [][\A a \in Attempts :
          instance.units[a[1]].status = "manuallyResolved" => runs'[a] = runs[a]]_vars

(* A child that exists can be reported: its parent never takes its start   *)
(* for a known failure, which would be final and refuse the child's        *)
(* outcome (childTerminalOutcomeAllowed).  executeChildStartSafely records *)
(* known absence only when the starter has not been called.                *)
ChildReportable ==
    \A u \in Units :
        Kind[u] = "child" /\ Exists(u) /\ instance.valid =>
            instance.units[u].status \in
                {"running", "active", "unknown", "succeeded", "childFailed"}

(* docs/architecture.md: "The history is authoritative.  Replaying the     *)
(* same ordered events against the same pinned definition produces the     *)
(* same instance snapshot."                                                *)
(* What can make the history unreadable: an activity's retry that is       *)
(* committed while the instance does not run (NewActivityRetry looks at no *)
(* status, for a processor or for an operator); and after the instance has *)
(* ended, the outcome of an activity or compensation or an operator's      *)
(* resolution (nor do NewActivityAttemptOutcome,                           *)
(* NewCompensationAttemptOutcome and NewOperatorCompensationResolution).   *)
(* Nothing else can, in any interleaving with the operator, and never the  *)
(* transitions of a child.                                                 *)
BlindCommit(t) ==
    \E i \in 1 .. Len(t.events) :
        LET e == t.events[i]
        IN  /\ e.step \in Units
            /\ \/ /\ Kind[e.step] = "activity"
                  /\ e.kind = "retryScheduled"
                  /\ instance.status # "running"
               \/ /\ Kind[e.step] \in {"activity", "compensation"}
                  /\ e.kind \in OutcomeKinds \cup {"manuallyResolved"}
                  /\ instance.status \in Terminal

HistoryBreaksOnlyBlindly ==
    [][Readable(instance) /\ ~Readable(instance)' =>
          \A t \in committed' \ committed : BlindCommit(t)]_vars
=============================================================================
