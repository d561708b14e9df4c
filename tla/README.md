# go-workflow in TLA+

A TLA+ development of go-workflow, a library for durable workflows in Go with
a PostgreSQL store. The modules are translated from the source; each definition
names its lines in `PROJECT.json` ("map"). TLC checks the small instances of the
`MC*` modules, TLAPS proves the theorems of the `*Proofs` modules for every value
of the constants.

## 1. The system

A workflow instance is a history of events. A caller reads the history, replays
it into an `Instance`, asks a pure constructor for a `Transition` (events plus
due work plus an expected sequence) and gives it to a `TransitionStore`. Workers
claim due work under fenced leases and give it to processors, which again read,
construct and commit. There is no coordinator: everything that keeps two
workers, an operator and a restarted process apart is in the conditions of SQL
statements and in the checks of the constructors.

| component | state | operations | talks to |
|---|---|---|---|
| work leases (`work.go`, `postgres/store.go`) | `workflow_work`: state, window, owner, token, expiry | claim, renew, complete, fail (retry or dead-letter) | rows are inserted by transitions, used by workers |
| dead letters (`deadletter.go`) | `workflow_work_resolutions` | retry or discard under a command identity, list | the same rows |
| worker loop (`worker.go`) | active handlers, a results channel, contexts | `Run`, `Handle`, `finalize` | claims from the store, calls a processor |
| transition store (`store.go`, `transition.go`, `postgres/store.go`) | `workflow_instances`, `workflow_transitions`, `workflow_history` | `Commit`, `Stage`, `ReconcileTransition`, reads | everyone |
| replay (`history.go`, `*_history.go`, `operator.go`) | `Instance`: status, sequence, progress of activities, compensations, children, timers, signals, races | `Replay`, `apply` | reads the history |
| transitions (`*_transition.go`, `operator.go`, `operator_work.go`) | none | constructors | called by applications, processors, operators |
| processors (`activity_processor.go`, `compensation_processor.go`, `child_processor.go`) | none beyond one call | `Process` | inspect, commit, call the handler or child starter |
| orchestration planner (`orchestration.go`) | none | next decision from an instance | the application's loop |
| definitions (`definition.go`, `registry.go`) | immutable values | validate, resolve | replay, planner |
| retry policy (`activity_history.go`, `definition.go`) | none | `retryDelay` | replay and constructors |
| inspection, administration (`inspection.go`, `administration.go`) | a cursor | page by page reads | the store |
| schema migrations (`postgres/migration.go`) | DDL | | |

What is hard about it:

* leases expire by the clock while their holder is still at work, and a worker
  may take over from its own earlier handler;
* a request carries the time at which it was built and is evaluated later;
* the answer to a COMMIT can be lost, and the commit can land after somebody
  has looked and found it missing;
* a processor reads the instance, thinks, and commits against what may no
  longer be there; a handler call sits in the middle;
* operators pause, cancel, terminate, retry, compensate and resolve between any
  two of those steps, and a planner ends the instance between two others;
* signals come early, together or not at all, branches fail while their siblings
  run, and deadlines pass while an attempt or a retry is still to come;
* rows are inserted and archived between the pages of a listing;
* goroutines report to a loop that may be shutting down.

What makes the parts correct: an unexpired lease excludes everyone else, and
fences only grow; a transition is durable whole or not at all, once, on the
state it was built on; the handler of an attempt is called at most once and
never before its start is durable; work is acknowledged only when its attempt
has an outcome; success is never made up and an unknown outcome never tried
again; every committed history can be replayed; steps begin in order and an
instance ends on what is known, and does end; a worker keeps its bound, loses no
decision and stops when told to; a listing shows what is there all along.

The hazards behind these, with their lines, are listed in `PROJECT.json`.

## 2. Modules

```
WorkRows ──── WorkLease ──── WorkLeaseProofs                    leases
   │               └──────── MCWorkLease
   └──────┐
RetryPolicy ─ InstanceReplay ─ ActivityTransitions              replay, constructors
                    │            ├─ CompensationTransitions
                    │            ├─ ChildTransitions
                                 └─ WaitTransitions
CompensationTransitions, ChildTransitions ─ Processors ─ StepExecution ─ MCStepExecution
Processors, NaturalFacts ────────────────── ReplayProofs
StepExecution, ReplayProofs ─────────────── StepExecutionProofs
ChildTransitions, WaitTransitions ───────── Planner ──── DefinitionFlow
Processors, Planner ─────────────────────── Orchestration ─ MCOrchestration
Orchestration, DefinitionFlow, ReplayProofs ─ OrchestrationProofs
DefinitionFlow, LeaseOrder, Paging ──────── MCAlgorithms        algorithms and reads
Paging, NaturalFacts ────────────────────── PagingProofs
WorkerRun ─── MCWorkerRun                                       goroutines of one worker
   └───────── WorkerRunProofs
Transitions ─ TransitionLog                                     what a store promises
   └───────── TransitionStore (implements TransitionLog) ─ MCTransitionStore
                    └──────── TransitionStoreProofs
```

**WorkRows.** One operator per SQL statement on a `workflow_work` row: its WHERE
clause (`Due`, `LiveFence`, `Renewable`) and its SET clause (`ClaimedRow`,
`RenewedRow`, ...). The row carries the columns the statements compare.

**WorkLease.** Handlers (`Worker.Handle` calls and the part of `Run` that claims
for them), the clock, an inserting caller and an operator. A handler samples the
clock into a request (`BeginClaim`, `BeginRenew`, `BeginFinalize`) and the
database evaluates it in a later step at the sampled time. A claim is two steps,
`Scan` in the statement's snapshot and `Claim` on the newest version of the row,
which is taken whatever it is by then: `claimWork` does not look again. The
history variable `overlaps` has the fences given by claims whose row was not due
when it was taken, and `MaxOverlaps` bounds how many there are. A handler that dies or whose call fails leaves its request among `orphans`, where
it may take effect at any later time. A claim takes one row at a time; a batch
is several claims with the same time.

**TransitionLog / TransitionStore.** The abstract log: callers offer
transitions, the store takes an offer whole or drops it, and what it has taken
is one chain of events per instance. The detailed store runs `stageTransition`
one statement per step for several transactions under READ COMMITTED, with row
and key locks, refused and aborted transactions, lost COMMIT answers, late
commits, deadlock detection, and callers of `Stage` that own their transaction.

**InstanceReplay.** `apply` for lifecycle, operator-audit, activity,
compensation, child, timer, signal and race events as a fold; an event it
rejects makes the history unreadable for good (`valid = FALSE`). Activities,
compensations and children are *units*: one progress record each, with the
kind's own guards. A compensation is a unit of its own that undoes another.

**ActivityTransitions, CompensationTransitions, ChildTransitions,
WaitTransitions.** The constructors as pairs of a condition and a transition,
the operator's commands among them. Equal transitions stand for equal
fingerprints. Codes, payloads and actors are left out; the pinned definition is
a constant.

**Processors / StepExecution.** `Processors` has the decisions of the three
`Process` methods as operators, `StepExecution` runs them from claim to
disposition. One step is one store call together with the clock reading that
belongs to it. The store is taken at TransitionLog's word; a claim is one
statement on the row as it is, which WorkLease justifies for claims that do not
overlap (`LeaseExclusion` without `Overtaken`; section 6). `runs` counts handler calls, `effects` holds the attempts whose handler
answered with success, `wire` a transaction whose fate is open. `Done` names
activities that have succeeded before the behaviour begins, so that there is
something to compensate; `MCDoneReplayed` checks that the initial instance is
what replay makes of their history.

**Planner / DefinitionFlow / Orchestration.** `Planner` is
`NewOrchestrationDecision`: the first step that is not done decides, leaves of
forks and races left out. `Plannable` is what it takes for granted of a
definition. `DefinitionFlow` is the control flow part of `validateDefinition`, and `CarriedOut`, the planner's rounds on a definition
with everything going well. `Orchestration` puts planner, processors, timer,
senders and a pausing operator around one instance. It is coarser than
`StepExecution`: a piece of work has one processor at a time, which may die, and
a decision without a call in it commits in its own step. The processor's second
look at the instance, after its start, is a step of its own (`Inspect`); one that
comes past the deadline is left to `StepExecution` (`TooLate`). The application is a
careful one where a constructor looks at nothing (`Accepted`).

**Paging.** A listing (active, archived, all, dead letters) reads page by page
with an exclusive cursor, or `traverseHistory` reads a history, while others
create, archive, dead-letter, resolve and append. `ByteOrder` is Go's order of
identities, `Collation` the database's.

**WorkerRun.** The loop of `Run`, the loop of `Handle`, and the processor
goroutine, with the results channel, the wait group and the contexts. What the
store answers is nondeterministic here.

**RetryPolicy, LeaseOrder.** `retryDelay` in machine words of a given width,
`fairLeaseOrder` on sequences.

Definitions named as a mutant in a comment (`DueAnyLease`, ...) are plausible
wrong versions of the definition that follows. No specification uses them. They
are there to show that a property can fail: `PROJECT.json` pairs each property
with the one that breaks it.

## 3. Runs

| run | checks | bounds, and why they suffice |
|---|---|---|
| `lease_safety` | `TypeOK`, `LiveLeaseBacked`, `NewestFenceBacked`, `FenceUnique`, `DiscardIsFinal`, `FencesOnlyGrow` | two handlers of one owner, which only the token tells apart, four instants, leases of two, two commands, two faults, one overlapping claim: enough for a takeover, late claims and late fenced requests after a takeover, a claim that overlaps another claim, a disposition or a resolution, and a dead letter resolved twice |
| `lease_liveness` | `WorkSettles` | two handlers, one fault, one overlapping claim, four instants, a deadline beyond them |
| `lease_snapshot` | `ClaimsOnlyDue` fails | overlapping claims, see section 6 |
| `activity_faults` | `TypeOK`, `HandlerOncePerAttempt`, `StartBeforeEffect`, `CompletedIsAccounted`, `DeadLetterLosesNothing` | one activity, two processors, two attempts, two faults, five instants with leases of two: a redelivery can itself be redelivered |
| `step_operator` | `RetryOnlyKnownFailure`, `SuccessIsReal`, `ChildReportable`, `StartsOnlyWhileRunning`, `NoEffectAfterResolution`, `HistoryBreaksOnlyBlindly` | a unit of each kind of which one is scheduled, two processors, any two operator commands at any points, two faults, two instants with leases and timeouts of one: a lease is lost, its work taken over and commands come in between (a pause and a resumption, a resolution after a termination); all three kinds retry |
| `step_liveness` | `StartedAttemptSettles` | a unit of any kind, one attempt, one fault, a deadline within the horizon or beyond it |
| `orchestration` | `TypeOK`, `StepsInOrder`, `VerdictIsKnown`, `WinnerIsEarliest`, `InstanceFinishes` | two definitions, one with a fork, its join and a timer, one with a race of a signal and an approval, a child and an activity; two attempts, one pause, three instants with work allowed two: retries that fit and retries that do not |
| `orchestration_history` | `HistoryReplayable` fails | a fork, one attempt, see section 6 |
| `store` | `TypeOK`, `TablesAgree`, `NoStandstill`, `ImplementsLog`, `ExactReplayAccepted` | three transactions over two instances: a start, a two-event migration, a terminal event, a transition on a stale definition, a reused identity, crossing work identities and opposite lock orders |
| `worker` | `TypeOK`, `ReportsHaveRoom`, `NothingOutlivesRun`, `DecisionsAreSent`, `ShutdownCompletes`, `CapacityComesBack` | three leases for two slots, so that capacity must come back before the last is handled |
| `algorithms` | `DelayIsCappedExponential`, `TenantsTakeTurns`, `AcceptedCanComplete`, `ListingComplete`, `TraversalIsWhole` | every policy of a six-bit duration with nine attempts, beyond the doubling bound; every claim of up to six leases of three tenants; every draft of up to five steps, accepted or not; listings of three rows at three instants and traversals of seven events, with limits below, at and above |
| `paging_collation` | `PageAccepted` fails | a collation that ranks "a" before "B", see section 6 |

Bounds are named constants: `MaxTime`, `MaxFaults`, `MaxOverlaps`, `MaxScheduled`, `ScheduleBy`,
`Deadlines`, `MaxPauses`, `MaxAttempts`, `MaxLeases`, `MaxSteps`, `MaxHistory`,
`DurationBits`. The clock stops at `MaxTime`, so deadlock is not checked where
the run simply ends; `NoStandstill` and the liveness properties say what must
not get stuck. Symmetric sets, in safety runs only: one worker's handlers and the
commands (leases), owners and commands (steps), calls (store).

The stores' `Stage` and `Commit` run without a retry of their own, so a call
takes finitely many steps, and `NoStandstill` (some step is always possible
while a call is open) is the safety form of "every call is answered".

`AcceptedCanComplete` compares two readings of a definition that nothing in the
code ties together: the validator counts branches and owners in definition
order, the planner skips the leaves of forks and races wherever they stand and
waits at a join for its branches to succeed.

`HistoryBreaksOnlyBlindly` says which commits can make a history unreadable:
retries of activities in an instance that does not run, and outcomes of
activities and compensations and manual resolutions after its end. In particular
no transition of a child, no start, no compensation retry and no lifecycle
command can, in any interleaving.

## 4. Fairness

* `WorkLease`: weak fairness of the clock and of each handler's steps. `Run`
  polls for ever, `Handle` always waits for its processor or its timer. Nothing
  is assumed of renewals, operators, callers or late requests.
* `StepExecution`: the same for processors; an abandoned transaction is settled
  by the database one way or the other. `StartedAttemptSettles` excuses work
  whose deadline passes first: nobody claims it, so its attempt stays under way.
* `Orchestration`: something happens as long as something can (weak fairness of
  one action that joins planner, processors, clock, timer and senders). No
  behaviour of it repeats a state, so each gets its turn. It does assume of the
  outside that signals are sent, approvals given and children reported; it
  assumes nothing of pauses and resumptions, and `InstanceFinishes` speaks of
  instances that are not paused for good. It excuses what the code leaves to a
  person: an unknown outcome, a step whose work is out of time, and a history
  that cannot be read.
* `WorkerRun`: weak fairness of each goroutine. Go's `select` chooses among
  ready cases at random, so a case that is ready again and again is taken now
  and then: strong fairness of `TakeReport` and of leaving `Handle`'s select.
  Processors and store calls are assumed to return: `WorkProcessor` must
  honour cancellation, which is what `ShutdownCompletes` rests on, and the
  attempts of the library's own processors have deadlines, which is what
  `CapacityComesBack` rests on.

## 5. Proofs

Eight modules hold proofs, which TLAPS checks to the last leaf. None of them
bounds the numbers of workers, handlers, work items, units, attempts, commands,
transactions, rows or faults, the steps of a definition, or time. The constants named as bounds in section
3 are arbitrary in them.

| module | theorem | statement | assumes |
|---|---|---|---|
| `WorkLeaseProofs` | `TypeCorrect` | `Spec => []TypeOK` | |
| | `FencesUnique` | `Spec => []FenceUnique` | |
| | `TokensOnlyGrow` | `Spec => FencesOnlyGrow` | |
| | `NewestFenceHolds` | `Spec => []NewestFenceBacked` | |
| | `LeaseExclusion` | `Spec => []LiveLeaseBacked` | |
| | `DiscardedStaysDead` | `Spec => []DiscardIsFinal` | |
| `WorkerRunProofs` | `RunTypeCorrect` | `Spec => []TypeOK` | |
| | `RoomForEveryReport` | `Spec => []ReportsHaveRoom` | |
| | `RunJoinsAll` | `Spec => []NothingOutlivesRun` | |
| | `NoDecisionLost` | `Spec => DecisionsAreSent` | |
| `TransitionStoreProofs` | `StoreTypeCorrect` | `Spec => []TypeOK` | |
| | `TablesAlwaysAgree` | `Spec => []TablesAgree` | |
| | `ReplaysNeverRefused` | `Spec => ExactReplayAccepted` | |
| | `StoreImplementsLog` | `Spec => ImplementsLog` | |
| `ReplayProofs` | `RetryDelayExact` | `CappedExponential(policy, attempt)` | a valid policy, an attempt from 1 |
| `StepExecutionProofs` | `StepsAgree` | `Spec => []IInv` | |
| | `StepTypeCorrect` | `Spec => []TypeOK` | |
| | `HandlerCalledOnce` | `Spec => []HandlerOncePerAttempt` | |
| | `EffectsFollowStarts` | `Spec => []StartBeforeEffect` | |
| | `RetriesFollowFailures` | `Spec => []RetryOnlyKnownFailure` | |
| | `CompletionsAccounted` | `Spec => []CompletedIsAccounted` | |
| | `DeadLettersOvertaken` | `Spec => []DeadLetterLosesNothing` | |
| | `SuccessesAreReal` | `Spec => []SuccessIsReal` | |
| | `ChildrenReportable` | `Spec => []ChildReportable` | |
| | `ResolutionsStand` | `Spec => NoEffectAfterResolution` | |
| | `StartsWhileRunning` | `Spec => StartsOnlyWhileRunning` | |
| | `HistoryStaysReadable` | `Spec => HistoryBreaksOnlyBlindly` | |
| `OrchestrationProofs` | `InvariantHolds` | `Spec => []IInv` | |
| | `TypeCorrect` | `Spec => []TypeOK` | |
| | `StepsKeepOrder` | `Spec => []StepsInOrder` | |
| | `VerdictsAreKnown` | `Spec => []VerdictIsKnown` | |
| | `WinnersAreEarliest` | `Spec => []WinnerIsEarliest` | |
| | `AcceptedIsPlannable` | `Plannable(draft)` | `validateDefinition(draft)` |
| `PagingProofs` | `ListingsAreComplete` | `PagingSpec => []ListingComplete` | |
| | `TraversalsAreWhole` | `PagingSpec => []TraversalIsWhole` | |

Besides these, every theorem uses the `ASSUME`s of the module it is about. They
say what the code's constructors enforce or what a representation means: a
renewal interval below the lease duration (`NewWorker`), positive limits, a
valid retry policy whose delays are durations, a step that has a name, a batch
of `Commit` that has one transition, an owner that is not NULL. That the
definitions of `Orchestration` are `Plannable` is what `validateDefinition`
enforces, by `AcceptedIsPlannable` for every draft and by `MCAcceptedPlannable`,
which TLC evaluates on the drafts of the run `algorithms`.

**Leases.** All of it holds with any number of overlapping claims. Three
results are untouched by them: fences are unique and only grow, and whoever
holds a row's newest fence has the row, for as long as it believes
(`NewestFenceHolds`). The other two say what an overlapping claim can do and
that nothing else can: take a lease that has not expired from its holder
(`LeaseExclusion`), and take a discarded dead letter (`DiscardedStaysDead`).
Both name the culprit, `Overtaken`: a later claim in `overlaps`; the run
`lease_snapshot` shows that it happens. None of this is inductive by itself: a
handler knows the lease value it was answered, the row has what the last
statement wrote, and requests of handlers long gone may still arrive. `IInv` adds

* `SampledInPast`: every request carries a time that has been. Hence a claim
  that finds a lease expired at its own time finds it expired by the clock.
* `FencesHeld`: a handler's token is the row's, and then the row is leased to it
  at least as long as the handler believes; or it is an older one, and then
  the handler's lease value has expired or a later claim has overtaken it.
* `OrphanFences`: no handler carries the fence of an orphaned request, so a late
  renewal, which may shorten a lease, or a late disposition hits nobody's lease.
* `FenceUnique` and `AbsentUnclaimed`.

`NextIInv` has one step per action and under it one per conjunct. The action
properties follow from `NextRowStep`, which says what a step does to one row.

**Worker loop.** `active` alone does not say why the channel has room.
`ActiveCounted` does: it is the number of handlers that run plus the reports in
the channel, and claims keep it within `MaxConcurrent`. `ProcessorJoined` ties
the place of a handler to its processor goroutine, and `ReturnedAlone` says what
`handlers.Wait()` has waited for.

**Transition store.** The invariant is one statement about the tables (`Tables`:
the durable transitions are coherent, and each instance's row tells where its
events end and what they left) and one about each transaction (`Session`: what
it has written it has locked; the row its transition was built on is still
there; what it sees, its own writes included, is coherent). `Exclusive` says that no
two transactions hold one lock. Together they give that a COMMIT publishes
something coherent whatever others published since the transaction began. The
refinement mapping needs the same invariant: a COMMIT is the log's taking of an
offer whole, and all other steps change nothing there but offers and answers.

**Replay and retry delay.** `NaturalFacts` has induction and recursion over the
naturals in a form that speaks of sets and functions where the library's
theorems take operators. From it `ReplayProofs` shows that the recursive
definitions have the values they should: `Pow2`, the loop of `retryDelay` (the
word never overflows before the cap stops it, in any width), and the fold of
`apply` over a transition. `RetryDelayExact` is what the invariant
`DelayIsCappedExponential` of the run `algorithms` says of each of its policies
and attempts. It also says once and for all what one event does to
a unit's progress and when it makes a history unreadable.

**Step execution.** No property of the processors is inductive, since each
depends on an agreement between parties that act at different times. `IInv` has
three parts.

* `RowsFit`: a completed row is accounted for, a dead one overtaken, a row of a
  later attempt preceded by a failure that is known.
* `StoreFits`: every durable transition is sound, and a history that can be read
  agrees, unit by unit (`UnitHistory`), with the starts, the outcomes and the
  rows. `CallsFit` and `SuccessFits` tie calls and effects to them.
* `ProcessorsFit`: what a processor or a transaction of open fate is about to
  commit is either built on the present sequence, and then valid for the present
  instance, or stale, and then refused (`Ready`). Lease values of two processors
  on one piece of work do not overlap in time (`Apart`). A processor whose start
  is durable and that has not called yet is the only one entitled to
  (`Entitled`, `Unsettled`): starts carry their time, which lies within the
  lease, so the starts of two processors differ, and only one can be durable.
  That is why `HandlerCalledOnce` holds across takeovers and unknown commits,
  and why it needs claims that do not overlap.

A history that has become unreadable freezes the instance, and the invariant
then claims nothing of its units; the properties still hold, since no handler is
called for it any more. `HistoryStaysReadable` compares what each constructor
looked at with what replay demands: every transition offered or staged on the
present sequence is accepted, or is one of the blind ones.

**Orchestration.** What the planner commits rests on what it found in the
instance, and the instance moves on by the commits of everybody else. `IInv` is
`TypeOK` with these parts.

* `Synced`: a readable history is as long as the instance's row says, and has no
  operator audit without its lifecycle event. So a transition built on the present
  sequence is replayed from the instance it was built on.
* `Called`: handlers run for the work of units only.
* `Heard`: an accepted signal carries a time that is not after the last event.
  `apply` takes no event older than the last, so what is accepted later is not
  earlier; this is what keeps `Decided` after a race has been decided.
* `Decided`: a race that is decided is one of the definition, and its winner is
  one of its branches, received, and not after any other that is.
* `Ordered` and `Verdict`: the properties themselves, said of an instance and a
  definition instead of the state, so that they can be said of the instance
  between the events of one transition.

The argument has two halves. `Grows` is what no event may take back: time, a
success, a fired timer, a received signal, a decided race; and an end leaves
everything as it is. From it a step that is done stays done (`DoneStays`), so
`Ordered` and the grounds of `Verdict` survive every event that begins nothing
new (outcomes, starts, retries, signals, operator commands). The events that
begin a step come from the planner, and the lemmas on its decisions show that it
looked: all steps before the decided one are done, and by `Plannable` the
activities a fork schedules belong to no other step, so that nothing else begins
with them. A fork commits as many events as it has branches; that replaying them
keeps the invariant goes by induction on how many have been replayed. An event
that is rejected leaves the instance as it was but for `valid`, so the theorems
also hold of the histories of section 6 that can no longer be read.

`AcceptedIsPlannable` follows the loop of `validateOrchestrationControlFlow`:
after each step, the branches of every fork and race seen so far are among the
owners recorded, are of the kinds the loop asks for, and are not shared.

**Paging.** `ListedSoFar` says that the cursor is the last key listed, that keys
are listed in the database's order, and that what has been in the selection all
the while is listed as far as the cursor has come. That the query's rows are the
first of those after the cursor rests on `OrderedFacts`: a finite set of keys
can be enumerated in a strict total order, by induction on its size. Whether the
database's order is that of bytes plays no part in it, so the listing that the
run `paging_collation` shows to be refused is still never incomplete.
`TraversedSoFar` says that a traversal that goes on has room below `MaxEvents`
and has not passed the end of the history.

Only model-checked: liveness (fairness and ENABLED are outside the prover) and
with it `NoStandstill`, which says that some step is enabled; `TenantsTakeTurns`
and `AcceptedCanComplete`, which compare what `fairLeaseOrder` and the planner's
rounds on a definition compute, through several folds, with a reference, and need
an induction over the data for each of them.

## 6. What the violation runs show

* `orchestration_history`. `decideParallelStep` ends the instance as soon as the
  first branch that is not done has failed for good, although a later branch may
  be running. `NewActivityAttemptOutcome` looks at the step's progress and not
  at the instance's status, so that branch's processor, or the redelivery of its
  work, commits its outcome after the terminal event, and `apply` rejects it.
  From then on the instance cannot be read or repaired through the library. A
  termination while an attempt is under way ends the same way,
  `NewCompensationAttemptOutcome` and `NewOperatorCompensationResolution` are as
  blind, and `NewActivityRetry` commits a retry into an instance that was paused
  or cancelled after the failed outcome, which `applyActivity` rejects.
  `HistoryStaysReadable` proves that the processors' and operator's transitions
  have no other way. The listings suffer too: such an outcome, when it is later
  than the end, moves the row's `updated_at` past the `archived_at` that
  `COALESCE` keeps, `InstanceRecord.valid`
  wants it the other way round, and every page with that instance is refused.
* `lease_snapshot`. State, admission time and expiry are conditions of
  `claimWork`'s `due` query only. `candidates` locks the newest version of the
  row and rechecks its own join on the work identity alone, so a claim whose
  snapshot predates another claim or a completion takes the row again. Two
  processors can then hold live leases on one piece of work. They do so under
  different fences, so one of them cannot dispose of it; but
  `HandlerOncePerAttempt`, which `activity_faults` checks with claims that do not
  overlap, does not survive it: two processors that read the same clock value
  commit an identical start, which the store accepts as a replay, and both call
  the handler.
* `paging_collation`. Rows of one instant come in the order of the database's
  collation and are checked in the order of their bytes. Where the two differ,
  `NewInstanceListPage` refuses a page that holds both and the listing fails
  with `ErrCorruptStore`; dead letters are listed the same way. With
  `COLLATE "C"` on the identities, the order of the run `algorithms`, both
  listings are complete.

Further observations, which the passing runs contain and do not single out:

* A lease never outlives the deadline and expired work is claimable only before
  it, so work whose worker dies under a lease clamped to the deadline stays
  leased for ever; it is neither claimed nor dead-lettered, whatever
  `docs/operations.md` says of due work after lease expiry. A retry whose time is
  at or after the deadline is accepted and ends like this too. It is the
  exception `OutOfTime` of both liveness properties.
* When the deadline leaves no room for a retry, the processor completes the work
  without one, but the planner goes by the attempts and waits for it: the
  instance waits for an operator (`Starved` in `InstanceFinishes`).
* A worker that dies between a committed retry and the completion of its work
  leaves work whose attempt is fully accounted for; the redelivery finds the
  activity one attempt ahead and dead-letters it. Nothing is lost
  (`DeadLetterLosesNothing`), the list gets an entry nobody need act on.
* `stageTransition` inserts the instance row of a start before it can lose the
  race for the transition identity. `Stage` then reports a refusal, which is no
  SQL error; a caller that nevertheless commits its own transaction
  (`CallerCommitsRefused`) leaves an instance at sequence 0 with no history.
  `TablesAgree` allows that row; `InstanceRecord.valid` does not, so a page that
  holds it is refused. `Paging` has neither kind of row: of the page check it
  models the selection and the order.

## 7. Not modelled

Payload bytes, codes, digests and their limits; observation hooks and logging;
the wording of errors; contexts with a deadline on store calls (a call that runs
out of time is a failed or an unknown one); schema migrations beyond the keys and
checks they create; the registry, a map of immutable values, and the migration
of an instance to another definition beyond what the store does with it; clocks
that differ between processes; the precision a `timestamptz` loses; the order in
which an application compensates, which the library leaves to it; and
applications that commit timers, signals or decisions without looking at the
instance.

## 8. What could follow

But for `NoStandstill` and the two properties of algorithms named in section 5,
every invariant and every action property that a run checks is a theorem as
well. What could be added: `TenantsTakeTurns`
for claims of any size, with the grouping of `fairLeaseOrder` written as
recursive functions as `validateOrchestrationControlFlow` is; `Orchestration` on
top of `StepExecution`'s redeliveries instead of its coarser processors; and the
migration of an instance to another definition, which would make the definition
a variable of replay.
