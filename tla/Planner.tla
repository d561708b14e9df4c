------------------------------ MODULE Planner ------------------------------
(***************************************************************************)
(* NewOrchestrationDecision (orchestration.go): from the replayed instance *)
(* and its pinned definition, the next transition to commit, or to wait.   *)
(* A definition is the sequence of its step names; the kinds and branches  *)
(* of steps are constants.  The planner takes the first step that is not   *)
(* done, leaving out the leaves that belong to a parallel or a race, and   *)
(* decides it.                                                             *)
(***************************************************************************)
EXTENDS ChildTransitions, WaitTransitions, FiniteSetsExt

(* What a decision comes to; only its transition is ever committed.        *)
Decision(kind, tx) == [kind |-> kind, tx |-> tx]

NoPlan == Transition("none", 0, <<>>, {})
orchestrationWait == Decision("waiting", NoPlan)
ErrInvalidOrchestration == Decision("error", NoPlan)

orchestrationTerminal(inst, kind, at) ==
    Decision(kind,
        Transition(<<"planner", "terminal">>, inst.sequence,
            <<Event(IF kind = "failed" THEN "instanceFailed" ELSE "instanceCompleted", at)>>,
            {}))

-----------------------------------------------------------------------------
(* Where the steps of a definition stand.                                  *)

orchestrationBranchMembers(definition) ==
    UNION {Range(Branches[s]) : s \in {s \in Range(definition) : Kind[s] \in {"parallel", "race"}}}

orchestrationBranchLeaf(s) == Kind[s] \notin {"parallel", "join", "race"}

(* The positions of the steps the planner's loop does not skip.            *)
Planned(definition) ==
    LET members == orchestrationBranchMembers(definition)
    IN  {i \in DOMAIN definition :
            ~(definition[i] \in members /\ orchestrationBranchLeaf(definition[i]))}

(* What the planner takes for granted of a definition, since NewDefinition *)
(* has looked: a name is the name of one step, a parallel branches to      *)
(* activities and a race to signals or approvals, and no step is a branch  *)
(* of two parallels.                                                       *)
Plannable(definition) ==
    /\ definition \in Seq(DOMAIN Kind)
    /\ IsInjective(definition)
    /\ \A s \in Range(definition) :
          /\ Kind[s] # "compensation"
          /\ Kind[s] \in {"parallel", "race"} => Branches[s] \in Seq(DOMAIN Kind)
          /\ Kind[s] = "parallel" => \A b \in Range(Branches[s]) : Kind[b] = "activity"
          /\ Kind[s] = "race" => \A b \in Range(Branches[s]) : Kind[b] \in {"signal", "approval"}
    /\ \A s, t \in Range(definition) :
          Kind[s] = "parallel" /\ Kind[t] = "parallel" /\ s # t =>
              Range(Branches[s]) \cap Range(Branches[t]) = {}

BranchesSucceeded(inst, s) ==
    \A b \in Range(Branches[s]) : b \in Units /\ inst.units[b].status = "succeeded"

StepDone(inst, s) ==
    CASE Kind[s] \in {"activity", "child"}    -> inst.units[s].status = "succeeded"
      [] Kind[s] = "timer"                    -> inst.waits[s].status = "fired"
      [] Kind[s] \in {"signal", "approval"}   -> inst.waits[s].status = "received"
      [] Kind[s] \in {"parallel", "join"}     -> BranchesSucceeded(inst, s)
      [] Kind[s] = "race"                     -> inst.waits[s].status = "won"

(* Mutant of FinalFailure: the attempts used up are not counted.           *)
FinalFailureUncounted(progress) == progress.status = "failed" /\ ~progress.retryable

(* A known failure that no retry will follow.                              *)
FinalFailure(progress) ==
    /\ progress.status = "failed"
    /\ ~progress.retryable \/ progress.attempt >= Policy.maxAttempts

-----------------------------------------------------------------------------
(* The steps, each when it is the first that is not done.                  *)

FirstWork(s) == <<s, 1, "auto">>

(* Mutant of decideActivityStep: an unknown outcome is a failure.          *)
decideActivityStepUnknown(inst, s, at, deadline) ==
    CASE inst.units[s].status = "none" ->
            IF CanSchedule(inst, s, at, deadline)
            THEN Decision("scheduled",
                     NewActivitySchedule(inst, s, at, deadline, FirstWork(s)))
            ELSE ErrInvalidOrchestration
      [] FinalFailure(inst.units[s]) \/ inst.units[s].status = "unknown" ->
            orchestrationTerminal(inst, "failed", at)
      [] OTHER -> orchestrationWait

decideActivityStep(inst, s, at, deadline) ==
    CASE inst.units[s].status = "none" ->
            IF CanSchedule(inst, s, at, deadline)
            THEN Decision("scheduled",
                     NewActivitySchedule(inst, s, at, deadline, FirstWork(s)))
            ELSE ErrInvalidOrchestration
      [] FinalFailure(inst.units[s]) -> orchestrationTerminal(inst, "failed", at)
      [] OTHER -> orchestrationWait

decideChildStep(inst, s, at, deadline) ==
    CASE inst.units[s].status = "none" ->
            IF CanScheduleChild(inst, s, at, deadline)
            THEN Decision("scheduled",
                     NewChildSchedule(inst, s, at, deadline, FirstWork(s)))
            ELSE ErrInvalidOrchestration
      [] FinalFailure(inst.units[s]) \/ inst.units[s].status = "childFailed" ->
            orchestrationTerminal(inst, "failed", at)
      [] OTHER -> orchestrationWait

decideTimerStep(inst, s, at, deadline) ==
    CASE inst.waits[s].status = "none" ->
            IF CanScheduleTimer(at, deadline)
            THEN Decision("scheduled",
                     NewTimerSchedule(inst, s, at, deadline, FirstWork(s)))
            ELSE ErrInvalidOrchestration
      [] OTHER -> orchestrationWait

(* Mutant of Winner: the latest signal wins.                               *)
WinnerLatest(inst, branches) ==
    CHOOSE b \in Range(branches) :
        /\ inst.waits[b].status = "received"
        /\ \A c \in Range(branches) :
              inst.waits[c].status = "received" => inst.waits[b].at >= inst.waits[c].at

(* The earliest signal, and of those at one instant the first branch.      *)
Winner(inst, branches) ==
    LET received == {i \in DOMAIN branches : inst.waits[branches[i]].status = "received"}
        at(i) == inst.waits[branches[i]].at
        first == CHOOSE i \in received :
                    \A j \in received : at(i) < at(j) \/ (at(i) = at(j) /\ i <= j)
    IN  branches[first]

decideRaceStep(inst, s, at) ==
    IF \A b \in Range(Branches[s]) : inst.waits[b].status # "received"
    THEN orchestrationWait
    ELSE Decision("recorded",
             Transition(<<"planner", "race">>, inst.sequence,
                        <<[WaitEvent("raceWon", at, s) EXCEPT
                              !.key = Winner(inst, Branches[s])]>>, {}))

(* One transition that schedules all branches; nothing compares its time   *)
(* with the instance's.                                                    *)
newParallelActivitySchedule(inst, branches, at, deadline) ==
    Transition(<<"planner", "parallel">>, inst.sequence,
        [i \in DOMAIN branches |-> UnitEvent("scheduled", at, branches[i], 0)],
        {PendingWork(FirstWork(b), at, deadline) : b \in Range(branches)})

(* The first branch that is under way or failed decides, in branch order.  *)
decideParallelStep(inst, s, at, deadline) ==
    LET branches == Branches[s]
        progress(i) == inst.units[branches[i]]
        missing == {i \in DOMAIN branches : progress(i).status = "none"}
        open == {i \in DOMAIN branches : progress(i).status \notin {"none", "succeeded"}}
    IN  CASE open # {} ->
               IF FinalFailure(progress(Min(open)))
               THEN orchestrationTerminal(inst, "failed", at)
               ELSE orchestrationWait
          [] open = {} /\ missing = DOMAIN branches /\ PendingWorkValid(at, deadline) ->
               Decision("scheduled", newParallelActivitySchedule(inst, branches, at, deadline))
          [] OTHER -> ErrInvalidOrchestration

-----------------------------------------------------------------------------
(* The planned steps that are not done.                                    *)
Open(inst, definition) ==
    {i \in Planned(definition) : ~StepDone(inst, definition[i])}

(* Mutant of FirstOpen: the last step that is not done goes next.          *)
FirstOpenLast(inst, definition) == Max(Open(inst, definition))

FirstOpen(inst, definition) == Min(Open(inst, definition))

NewOrchestrationDecision(inst, definition, at, deadline) ==
    IF inst.status # "running" THEN ErrInvalidOrchestration
    ELSE IF Open(inst, definition) = {} THEN orchestrationTerminal(inst, "completed", at)
    ELSE LET s == definition[FirstOpen(inst, definition)]
         IN  CASE Kind[s] = "activity"  -> decideActivityStep(inst, s, at, deadline)
               [] Kind[s] = "timer"     -> decideTimerStep(inst, s, at, deadline)
               [] Kind[s] = "child"     -> decideChildStep(inst, s, at, deadline)
               [] Kind[s] = "parallel"  -> decideParallelStep(inst, s, at, deadline)
               [] Kind[s] = "race"      -> decideRaceStep(inst, s, at)
               [] OTHER                 -> orchestrationWait
=============================================================================
