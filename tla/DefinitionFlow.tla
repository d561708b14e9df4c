--------------------------- MODULE DefinitionFlow ---------------------------
(***************************************************************************)
(* validateDefinition (definition.go) on the control flow of an            *)
(* orchestration: which sequences of steps make a definition.  A draft is  *)
(* a sequence of step names, and Kind and Branches say what each would be; *)
(* targets, limits, timeouts and policies of the leaves are taken to be    *)
(* valid.                                                                  *)
(***************************************************************************)
EXTENDS Planner, SequencesExt

CONSTANT FanOutLimit    \* FanOutLimit of the control steps

Control == {"parallel", "join", "race"}

validBranchNames(branches) == IsInjective(branches)

(* validateStep, of a control step.                                        *)
validateStep(s) ==
    Kind[s] \in Control =>
        /\ Branches[s] # <<>>
        /\ Len(Branches[s]) <= FanOutLimit
        /\ validBranchNames(Branches[s])

BranchesOf(s) == IF Kind[s] \in Control THEN Range(Branches[s]) ELSE {}

-----------------------------------------------------------------------------
(* validateOrchestrationControlFlow: one pass over the steps, in order.    *)

Pass == [valid |-> TRUE, owners |-> <<>>, joined |-> {}]

(* A parallel or race takes its branches, each of a kind it can have.      *)
BranchKinds(s) == IF Kind[s] = "parallel" THEN {"activity"} ELSE {"signal", "approval"}

Owning(pass, s) ==
    [pass EXCEPT
        !.valid = @ /\ \A b \in Range(Branches[s]) :
                          Kind[b] \in BranchKinds(s) /\ b \notin DOMAIN pass.owners,
        !.owners = [b \in DOMAIN @ \cup Range(Branches[s]) |->
                       IF b \in Range(Branches[s]) THEN s ELSE @[b]]]

(* branchCounts: races have no entry, and a missing entry is zero.         *)
branchCount(s) == IF Kind[s] = "parallel" THEN Len(Branches[s]) ELSE 0

OwnerOfFirst(pass, s) == pass.owners[Branches[s][1]]

(* Mutant of Joining: the branches are not counted.                        *)
JoiningUncounted(pass, s) ==
    IF Branches[s][1] \notin DOMAIN pass.owners THEN [pass EXCEPT !.valid = FALSE]
    ELSE [pass EXCEPT
            !.valid = /\ @
                      /\ OwnerOfFirst(pass, s) \notin pass.joined
                      /\ \A b \in Range(Branches[s]) :
                            /\ b \in DOMAIN pass.owners
                            /\ pass.owners[b] = OwnerOfFirst(pass, s),
            !.joined = @ \cup {OwnerOfFirst(pass, s)}]

(* A join names all branches of one earlier parallel that has no join yet. *)
Joining(pass, s) ==
    IF Branches[s][1] \notin DOMAIN pass.owners THEN [pass EXCEPT !.valid = FALSE]
    ELSE [pass EXCEPT
            !.valid = /\ @
                      /\ branchCount(OwnerOfFirst(pass, s)) = Len(Branches[s])
                      /\ OwnerOfFirst(pass, s) \notin pass.joined
                      /\ \A b \in Range(Branches[s]) :
                            /\ b \in DOMAIN pass.owners
                            /\ pass.owners[b] = OwnerOfFirst(pass, s),
            !.joined = @ \cup {OwnerOfFirst(pass, s)}]

Check(pass, s) ==
    CASE Kind[s] \in {"parallel", "race"} -> Owning(pass, s)
      [] Kind[s] = "join"                 -> Joining(pass, s)
      [] OTHER                            -> pass

validateOrchestrationControlFlow(draft) ==
    LET passed[n \in 0 .. Len(draft)] ==
            IF n = 0 THEN Pass ELSE Check(passed[n - 1], draft[n])
    IN  passed[Len(draft)].valid

(* A branch is another step of the definition, and a leaf.                 *)
validateDefinition(draft) ==
    /\ draft # <<>>
    /\ IsInjective(draft)
    /\ \A s \in Range(draft) :
          /\ validateStep(s)
          /\ \A b \in BranchesOf(s) : b \in Range(draft) \ {s} /\ Kind[b] \notin Control
    /\ validateOrchestrationControlFlow(draft)

-----------------------------------------------------------------------------
(* An instance of a definition in a world where everything goes well: its  *)
(* signals have come, and whatever the planner schedules succeeds at once. *)

Received(inst, draft) ==
    FoldLeft(LAMBDA i, s : IF Kind[s] \in {"signal", "approval"}
                           THEN Apply(i, WaitEvent("signalReceived", i.updatedAt, s)) ELSE i,
             inst, draft)

Succeeds(s, at) ==
    <<[UnitEvent("attemptStarted", at, s, 1) EXCEPT !.key = FirstWork(s), !.dueAt = at + Timeout]>> \o
    (IF Kind[s] = "child" THEN <<UnitEvent("started", at, s, 1), UnitEvent("childCompleted", at, s, 0)>>
                          ELSE <<UnitEvent("succeeded", at, s, 1)>>)

Served(inst, draft) ==
    FoldLeft(LAMBDA i, s :
                CASE s \in Units /\ i.units[s].status = "ready" ->
                        Appended(i, Succeeds(s, i.updatedAt))
                  [] s \in Waits /\ i.waits[s].status = "waiting" ->
                        Apply(i, WaitEvent("timerFired", i.waits[s].at, s))
                  [] OTHER -> i,
             inst, draft)

(* One round of the planner and the world.                                 *)
PlannerRound(inst, draft) ==
    IF inst.status # "running" THEN inst
    ELSE LET at == inst.updatedAt
             decision == NewOrchestrationDecision(inst, draft, at, at + 2 * Timeout)
         IN  IF decision.kind \in {"waiting", "error"} THEN inst
             ELSE Served(Appended(inst, decision.tx.events), draft)

CarriedOut(draft) ==
    FoldLeft(LAMBDA inst, n : PlannerRound(inst, draft),
             Received(Started(1), draft), [n \in 1 .. Len(draft) + 1 |-> n])
=============================================================================
