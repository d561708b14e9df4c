-------------------------- MODULE MCStepExecution --------------------------
(* Instances of StepExecution for TLC.                                     *)
EXTENDS StepExecution, TLC

CONSTANTS p1, p2, s0, s1, k1, h1, c1, c2

(* One activity step.                                                      *)
MCActivity == s1 :> "activity"

(* The compensation of an activity that has been done, and a child step.   *)
MCUndoAndChild == s0 :> "activity" @@ k1 :> "compensation" @@ h1 :> "child"

(* A unit of every kind.                                                   *)
MCAllKinds == s1 :> "activity" @@ MCUndoAndChild

MCUndoes == k1 :> s0

MCBranches == [s \in {} |-> <<>>]

(* Two attempts; the first retry waits one instant.                        *)
MCPolicy == [maxAttempts |-> 2, initialDelay |-> 1, maxDelay |-> 2]

(* One attempt.                                                            *)
MCPolicyOnce == [maxAttempts |-> 1, initialDelay |-> 1, maxDelay |-> 1]

(* The events of an activity that was scheduled, tried and done.           *)
SucceededHistory(u) ==
    <<UnitEvent("scheduled", 1, u, 0),
      [UnitEvent("attemptStarted", 1, u, 1) EXCEPT
          !.key = <<u, 1, "auto">>, !.dueAt = 1 + Timeout],
      UnitEvent("succeeded", 1, u, 1)>>

(* What is done at the start is what its history replays to.               *)
ASSUME MCDoneReplayed ==
    \A u \in Done :
        LET replayed == Appended(Started(1), SucceededHistory(u))
        IN  /\ replayed.sequence = 1 + 3
            /\ replayed = [Started(1) EXCEPT !.sequence = 4, !.units[u] = SucceededProgress(u)]

(* Workers are alike, and so are the identities of commands.               *)
MCSymmetry == Permutations(Owners) \cup Permutations(Commands)
=============================================================================
