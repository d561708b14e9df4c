-------------------------- MODULE MCOrchestration --------------------------
(* Instances of Orchestration for TLC.                                     *)
EXTENDS Orchestration, DefinitionFlow, TLC

CONSTANTS a, b, c, fork, meet, nap, sig, appr, race, kid

MCKind ==
    a :> "activity" @@ b :> "activity" @@ c :> "activity" @@
    fork :> "parallel" @@ meet :> "join" @@ nap :> "timer" @@
    sig :> "signal" @@ appr :> "approval" @@ race :> "race" @@ kid :> "child"

MCBranches == fork :> <<a, b>> @@ meet :> <<a, b>> @@ race :> <<sig, appr>>

MCUndoes == [s \in {} |-> a]

(* A fork over two activities, its join, a pause.                          *)
Forking == <<a, fork, b, meet, nap>>

(* A race of a signal and an approval, a child, an activity.               *)
Racing == <<race, sig, appr, kid, c>>

MCDefinitions == {Forking, Racing}

(* Instances are pinned to definitions that NewDefinition has accepted.    *)
ASSUME MCDefinitionsAccepted == \A d \in MCDefinitions : validateDefinition(d)

MCForking == {Forking}

(* Two attempts; the retry waits one instant.                              *)
MCPolicy == [maxAttempts |-> 2, initialDelay |-> 1, maxDelay |-> 2]

(* One attempt.                                                            *)
MCPolicyOnce == [maxAttempts |-> 1, initialDelay |-> 1, maxDelay |-> 1]
=============================================================================
